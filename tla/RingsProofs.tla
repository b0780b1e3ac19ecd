---------------------------- MODULE RingsProofs ----------------------------
(***************************************************************************)
(* Proofs about the two rings through which the firmware tells the host    *)
(* what happened, as MCRings puts them side by side: TxStatusRing, for     *)
(* every size of the ring, every capacity of a response and every number   *)
(* of frames, and IntRing, for every number of slots, space in a response, *)
(* lengths and number of messages.                                         *)
(***************************************************************************)
EXTENDS MCRings, QueueLemmas, TLAPS

(* The facts about ring indices (QueueLemmas), for this ring.              *)
LEMMA SlotFacts ==
  ASSUME NEW h \in Slots, NEW a \in 0 .. CARL9170_TX_STATUS_NUM
  PROVE  /\ Slot(h) = h
         /\ Slot(h + a) \in Slots
         /\ \A b \in 0 .. CARL9170_TX_STATUS_NUM :
              a + b <= CARL9170_TX_STATUS_NUM =>
                Slot(Slot(h + a) + b) = Slot(h + (a + b))
         /\ \A b \in 0 .. CARL9170_TX_STATUS_NUM - 1 :
              a < CARL9170_TX_STATUS_NUM /\ a # b => Slot(h + a) # Slot(h + b)
<1> DEFINE n == CARL9170_TX_STATUS_NUM
<1>1. n \in Nat \ {0} /\ h \in 0 .. n - 1
  BY RingAssumption DEF Slots
<1> HIDE DEF n
<1>2. Wrapped(h, n) = h
  BY <1>1, WrappedIndex
<1>3. Wrapped(h + a, n) \in 0 .. n - 1
  BY <1>1, WrappedInRange DEF n
<1>4. ASSUME NEW b \in 0 .. n, a + b <= n
      PROVE  Wrapped(Wrapped(h + a, n) + b, n) = Wrapped(h + (a + b), n)
  BY <1>1, <1>4, WrappedSum DEF n
<1>5. ASSUME NEW b \in 0 .. n - 1, a < n, a # b
      PROVE  Wrapped(h + a, n) # Wrapped(h + b, n)
  <2>1. a \in 0 .. n - 1
    BY <1>1, <1>5 DEF n
  <2>2. QED
    BY <1>1, <1>5, <2>1, WrappedInjective
<1>6. QED
  BY <1>2, <1>3, <1>4, <1>5 DEF Slot, Slots, n

(* How much one response takes is at least one status, and all of them are *)
(* pending and before the edge of the array.                               *)
LEMMA SpliceLenBounds ==
  ASSUME TypeOK, pending > 0
  PROVE  /\ SpliceLen \in 1 .. pending
         /\ head + SpliceLen <= CARL9170_TX_STATUS_NUM
BY RingAssumption DEF TypeOK, SpliceLen, SmallerOf, Slots

(* The ranges of the indices, with the size of the ring as a number.       *)
LEMMA Ranges ==
  ASSUME TypeOK
  PROVE  /\ CARL9170_TX_STATUS_NUM \in Nat \ {0}
         /\ head \in 0 .. CARL9170_TX_STATUS_NUM - 1
         /\ tail \in 0 .. CARL9170_TX_STATUS_NUM - 1
         /\ slot \in 0 .. CARL9170_TX_STATUS_NUM - 1
         /\ pending \in 0 .. CARL9170_TX_STATUS_NUM
         /\ completed \in Nat
         /\ Len(host) \in Nat
BY RingAssumption DEF TypeOK, Slots, Frames

(* The indices of the ring and its slots keep their types: no status is    *)
(* written to or read from outside tx_status_cache (wlan.c:112-156).       *)
THEOREM TypeCorrect == Spec => []TypeOK
<1>1. Init => TypeOK
  BY RingAssumption DEF Init, TypeOK, Slots, Frames, Pc
<1>2. TypeOK /\ [Next]_vars => TypeOK'
  <2> SUFFICES ASSUME TypeOK, [Next]_vars PROVE TypeOK'
    OBVIOUS
  <2> USE RingAssumption
  <2>1. CASE GetTxStatusBuffer
    <3>1. Slot(tail + 1) \in Slots
      BY SlotFacts DEF TypeOK
    <3>2. QED
      BY <2>1, <3>1 DEF GetTxStatusBuffer, TypeOK, Slots, Frames, Pc
  <2>2. CASE FillStatus
    BY <2>2 DEF FillStatus, TypeOK, Slots, Frames, Pc
  <2>3. CASE Janitor
    BY <2>3 DEF Janitor, TypeOK, Pc
  <2>4. CASE Splice
    <3>1. /\ SpliceLen \in 1 .. pending
          /\ head + SpliceLen <= CARL9170_TX_STATUS_NUM
      BY <2>4, SpliceLenBounds DEF Splice
    <3>2. [i \in 1 .. SpliceLen |-> cache[head + i - 1]] \in Seq(Frames)
      <4>1. \A i \in 1 .. SpliceLen : cache[head + i - 1] \in Frames
        BY <3>1 DEF TypeOK, Slots
      <4>2. QED
        BY <4>1, <3>1 DEF TypeOK
    <3>3. host' \in Seq(Frames)
      BY <2>4, <3>2 DEF Splice, TypeOK
    <3>4. head' \in Slots /\ pending' \in 0 .. CARL9170_TX_STATUS_NUM
      <4>1. SpliceLen \in 0 .. CARL9170_TX_STATUS_NUM
        BY <3>1 DEF TypeOK
      <4>2. Slot(head + SpliceLen) \in Slots
        BY <4>1, SlotFacts DEF TypeOK
      <4>3. QED
        BY <2>4, <3>1, <4>2 DEF Splice, TypeOK
    <3>5. QED
      BY <2>4, <3>3, <3>4 DEF Splice, TypeOK
  <2>5. CASE SpliceDone
    BY <2>5 DEF SpliceDone, TypeOK, Pc
  <2>6. CASE UNCHANGED vars
    BY <2>6 DEF vars, TypeOK
  <2>7. QED
    BY <2>1, <2>2, <2>3, <2>4, <2>5, <2>6 DEF Next
<1>3. QED
  BY <1>1, <1>2, PTL DEF Spec

(* One response carries exactly the next completions, in order: the slots  *)
(* it copies lie after head and do not pass the edge of the array.         *)
LEMMA SplicedInOrder ==
  ASSUME TypeOK, RingInv, pc # "fill", pending > 0,
         NEW i \in 1 .. SpliceLen
  PROVE  cache[head + i - 1] = Len(host) + i
<1>1. SpliceLen \in 1 .. pending /\ head + SpliceLen <= CARL9170_TX_STATUS_NUM
  BY SpliceLenBounds
<1>2. i - 1 \in 0 .. pending - 1 /\ head + (i - 1) \in 0 .. CARL9170_TX_STATUS_NUM - 1
  BY <1>1, RingAssumption DEF TypeOK, Slots
<1>3. Slot(head + (i - 1)) = head + (i - 1)
  <2>1. head + (i - 1) \in Slots /\ 0 \in 0 .. CARL9170_TX_STATUS_NUM
    BY <1>2, RingAssumption DEF Slots
  <2>2. QED
    BY <2>1, SlotFacts
<1>4. cache[Slot(head + (i - 1))] = Len(host) + (i - 1) + 1
  BY <1>2 DEF RingInv, Filled, TypeOK
<1>5. QED
  BY <1>2, <1>3, <1>4 DEF TypeOK, Slots

(* The indices agree with what is pending in every state.                  *)
LEMMA RingInductive == TypeOK /\ TypeOK' /\ RingInv /\ [Next]_vars => RingInv'
<1> SUFFICES ASSUME TypeOK, TypeOK', RingInv, [Next]_vars PROVE RingInv'
  OBVIOUS
<1> USE RingAssumption
<1> DEFINE N == CARL9170_TX_STATUS_NUM
<1>1. CASE GetTxStatusBuffer
  <2>1. pending <= N /\ N \in Nat \ {0} /\ head \in 0 .. N - 1
    BY DEF TypeOK, Slots
  <2>2. Filled' = Filled
    BY <1>1, Ranges DEF GetTxStatusBuffer, Filled
  <2>3. tail = Slot(head + pending)
    BY <1>1 DEF GetTxStatusBuffer, RingInv
  <2>4. CASE pending = N
    BY <1>1, <2>2, <2>3, <2>4 DEF GetTxStatusBuffer, RingInv
  <2>5. CASE pending # N
    <3>1. pending' = pending + 1 /\ head' = head /\ slot' = tail /\ tail' = Slot(tail + 1)
      BY <1>1, <2>5 DEF GetTxStatusBuffer
    <3>2. Slot(tail + 1) = Slot(head + (pending + 1))
      <4>1. pending \in 0 .. N /\ 1 \in 0 .. N /\ pending + 1 <= N
        BY <2>1, <2>5, Ranges
      <4>2. Slot(Slot(head + pending) + 1) = Slot(head + (pending + 1))
        BY <4>1, SlotFacts DEF TypeOK
      <4>3. QED
        BY <2>3, <4>2
    <3>3. slot' = Slot(head' + pending' - 1)
      BY <2>1, <2>3, <3>1 DEF TypeOK
    <3>4. QED
      BY <1>1, <2>2, <2>5, <3>1, <3>2, <3>3 DEF GetTxStatusBuffer, RingInv, TypeOK
  <2>6. QED
    BY <2>4, <2>5
<1>2. CASE FillStatus
  <2>1. /\ pc = "fill" /\ pc' = "idle" /\ pending' = pending /\ head' = head
        /\ host' = host /\ tail' = tail /\ completed' = completed + 1
        /\ cache' = [cache EXCEPT ![slot] = completed + 1]
    BY <1>2 DEF FillStatus
  <2>2. Filled = pending - 1 /\ Filled' = pending
    BY <2>1 DEF Filled, TypeOK
  <2>3. slot = Slot(head + (pending - 1)) /\ pending > 0
    BY <2>1 DEF RingInv, TypeOK, Slots
  <2>4. ASSUME NEW i \in 0 .. pending - 1
        PROVE  cache'[Slot(head + i)] = Len(host) + i + 1
    <3>2. CASE i = pending - 1
      BY <2>1, <2>2, <2>3, <3>2 DEF RingInv, TypeOK
    <3>3. CASE i < pending - 1
      <4>1. Slot(head + i) # slot
        <5>1. i \in 0 .. N - 1 /\ pending - 1 \in 0 .. N - 1 /\ i # pending - 1
          BY <3>3, Ranges
        <5>2. QED
          BY <2>3, <5>1, SlotFacts DEF TypeOK
      <4>2. cache[Slot(head + i)] = Len(host) + i + 1
        BY <2>2, <3>3 DEF RingInv, TypeOK
      <4>3. Slot(head + i) \in Slots
        BY Ranges, SlotFacts DEF TypeOK
      <4>4. QED
        BY <2>1, <4>1, <4>2, <4>3 DEF TypeOK
    <3>4. QED
      BY <3>2, <3>3 DEF TypeOK
  <2>5. QED
    BY <2>1, <2>2, <2>4 DEF RingInv, TypeOK
<1>3. CASE Janitor
  BY <1>3 DEF Janitor, RingInv, Filled
<1>4. CASE Splice
  <2> DEFINE k == SpliceLen
  <2>1. k \in 1 .. pending /\ head + k <= N
    BY <1>4, SpliceLenBounds DEF Splice
  <2>2. /\ pc \in {"full", "janitor"} /\ pc' = pc /\ pending' = pending - k
        /\ head' = Slot(head + k) /\ tail' = tail /\ slot' = slot
        /\ cache' = cache /\ completed' = completed
        /\ host' = host \o [i \in 1 .. k |-> cache[head + i - 1]]
    BY <1>4 DEF Splice
  <2>3. Len(host') = Len(host) + k
    <3>1. [i \in 1 .. k |-> cache[head + i - 1]] \in Seq(Frames)
      <4>1. \A i \in 1 .. k : cache[head + i - 1] \in Frames
        BY <2>1 DEF TypeOK, Slots
      <4>2. QED
        BY <4>1, <2>1 DEF TypeOK
    <3>2. Len([i \in 1 .. k |-> cache[head + i - 1]]) = k
      BY <2>1 DEF TypeOK
    <3> DEFINE chunk == [i \in 1 .. k |-> cache[head + i - 1]]
    <3>3. host' = host \o chunk /\ host \in Seq(Frames)
      BY <2>2 DEF TypeOK
    <3>4. chunk \in Seq(Frames) /\ Len(chunk) = k
      BY <3>1, <3>2
    <3> HIDE DEF chunk
    <3>5. Len(host \o chunk) = Len(host) + Len(chunk)
      BY <3>3, <3>4, Joined
    <3>6. QED
      BY <3>3, <3>4, <3>5
  <2>4. Filled = pending /\ Filled' = pending - k
    BY <2>1, <2>2 DEF Filled, TypeOK
  <2>5. ASSUME NEW j \in 0 .. pending - k
        PROVE  Slot(head' + j) = Slot(head + (k + j))
    <3>1. k \in 0 .. N /\ j \in 0 .. N /\ k + j <= N
      BY <2>1, Ranges
    <3>2. QED
      BY <2>2, <3>1, SlotFacts DEF TypeOK
  <2>6. ASSUME NEW j \in 0 .. pending - k - 1
        PROVE  cache'[Slot(head' + j)] = Len(host') + j + 1
    <3>1. k + j \in 0 .. pending - 1
      BY <2>1 DEF TypeOK
    <3>2. cache[Slot(head + (k + j))] = Len(host) + (k + j) + 1
      BY <2>4, <3>1 DEF RingInv
    <3>3. QED
      <4>1. j \in 0 .. pending - k
        BY <2>1, Ranges
      <4>2. Slot(head' + j) = Slot(head + (k + j))
        BY <2>5, <4>1
      <4>3. QED
        BY <2>1, <2>2, <2>3, <3>2, <4>2, Ranges
  <2>7. Slot(head' + pending') = Slot(head + pending)
    <3>1. pending - k \in 0 .. pending - k /\ k + (pending - k) = pending
      BY <2>1, Ranges
    <3>2. Slot(head' + (pending - k)) = Slot(head + (k + (pending - k)))
      BY <2>5, <3>1
    <3>3. QED
      BY <2>2, <3>1, <3>2
  <2>8. completed' = Len(host') + Filled'
    BY <2>1, <2>2, <2>3, <2>4 DEF RingInv, TypeOK
  <2>9. QED
    BY <2>2, <2>4, <2>6, <2>7, <2>8 DEF RingInv
<1>5. CASE SpliceDone
  <2>1. CASE pc = "full"
    <3>1. /\ pending = 0 /\ pending' = 1 /\ pc' = "fill" /\ head' = head
          /\ tail' = tail /\ slot' = slot /\ host' = host
          /\ completed' = completed /\ cache' = cache
      BY <1>5, <2>1 DEF SpliceDone
    <3>0. Slot(head) = head
      BY <3>1, Ranges, SlotFacts DEF TypeOK
    <3>2. slot = head /\ tail = Slot(head + 1)
      <4>1. slot = Slot(head + 0)
        BY <2>1, <3>1 DEF RingInv
      <4>2. slot = head
        BY <3>0, <4>1 DEF TypeOK, Slots
      <4>3. QED
        BY <2>1, <4>2 DEF RingInv
    <3>3. Filled = 0 /\ Filled' = 0
      BY <2>1, <3>1 DEF Filled
    <3>4. slot' = Slot(head' + pending' - 1)
      BY <3>0, <3>1, <3>2 DEF TypeOK, Slots
    <3>5. QED
      BY <2>1, <3>1, <3>2, <3>3, <3>4 DEF RingInv
  <2>2. CASE pc = "janitor"
    BY <1>5, <2>2 DEF SpliceDone, RingInv, Filled
  <2>3. QED
    BY <1>5, <2>1, <2>2 DEF SpliceDone
<1>6. CASE UNCHANGED vars
  BY <1>6 DEF vars, RingInv, Filled
<1>7. QED
  BY <1>1, <1>2, <1>3, <1>4, <1>5, <1>6 DEF Next

(* The ring invariant holds in every state.                                *)
THEOREM RingCorrect == Spec => []RingInv
<1>1. Init /\ TypeOK => RingInv
  BY RingAssumption, Ranges, SlotFacts DEF Slots, Init, RingInv, Filled, TypeOK
<1>2. QED
  BY <1>1, RingInductive, TypeCorrect, PTL DEF Spec

(* The host is told of every completion exactly once, in order.            *)
THEOREM ReportedInOrder == Spec => []HostInOrder
<1>1. Init => HostInOrder
  BY DEF Init, HostInOrder
<1>2. TypeOK /\ RingInv /\ HostInOrder /\ [Next]_vars => HostInOrder'
  <2> SUFFICES ASSUME TypeOK, RingInv, HostInOrder, [Next]_vars
               PROVE  HostInOrder'
    OBVIOUS
  <2>1. CASE Splice
    <3> DEFINE chunk == [i \in 1 .. SpliceLen |-> cache[head + i - 1]]
    <3>1. SpliceLen \in 1 .. pending /\ head + SpliceLen <= CARL9170_TX_STATUS_NUM
      BY <2>1, SpliceLenBounds DEF Splice
    <3>2. \A i \in 1 .. SpliceLen : chunk[i] = Len(host) + i
      BY <2>1, SplicedInOrder DEF Splice
    <3>3. chunk \in Seq(Nat) /\ Len(chunk) = SpliceLen
      BY <3>1, <3>2 DEF TypeOK
    <3>4. host \in Seq(Nat)
      BY RingAssumption DEF TypeOK, Frames
    <3>5. host' = host \o chunk
      BY <2>1 DEF Splice
    <3> HIDE DEF chunk
    <3>6. QED
      BY <3>1, <3>2, <3>3, <3>4, <3>5 DEF HostInOrder, TypeOK
  <2>2. CASE UNCHANGED host
    BY <2>2 DEF HostInOrder
  <2>3. QED
    BY <2>1, <2>2 DEF Next, vars, GetTxStatusBuffer, FillStatus, Janitor, SpliceDone
<1>3. QED
  BY <1>1, <1>2, TypeCorrect, RingCorrect, PTL DEF Spec
-----------------------------------------------------------------------------
(* What the response ring is between two steps: the descriptor is in one   *)
(* hand, as a case distinction rather than a count, ...                    *)
OneHand ==
  /\ available => ~building /\ upload = "none"
  /\ building => upload = "none"
  /\ available \/ building \/ upload # "none"

(* ... and until the ring overflows, what the host has read, what is in    *)
(* the response, and what is in the slots from head to tail are the        *)
(* messages in the order of their numbers.                                 *)
UnderWay == IF building \/ upload = "queued" THEN xfer ELSE <<>>
First == Len(int_host) + Len(UnderWay)
InRing ==
  /\ posted = First + int_pending
  /\ int_tail = Rsp!Slot(int_head + int_pending)
  /\ \A k \in 0 .. int_pending - 1 : int_buf[Rsp!Slot(int_head + k)].id = First + k + 1
OnTheWay ==
  /\ \A n \in 1 .. Len(UnderWay) : UnderWay[n].id = Len(int_host) + n
  /\ \A n \in 1 .. Len(int_host) : int_host[n] = n

IntInv ==
  /\ Rsp!TypeOK
  /\ OneHand
  /\ ~overflowed => InRing /\ OnTheWay

LEMMA IntSlotFacts ==
  ASSUME NEW h \in Rsp!Slots, NEW a \in 0 .. CARL9170_INT_RQ_CACHES
  PROVE  /\ Rsp!Slot(h) = h
         /\ Rsp!Slot(h + a) \in Rsp!Slots
         /\ \A b \in 0 .. CARL9170_INT_RQ_CACHES :
              a + b <= CARL9170_INT_RQ_CACHES =>
                Rsp!Slot(Rsp!Slot(h + a) + b) = Rsp!Slot(h + (a + b))
         /\ \A b \in 0 .. CARL9170_INT_RQ_CACHES - 1 :
              a < CARL9170_INT_RQ_CACHES /\ a # b => Rsp!Slot(h + a) # Rsp!Slot(h + b)
<1> DEFINE n == CARL9170_INT_RQ_CACHES
<1>1. n \in Nat \ {0} /\ h \in 0 .. n - 1
  BY IntAssumption DEF Rsp!Slots, Rsp!Sizes
<1>0. \A k : Rsp!Slot(k) = Wrapped(k, n)
  BY DEF Rsp!Slot, Rsp!Wrapped, Wrapped
<1> HIDE DEF n
<1>2. Wrapped(h, n) = h
  BY <1>1, WrappedIndex
<1>3. Wrapped(h + a, n) \in 0 .. n - 1
  BY <1>1, WrappedInRange DEF n
<1>4. ASSUME NEW b \in 0 .. n, a + b <= n
      PROVE  Wrapped(Wrapped(h + a, n) + b, n) = Wrapped(h + (a + b), n)
  BY <1>1, <1>4, WrappedSum DEF n
<1>5. ASSUME NEW b \in 0 .. n - 1, a < n, a # b
      PROVE  Wrapped(h + a, n) # Wrapped(h + b, n)
  <2>1. a \in 0 .. n - 1
    BY <1>1, <1>5 DEF n
  <2> QED
    BY <1>1, <1>5, <2>1, WrappedInjective
<1> QED
  BY <1>0, <1>2, <1>3, <1>4, <1>5 DEF Rsp!Slots, n

(* The numbers of the response ring, with its size as a number.            *)
LEMMA IntRanges ==
  ASSUME Rsp!TypeOK
  PROVE  /\ CARL9170_INT_RQ_CACHES \in Nat \ {0}
         /\ int_head \in 0 .. CARL9170_INT_RQ_CACHES - 1
         /\ int_pending \in 0 .. CARL9170_INT_RQ_CACHES
         /\ MaxMsgs \in Nat /\ posted \in Nat
         /\ Space \in Nat /\ rem \in Nat /\ Lens \subseteq Nat
         /\ Len(xfer) \in Nat /\ Len(int_host) \in Nat /\ Len(UnderWay) \in Nat
         /\ First \in Nat
<1>1. Len(xfer) \in Nat /\ Len(int_host) \in Nat
  BY LenProperties DEF Rsp!TypeOK
<1>2. Len(UnderWay) \in Nat
  BY <1>1, EmptySeq DEF UnderWay
<1>3. posted \in Nat /\ rem \in Nat
  BY IntAssumption DEF Rsp!TypeOK, Rsp!Sizes
<1> QED
  BY <1>1, <1>2, <1>3, IntAssumption DEF Rsp!TypeOK, Rsp!Sizes, Rsp!Slots, First

(* The ring is empty, and its descriptor available.                        *)
LEMMA InitInt == Rsp!Init => IntInv
<1> SUFFICES ASSUME Rsp!Init PROVE IntInv
  OBVIOUS
<1> USE IntAssumption DEF Rsp!Sizes
<1>1. 0 \in Rsp!Slots
  BY DEF Rsp!Slots
<1>2. Rsp!TypeOK
  <2>1. (CHOOSE l \in Lens : TRUE) \in Lens
    OBVIOUS
  <2>2. int_buf \in [Rsp!Slots -> Rsp!Message]
    BY <2>1 DEF Rsp!Init, Rsp!Message
  <2>3. xfer \in Seq(Rsp!Message) /\ int_host \in Seq(0 .. MaxMsgs)
    BY EmptySeq DEF Rsp!Init
  <2>4. int_head \in Rsp!Slots /\ int_tail \in Rsp!Slots
    BY <1>1 DEF Rsp!Init
  <2>5. /\ int_pending \in 0 .. CARL9170_INT_RQ_CACHES
        /\ rem \in 0 .. Space
        /\ posted \in 0 .. MaxMsgs
    BY DEF Rsp!Init
  <2>6. /\ available \in BOOLEAN /\ inEnabled \in BOOLEAN /\ building \in BOOLEAN
        /\ upload \in {"none", "queued", "done"} /\ overflowed \in BOOLEAN
    BY DEF Rsp!Init
  <2> QED
    BY <2>2, <2>3, <2>4, <2>5, <2>6 DEF Rsp!TypeOK
<1>3. Len(int_host) = 0 /\ Len(UnderWay) = 0
  BY EmptySeq DEF Rsp!Init, UnderWay
<1>4. int_tail = Rsp!Slot(int_head + int_pending)
  <2>1. Rsp!Slot(int_head) = int_head
    BY <1>1, IntSlotFacts DEF Rsp!Init
  <2> QED
    BY <2>1 DEF Rsp!Init
<1>5. InRing /\ OnTheWay
  BY <1>3, <1>4 DEF Rsp!Init, InRing, OnTheWay, First
<1> QED
  BY <1>2, <1>5 DEF IntInv, OneHand, Rsp!Init

(* get_int_buf: the message gets the slot at the tail; if the ring was     *)
(* not full, this is the slot behind the pending ones.                     *)
LEMMA PostStep ==
  ASSUME IntInv, NEW len \in Lens, Rsp!Post(len)
  PROVE  IntInv'
<1> DEFINE N == CARL9170_INT_RQ_CACHES
<1>1. /\ int_tail \in Rsp!Slots /\ int_head \in Rsp!Slots
      /\ int_buf \in [Rsp!Slots -> Rsp!Message]
  BY DEF IntInv, Rsp!TypeOK
<1>2. /\ posted' = posted + 1 /\ int_head' = int_head
      /\ int_buf' = [int_buf EXCEPT ![int_tail] = [id |-> posted + 1, len |-> len]]
      /\ int_tail' = Rsp!Slot(int_tail + 1)
      /\ UNCHANGED <<available, building, rem, xfer, upload, int_host>>
      /\ inEnabled' = TRUE
      /\ IF int_pending # N
         THEN int_pending' = int_pending + 1 /\ overflowed' = overflowed
         ELSE overflowed' = TRUE /\ int_pending' = int_pending
  BY DEF Rsp!Post, Rsp!GetIntBuf, Rsp!desc
<1>3. posted < MaxMsgs
  BY DEF Rsp!Post
<1>r. /\ N \in Nat \ {0} /\ int_pending \in 0 .. N /\ posted \in Nat /\ MaxMsgs \in Nat
      /\ First \in Nat /\ Rsp!TypeOK
  BY IntRanges DEF IntInv
<1>4. Rsp!TypeOK'
  <2>1. Rsp!Slot(int_tail + 1) \in Rsp!Slots
    <3>1. 1 \in 0 .. N
      BY <1>r
    <3> QED
      BY <1>1, <3>1, IntSlotFacts
  <2>2. [id |-> posted + 1, len |-> len] \in Rsp!Message
    BY <1>3, <1>r DEF Rsp!Message
  <2>3. int_buf' \in [Rsp!Slots -> Rsp!Message]
    BY <1>1, <1>2, <2>2
  <2>4. posted' \in 0 .. MaxMsgs /\ int_pending' \in 0 .. N
    BY <1>2, <1>3, <1>r
  <2>5. overflowed' \in BOOLEAN
    BY <1>2, <1>r DEF Rsp!TypeOK
  <2> QED
    BY <1>2, <1>r, <2>1, <2>3, <2>4, <2>5 DEF Rsp!TypeOK
<1>5. OneHand'
  BY <1>2 DEF IntInv, OneHand
<1>6. UnderWay' = UnderWay /\ First' = First
  BY <1>2 DEF UnderWay, First
<1>7. ASSUME ~overflowed' PROVE InRing' /\ OnTheWay'
  <2>1. int_pending # N /\ int_pending' = int_pending + 1 /\ InRing /\ OnTheWay
    BY <1>2, <1>7 DEF IntInv
  <2>2. int_pending \in 0 .. N - 1 /\ 1 \in 0 .. N
    BY <1>r, <2>1
  <2>3. int_tail = Rsp!Slot(int_head + int_pending)
    BY <2>1 DEF InRing
  <2>4. int_tail' = Rsp!Slot(int_head' + int_pending')
    <3>1. Rsp!Slot(Rsp!Slot(int_head + int_pending) + 1) = Rsp!Slot(int_head + (int_pending + 1))
      BY <1>1, <1>r, <2>2, IntSlotFacts
    <3> QED
      BY <1>2, <2>1, <2>3, <3>1
  <2>5. ASSUME NEW k \in 0 .. int_pending' - 1
        PROVE  int_buf'[Rsp!Slot(int_head' + k)].id = First' + k + 1
    <3>0. k \in 0 .. N - 1 /\ k \in 0 .. N /\ Rsp!Slot(int_head + k) \in Rsp!Slots
      <4>1. k \in 0 .. N - 1 /\ k \in 0 .. N
        BY <1>r, <2>1, <2>2
      <4> QED
        BY <1>1, <4>1, IntSlotFacts
    <3>1. CASE k = int_pending
      <4>1. int_buf'[Rsp!Slot(int_head' + k)].id = posted + 1
        BY <1>1, <1>2, <2>3, <3>1
      <4> QED
        BY <1>6, <1>r, <2>1, <3>1, <4>1 DEF InRing
    <3>2. CASE k # int_pending
      <4>1. k \in 0 .. int_pending - 1
        BY <1>r, <2>1, <3>2
      <4>2. Rsp!Slot(int_head + k) # int_tail
        BY <1>1, <1>r, <2>2, <2>3, <3>0, <3>2, IntSlotFacts
      <4>3. int_buf[Rsp!Slot(int_head + k)].id = First + k + 1
        BY <2>1, <4>1 DEF InRing
      <4> QED
        BY <1>1, <1>2, <1>6, <3>0, <4>2, <4>3
    <3> QED
      BY <3>1, <3>2
  <2>6. posted' = First' + int_pending'
    BY <1>2, <1>6, <1>r, <2>1 DEF InRing
  <2>7. OnTheWay'
    BY <1>2, <1>6, <2>1 DEF OnTheWay
  <2> QED
    BY <2>4, <2>5, <2>6, <2>7 DEF InRing
<1> QED
  BY <1>4, <1>5, <1>7 DEF IntInv

(* usb_status_in begins: the descriptor is empty.                          *)
LEMMA StatusInStep ==
  ASSUME IntInv, Rsp!StatusIn
  PROVE  IntInv'
<1>1. /\ available /\ ~available' /\ building' /\ xfer' = <<>> /\ rem' = Space
      /\ inEnabled' = FALSE /\ available' = FALSE /\ building' = TRUE /\ ~building
      /\ UNCHANGED <<int_buf, int_head, int_tail, int_pending, upload, posted, overflowed,
                     int_host>>
  BY DEF Rsp!StatusIn, Rsp!ring
<1>2. Rsp!TypeOK'
  <2>1. rem' \in 0 .. Space
    BY <1>1, IntAssumption DEF Rsp!Sizes
  <2>2. xfer' \in Seq(Rsp!Message)
    BY <1>1, EmptySeq
  <2> QED
    BY <1>1, <2>1, <2>2 DEF IntInv, Rsp!TypeOK
<1>3. OneHand'
  BY <1>1 DEF IntInv, OneHand
<1>4. UnderWay = <<>> /\ UnderWay' = <<>>
  BY <1>1 DEF IntInv, OneHand, UnderWay
<1>5. ~overflowed' => InRing' /\ OnTheWay'
  BY <1>1, <1>4 DEF IntInv, InRing, OnTheWay, First
<1> QED
  BY <1>2, <1>3, <1>5 DEF IntInv

(* dequeue_int_buf: the message at the head goes behind those in the       *)
(* response, whose next number it has.                                     *)
LEMMA DequeueStep ==
  ASSUME IntInv, Rsp!Dequeue
  PROVE  IntInv'
<1> DEFINE N == CARL9170_INT_RQ_CACHES
           m == int_buf[int_head]
<1>1. /\ building /\ int_pending > 0 /\ m.len + 8 <= rem
      /\ xfer' = Append(xfer, m) /\ rem' = rem - (m.len + 4)
      /\ int_head' = Rsp!Slot(int_head + 1) /\ int_pending' = int_pending - 1
      /\ UNCHANGED <<int_buf, int_tail, available, building, upload, inEnabled,
                     posted, overflowed, int_host>>
  BY DEF Rsp!Dequeue, Rsp!Fits
<1>2. /\ int_head \in Rsp!Slots /\ int_buf \in [Rsp!Slots -> Rsp!Message]
      /\ xfer \in Seq(Rsp!Message) /\ rem \in 0 .. Space /\ m \in Rsp!Message
  BY DEF IntInv, Rsp!TypeOK
<1>r. /\ N \in Nat \ {0} /\ int_pending \in 0 .. N /\ posted \in Nat
      /\ Space \in Nat /\ rem \in Nat /\ First \in Nat /\ Len(int_host) \in Nat
      /\ Len(xfer) \in Nat /\ Lens \subseteq Nat
  BY IntRanges DEF IntInv
<1>3. 1 \in 0 .. N
  BY <1>r
<1>4. Rsp!TypeOK'
  <2>1. int_head' \in Rsp!Slots
    BY <1>1, <1>2, <1>3, IntSlotFacts
  <2>2. xfer' \in Seq(Rsp!Message)
    BY <1>1, <1>2, Pushed
  <2>3. rem' \in 0 .. Space
    <3>1. m.len \in Nat
      BY <1>2, <1>r DEF Rsp!Message
    <3> HIDE DEF m
    <3> QED
      BY <1>1, <1>2, <1>r, <3>1
  <2>4. int_pending' \in 0 .. N
    BY <1>1, <1>r
  <2> QED
    BY <1>1, <2>1, <2>2, <2>3, <2>4 DEF IntInv, Rsp!TypeOK
<1>5. OneHand'
  BY <1>1 DEF IntInv, OneHand
<1>6. UnderWay = xfer /\ UnderWay' = Append(xfer, m)
  BY <1>1 DEF UnderWay
<1>7. /\ Len(Append(xfer, m)) = Len(xfer) + 1
      /\ \A n \in 1 .. Len(xfer) : Append(xfer, m)[n] = xfer[n]
      /\ Append(xfer, m)[Len(xfer) + 1] = m
  BY <1>2, Pushed
<1>8. First = Len(int_host) + Len(xfer) /\ First' = First + 1
  BY <1>1, <1>6, <1>7, <1>r DEF First
<1>9. ASSUME ~overflowed' PROVE InRing' /\ OnTheWay'
  <2>1. InRing /\ OnTheWay
    BY <1>1, <1>9 DEF IntInv
  <2>2. m.id = First + 1
    <3>1. Rsp!Slot(int_head) = int_head /\ int_head + 0 = int_head
      BY <1>2, <1>3, IntSlotFacts, IntRanges DEF IntInv
    <3>2. int_buf[Rsp!Slot(int_head + 0)].id = First + 0 + 1
      BY <1>1, <1>r, <2>1 DEF InRing
    <3> QED
      BY <1>r, <3>1, <3>2
  <2>3. ASSUME NEW k \in 0 .. int_pending - 1
        PROVE  Rsp!Slot(int_head' + k) = Rsp!Slot(int_head + (k + 1))
    <3>1. k \in 0 .. N /\ 1 + k <= N /\ 1 + k = k + 1
      BY <1>r
    <3>2. Rsp!Slot(Rsp!Slot(int_head + 1) + k) = Rsp!Slot(int_head + (1 + k))
      BY <1>2, <1>3, <3>1, IntSlotFacts
    <3> QED
      BY <1>1, <3>1, <3>2
  <2>4. int_tail' = Rsp!Slot(int_head' + int_pending')
    <3>1. int_pending - 1 \in 0 .. int_pending - 1 /\ (int_pending - 1) + 1 = int_pending
      BY <1>1, <1>r
    <3>2. Rsp!Slot(int_head' + (int_pending - 1)) = Rsp!Slot(int_head + int_pending)
      BY <2>3, <3>1
    <3> QED
      BY <1>1, <2>1, <3>2 DEF InRing
  <2>5. ASSUME NEW k \in 0 .. int_pending' - 1
        PROVE  int_buf'[Rsp!Slot(int_head' + k)].id = First' + k + 1
    <3>1. k \in 0 .. int_pending - 1 /\ k + 1 \in 0 .. int_pending - 1
      BY <1>1, <1>r
    <3>2. int_buf[Rsp!Slot(int_head + (k + 1))].id = First + (k + 1) + 1
      BY <2>1, <3>1 DEF InRing
    <3>3. Rsp!Slot(int_head' + k) = Rsp!Slot(int_head + (k + 1))
      BY <2>3, <3>1
    <3> QED
      BY <1>1, <1>8, <1>r, <3>2, <3>3
  <2>6. posted' = First' + int_pending'
    BY <1>1, <1>8, <1>r, <2>1 DEF InRing
  <2>7. ASSUME NEW n \in 1 .. Len(UnderWay') PROVE UnderWay'[n].id = Len(int_host') + n
    <3>1. CASE n \in 1 .. Len(xfer)
      BY <1>1, <1>6, <1>7, <2>1, <3>1 DEF OnTheWay
    <3>2. CASE n = Len(xfer) + 1
      BY <1>1, <1>6, <1>7, <1>8, <1>r, <2>2, <3>2
    <3> QED
      BY <1>6, <1>7, <1>r, <3>1, <3>2
  <2>8. \A n \in 1 .. Len(int_host') : int_host'[n] = n
    BY <1>1, <2>1 DEF OnTheWay
  <2> QED
    BY <2>4, <2>5, <2>6, <2>7, <2>8 DEF InRing, OnTheWay
<1> QED
  BY <1>4, <1>5, <1>9 DEF IntInv

(* The end of usb_status_in: what was packed is queued, if it is anything. *)
LEMMA StatusInDoneStep ==
  ASSUME IntInv, Rsp!StatusInDone
  PROVE  IntInv'
<1>1. /\ building /\ ~building' /\ building' = FALSE
      /\ IF xfer = <<>>
         THEN available' = TRUE /\ upload' = upload
         ELSE upload' = "queued" /\ available' = available
      /\ UNCHANGED <<int_buf, int_head, int_tail, int_pending, rem, xfer, inEnabled,
                     posted, overflowed, int_host>>
  BY DEF Rsp!StatusInDone, Rsp!ring
<1>2. Rsp!TypeOK'
  BY <1>1 DEF IntInv, Rsp!TypeOK
<1>3. OneHand'
  BY <1>1 DEF IntInv, OneHand
<1>4. UnderWay' = UnderWay
  BY <1>1 DEF IntInv, OneHand, UnderWay
<1>5. ~overflowed' => InRing' /\ OnTheWay'
  BY <1>1, <1>4 DEF IntInv, InRing, OnTheWay, First
<1> QED
  BY <1>2, <1>3, <1>5 DEF IntInv

(* The host has read the response: its messages follow those read before.  *)
LEMMA HostReadStep ==
  ASSUME IntInv, Rsp!HostRead
  PROVE  IntInv'
<1> DEFINE ids == [n \in DOMAIN xfer |-> xfer[n].id]
<1>1. /\ upload = "queued" /\ upload' = "done" /\ int_host' = int_host \o ids
      /\ UNCHANGED <<int_buf, int_head, int_tail, int_pending, available, building, rem,
                     xfer, inEnabled, posted, overflowed>>
  BY DEF Rsp!HostRead, Rsp!ring
<1>2. /\ xfer \in Seq(Rsp!Message) /\ int_host \in Seq(0 .. MaxMsgs)
      /\ Len(xfer) \in Nat /\ DOMAIN xfer = 1 .. Len(xfer)
  BY LenProperties DEF IntInv, Rsp!TypeOK
<1>3. ids \in Seq(0 .. MaxMsgs) /\ Len(ids) = Len(xfer)
  <2>1. \A n \in 1 .. Len(xfer) : xfer[n] \in Rsp!Message
    BY <1>2, ElementOfSeq
  <2>2. \A n \in 1 .. Len(xfer) : xfer[n].id \in 0 .. MaxMsgs
    BY <2>1 DEF Rsp!Message
  <2>3. ids \in [1 .. Len(xfer) -> 0 .. MaxMsgs]
    BY <1>2, <2>2
  <2>4. ids \in Seq(0 .. MaxMsgs)
    BY <1>2, <2>3
  <2> QED
    BY <1>2, <2>3, <2>4, LenProperties
<1>4. \A n \in 1 .. Len(xfer) : ids[n] = xfer[n].id
  BY <1>2
<1> HIDE DEF ids
<1>5. /\ int_host \o ids \in Seq(0 .. MaxMsgs) /\ Len(int_host) \in Nat
      /\ Len(int_host \o ids) = Len(int_host) + Len(ids)
      /\ \A n \in 1 .. Len(int_host) : (int_host \o ids)[n] = int_host[n]
      /\ \A n \in Len(int_host) + 1 .. Len(int_host) + Len(ids) :
           (int_host \o ids)[n] = ids[n - Len(int_host)]
  <2>1. int_host \in Seq(0 .. MaxMsgs) /\ ids \in Seq(0 .. MaxMsgs)
    BY <1>2, <1>3
  <2> QED
    BY <2>1, Joined
<1>6. Rsp!TypeOK'
  BY <1>1, <1>5 DEF IntInv, Rsp!TypeOK
<1>7. OneHand'
  BY <1>1 DEF IntInv, OneHand
<1>8. UnderWay = xfer /\ UnderWay' = <<>> /\ Len(UnderWay') = 0 /\ First' = First
  <2>1. UnderWay = xfer /\ UnderWay' = <<>> /\ Len(UnderWay') = 0
    BY <1>1, EmptySeq DEF UnderWay, IntInv, OneHand
  <2> QED
    BY <1>1, <1>2, <1>3, <1>5, <2>1 DEF First
<1>9. ASSUME ~overflowed' PROVE InRing' /\ OnTheWay'
  <2>1. InRing /\ OnTheWay
    BY <1>1, <1>9 DEF IntInv
  <2>2. InRing'
    BY <1>1, <1>8, <2>1 DEF InRing
  <2>3. ASSUME NEW n \in 1 .. Len(int_host') PROVE int_host'[n] = n
    <3>1. CASE n \in 1 .. Len(int_host)
      BY <1>1, <1>5, <2>1, <3>1 DEF OnTheWay
    <3>2. CASE n \in Len(int_host) + 1 .. Len(int_host) + Len(ids)
      <4>1. n - Len(int_host) \in 1 .. Len(xfer)
        BY <1>2, <1>3, <1>5, <3>2
      <4>2. int_host'[n] = xfer[n - Len(int_host)].id
        BY <1>1, <1>4, <1>5, <3>2, <4>1
      <4>3. xfer[n - Len(int_host)].id = Len(int_host) + (n - Len(int_host))
        BY <1>8, <2>1, <4>1 DEF OnTheWay
      <4> QED
        BY <1>5, <4>2, <4>3
    <3> QED
      BY <1>1, <1>2, <1>3, <1>5, <3>1, <3>2
  <2> QED
    BY <1>8, <2>2, <2>3 DEF OnTheWay
<1> QED
  BY <1>6, <1>7, <1>9 DEF IntInv

(* The steps that change neither the ring nor what is under way.           *)
LEMMA OtherIntStep ==
  ASSUME IntInv, Rsp!HandleUsb \/ Rsp!HandleUpload \/ UNCHANGED intVars
  PROVE  IntInv'
<1>1. UNCHANGED <<int_buf, int_head, int_tail, int_pending, building, rem, xfer, posted,
                  overflowed, int_host>>
  BY DEF Rsp!HandleUsb, Rsp!HandleUpload, intVars, Rsp!ring, Rsp!desc
<1>2. UNCHANGED <<available, upload>>
        \/ (~building /\ upload = "done" /\ upload' = "none" /\ available')
  BY DEF Rsp!HandleUsb, Rsp!HandleUpload, intVars, Rsp!desc
<1>3. Rsp!TypeOK'
  BY <1>1 DEF IntInv, Rsp!TypeOK, Rsp!HandleUsb, Rsp!HandleUpload, intVars, Rsp!desc
<1>4. OneHand'
  BY <1>1, <1>2 DEF IntInv, OneHand
<1>5. UnderWay' = UnderWay
  BY <1>1, <1>2 DEF UnderWay
<1>6. ~overflowed' => InRing' /\ OnTheWay'
  BY <1>1, <1>5 DEF IntInv, InRing, OnTheWay, First
<1> QED
  BY <1>3, <1>4, <1>6 DEF IntInv

(* Every step of the response ring.                                        *)
LEMMA StepInt == IntInv /\ [Rsp!Next]_intVars => IntInv'
<1> SUFFICES ASSUME IntInv, [Rsp!Next]_intVars PROVE IntInv'
  OBVIOUS
<1> QED
  BY PostStep, StatusInStep, DequeueStep, StatusInDoneStep, HostReadStep, OtherIntStep
     DEF Rsp!Next
-----------------------------------------------------------------------------
(* The response ring's invariant, wherever the ring is one of the parts    *)
(* that may move.                                                          *)
LEMMA IntCorrect == AllSpec => []IntInv
<1>1. AllInit => IntInv
  BY InitInt DEF AllInit
<1>2. IntInv /\ [AllNext]_<<part, vars, intVars, rxVars>> => IntInv'
  <2> SUFFICES ASSUME IntInv, [AllNext]_<<part, vars, intVars, rxVars>> PROVE IntInv'
    OBVIOUS
  <2>1. [Rsp!Next]_intVars
    BY DEF AllNext, StatusStep, IntStep, RxStep
  <2> QED
    BY <2>1, StepInt
<1> QED
  BY <1>1, <1>2, PTL DEF AllSpec

(* No slot outside the ring is read or written, and the space left in a    *)
(* response never goes below zero, whatever messages come                  *)
(* (get_int_buf, dequeue_int_buf, usb_status_in).                          *)
THEOREM IntTypeCorrect == AllSpec => []Rsp!TypeOK
<1>1. IntInv => Rsp!TypeOK
  BY DEF IntInv
<1> QED
  BY <1>1, IntCorrect, PTL

(* As long as the ring never ran full, the host reads the messages in the  *)
(* order in which they were posted, for every size of ring and response    *)
(* (get_int_buf, dequeue_int_buf, usb_status_in).                          *)
THEOREM MessagesInOrder == AllSpec => []InOrderUntilOverflow
<1>1. IntInv => InOrderUntilOverflow
  BY DEF IntInv, OnTheWay, InOrderUntilOverflow, Rsp!InOrderUntilOverflow
<1> QED
  BY <1>1, IntCorrect, PTL

(* usb_status_in never writes into the response the hardware is sending    *)
(* (usb/main.c:134,179, hostif.c:95-97).                                   *)
THEOREM ResponseInOneHand == AllSpec => []DescriptorExclusive
<1>1. ASSUME IntInv PROVE DescriptorExclusive
  <2> DEFINE hands == {x \in Rsp!Hands : \/ x = "available" /\ available
                                         \/ x = "building" /\ building
                                         \/ x = "uploading" /\ upload # "none"}
  <2> USE DEF Rsp!Hands
  <2>1. CASE available
    <3>1. hands = {"available"}
      BY <1>1, <2>1 DEF IntInv, OneHand
    <3> QED
      BY <3>1 DEF DescriptorExclusive, Rsp!DescriptorExclusive
  <2>2. CASE building
    <3>1. hands = {"building"}
      BY <1>1, <2>2 DEF IntInv, OneHand
    <3> QED
      BY <3>1 DEF DescriptorExclusive, Rsp!DescriptorExclusive
  <2>3. CASE ~available /\ ~building
    <3>1. hands = {"uploading"}
      BY <1>1, <2>3 DEF IntInv, OneHand
    <3> QED
      BY <3>1 DEF DescriptorExclusive, Rsp!DescriptorExclusive
  <2> QED
    BY <2>1, <2>2, <2>3
<1> QED
  BY <1>1, IntCorrect, PTL
=============================================================================
