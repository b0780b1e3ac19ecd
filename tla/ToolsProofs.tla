----------------------------- MODULE ToolsProofs -----------------------------
(***************************************************************************)
(* The buffer of struct frame, for every size of the buffer, of the blocks *)
(* and of the counters: the data stay inside, and act as a deque.  Carlu's *)
(* accounts of frames, for every set of frames.  And of the configuration  *)
(* tool the files it leaves for the build and its search for recursive     *)
(* dependencies, for every set of symbols.                                 *)
(***************************************************************************)
EXTENDS MCTools, QueueLemmas, FiniteSetTheorems, TLAPS

TypeInv ==
  /\ mem \in [0 .. AtEnd -> Bytes]
  /\ data \in Int /\ tail \in Int /\ len \in Int
  /\ total_len \in 0 .. Word - 1

BufInv ==
  /\ TypeInv /\ KeptInBuffer
  /\ tail <= Alloced \/ data = tail

LEMMA Params ==
  /\ Bytes # {} /\ Alloced \in Nat /\ MaxSize \in Nat \ {0}
  /\ Word \in Nat /\ Word > Alloced + MaxSize
BY FrameAssumption

(* The counters are below Word, and exact while they do not wrap.          *)
LEMMA PlusFacts ==
  ASSUME NEW n \in Int, NEW size \in Int
  PROVE  Plus(n, size) \in 0 .. Word - 1 /\ (n + size \in 0 .. Word - 1 => Plus(n, size) = n + size)
<1>1. Word \in Nat \ {0}
  BY Params
<1>2. n + size \in Int
  OBVIOUS
<1>3. QED
  BY <1>1, <1>2 DEF Plus

LEMMA MinusFacts ==
  ASSUME NEW n \in Int, NEW size \in Int
  PROVE  Minus(n, size) \in 0 .. Word - 1 /\ (n - size \in 0 .. Word - 1 => Minus(n, size) = n - size)
<1>1. Word \in Nat \ {0}
  BY Params
<1>2. QED
  BY <1>1 DEF Minus

LEMMA BlockFacts ==
  ASSUME NEW b \in Blocks
  PROVE  b \in Seq(Bytes) /\ Len(b) \in 1 .. MaxSize /\ b \in [1 .. Len(b) -> Bytes]
<1>1. PICK n \in Sizes : b \in [1 .. n -> Bytes]
  BY DEF Blocks
<1>2. n \in Nat \ {0} /\ n \in 1 .. MaxSize
  BY <1>1, Params DEF Sizes
<1>3. QED
  BY <1>1, <1>2

LEMMA WriteFacts ==
  ASSUME TypeInv, NEW b \in Blocks, NEW at \in Int, Write(b, at)
  PROVE  /\ mem' \in [0 .. AtEnd -> Bytes]
         /\ \A i \in 0 .. AtEnd :
              mem'[i] = IF i \in at .. at + Len(b) - 1 THEN b[i - at + 1] ELSE mem[i]
<1>1. Len(b) \in Nat /\ b \in [1 .. Len(b) -> Bytes]
  BY BlockFacts, Params
<1>2. DOMAIN mem = 0 .. AtEnd /\ AtEnd \in Int
  BY Params DEF TypeInv, AtEnd
<1>3. ASSUME NEW i \in 0 .. AtEnd
      PROVE  (IF i \in at .. at + Len(b) - 1 THEN b[i - at + 1] ELSE mem[i]) \in Bytes
  <2>1. CASE i \in at .. at + Len(b) - 1
    <3>1. i - at + 1 \in 1 .. Len(b)
      BY <1>1, <1>2, <2>1
    <3>2. QED
      BY <1>1, <2>1, <3>1
  <2>2. CASE i \notin at .. at + Len(b) - 1
    BY <2>2 DEF TypeInv
  <2>3. QED
    BY <2>1, <2>2
<1>4. QED
  BY <1>2, <1>3 DEF Write

LEMMA InitBuf == Init => BufInv
<1>1. Fresh \in Bytes
  BY Params DEF Fresh
<1>2. QED
  BY <1>1, Params DEF Init, BufInv, TypeInv, KeptInBuffer, Shape

LEMMA PutBuf ==
  ASSUME BufInv, NEW b \in Blocks, Put(b)
  PROVE  BufInv'
<1>1. CASE NoRoom(Len(b))
  BY <1>1 DEF Put, Unless, Abort, frame, BufInv, TypeInv, KeptInBuffer, Shape
<1>2. CASE ~NoRoom(Len(b))
  <2>1. Len(b) \in 1 .. MaxSize /\ Len(b) \in Int
    BY BlockFacts, Params
  <2>2. /\ len' = Plus(len, Len(b)) /\ total_len' = Plus(total_len, Len(b))
        /\ tail' = tail + Len(b) /\ data' = data /\ Write(b, tail)
    BY <1>2 DEF Put, Unless
  <2>3. tail + Len(b) <= Alloced
    BY <1>2, <2>1, Params DEF NoRoom, BufInv, TypeInv
  <2>4. len + Len(b) \in 0 .. Word - 1
    BY <2>1, <2>3, Params DEF BufInv, KeptInBuffer, Shape, TypeInv
  <2>5. len' = len + Len(b) /\ total_len' \in 0 .. Word - 1
    BY <2>1, <2>2, <2>4, PlusFacts DEF BufInv, TypeInv
  <2>6. mem' \in [0 .. AtEnd -> Bytes]
    BY <2>2, WriteFacts DEF BufInv, TypeInv
  <2>7. QED
    BY <2>1, <2>2, <2>3, <2>5, <2>6, Params DEF BufInv, KeptInBuffer, Shape, TypeInv, AtEnd
<1>3. QED
  BY <1>1, <1>2

LEMMA PushBuf ==
  ASSUME BufInv, NEW b \in Blocks, Push(b)
  PROVE  BufInv'
<1>1. CASE data - Len(b) < 0
  BY <1>1 DEF Push, Unless, Abort, frame, BufInv, TypeInv, KeptInBuffer, Shape
<1>2. CASE ~(data - Len(b) < 0)
  <2>1. Len(b) \in 1 .. MaxSize /\ Len(b) \in Int
    BY BlockFacts, Params
  <2>2. /\ len' = Plus(len, Len(b)) /\ total_len' = total_len
        /\ data' = data - Len(b) /\ tail' = tail /\ Write(b, data - Len(b))
    BY <1>2 DEF Push, Unless
  <2>3. len + Len(b) \in 0 .. Word - 1
    BY <1>2, <2>1, Params DEF BufInv, KeptInBuffer, Shape, TypeInv
  <2>4. len' = len + Len(b)
    BY <2>1, <2>2, <2>3, PlusFacts DEF BufInv, TypeInv
  <2>5. data - Len(b) \in Int
    BY <2>1 DEF BufInv, TypeInv
  <2>6. mem' \in [0 .. AtEnd -> Bytes]
    BY <2>2, <2>5, WriteFacts DEF BufInv, TypeInv
  <2>7. QED
    BY <1>2, <2>1, <2>2, <2>4, <2>5, <2>6, Params DEF BufInv, KeptInBuffer, Shape, TypeInv, AtEnd
<1>3. QED
  BY <1>1, <1>2

LEMMA PullBuf ==
  ASSUME BufInv, NEW size \in Sizes, Pull(size)
  PROVE  BufInv'
<1>1. CASE len < size
  BY <1>1 DEF Pull, Unless, Abort, frame, BufInv, TypeInv, KeptInBuffer, Shape
<1>2. CASE ~(len < size)
  <2>1. size \in 1 .. MaxSize /\ size \in Int
    BY Params DEF Sizes
  <2>2. /\ len' = Minus(len, size) /\ total_len' = Minus(total_len, size)
        /\ data' = data + size /\ tail' = tail /\ mem' = mem
    BY <1>2 DEF Pull, Pulled, Unless
  <2>3. len - size \in 0 .. Word - 1
    BY <1>2, <2>1, Params DEF BufInv, KeptInBuffer, Shape, TypeInv
  <2>4. len' = len - size /\ total_len' \in 0 .. Word - 1
    BY <2>1, <2>2, <2>3, MinusFacts DEF BufInv, TypeInv
  <2>5. QED
    BY <1>2, <2>1, <2>2, <2>4, Params DEF BufInv, KeptInBuffer, Shape, TypeInv, AtEnd
<1>3. QED
  BY <1>1, <1>2

LEMMA ReserveBuf ==
  ASSUME BufInv, NEW size \in Sizes, Reserve(size)
  PROVE  BufInv'
<1> DEFINE wrong == Plus(total_len, size) > Alloced \/ len # 0
<1>1. CASE wrong
  BY <1>1 DEF Reserve, Unless, Abort, frame, BufInv, TypeInv, KeptInBuffer, Shape
<1>2. CASE ~wrong
  <2>1. size \in 1 .. MaxSize /\ size \in Int
    BY Params DEF Sizes
  <2>2. /\ len' = len /\ total_len' = Plus(total_len, size) /\ mem' = mem
        /\ data' = data + size /\ tail' = tail + size
    BY <1>2 DEF Reserve, Unless
  <2>3. total_len \in Int /\ tail \in Int /\ 0 <= tail /\ tail <= Alloced /\ data = tail /\ len = 0
    BY <1>2 DEF Reserve, Unless, BufInv, KeptInBuffer, Shape, TypeInv
  <2>4. Plus(total_len, size) \in 0 .. Word - 1
    BY <2>1, <2>3, PlusFacts
  <2>5. tail + size <= Alloced \/ late'
    <3>1. CASE total_len # tail
      <4>1. late' = TRUE
        BY <1>2, <3>1, Zenon DEF Reserve, Unless
      <4>2. QED
        BY <4>1
    <3>2. CASE total_len = tail
      <4>1. tail + size \in 0 .. Word - 1
        BY <2>1, <2>3, Params
      <4>2. Plus(total_len, size) = tail + size
        BY <2>1, <2>3, <3>2, <4>1, PlusFacts
      <4>3. tail + size <= Alloced
        BY <1>2, <2>1, <2>3, <4>2, Params
      <4>4. QED
        BY <4>3
    <3>3. QED
      BY <3>1, <3>2
  <2>6. QED
    BY <2>1, <2>2, <2>3, <2>4, <2>5, Params DEF BufInv, KeptInBuffer, Shape, TypeInv, AtEnd
<1>3. QED
  BY <1>1, <1>2

LEMMA TrimBuf ==
  ASSUME BufInv, Trim
  PROVE  BufInv'
BY Params DEF Trim, BufInv, KeptInBuffer, Shape, TypeInv, AtEnd

LEMMA StepBuf == BufInv /\ [Next]_vars => BufInv'
<1> SUFFICES ASSUME BufInv, [Next]_vars PROVE BufInv'
  OBVIOUS
<1>1. CASE \E b \in Blocks : Put(b)
  BY <1>1, PutBuf
<1>2. CASE \E b \in Blocks : Push(b)
  BY <1>2, PushBuf
<1>3. CASE \E size \in Sizes : Pull(size)
  BY <1>3, PullBuf
<1>4. CASE \E size \in Sizes : Reserve(size)
  BY <1>4, ReserveBuf
<1>5. CASE Trim
  BY <1>5, TrimBuf
<1>6. CASE UNCHANGED vars
  BY <1>6 DEF vars, frame, BufInv, KeptInBuffer, Shape, TypeInv, AtEnd
<1>7. QED
  BY <1>1, <1>2, <1>3, <1>4, <1>5, <1>6 DEF Next

LEMMA BufInvariant == Spec => []BufInv
BY InitBuf, StepBuf, PTL DEF Spec

(* The data are as long as the frame says, and leave the buffer only by a  *)
(* frame_reserve that followed a frame_pull: in a program that reserves    *)
(* before it pulls, or trims in between, they stay inside.                 *)
THEOREM StaysInBuffer == Spec => []KeptInBuffer
<1>1. BufInv => KeptInBuffer
  BY DEF BufInv
<1>2. QED
  BY <1>1, BufInvariant, PTL
-----------------------------------------------------------------------------
(* The refinement: what is between data and tail, as a sequence.           *)
LEMMA WindowFacts ==
  ASSUME NEW m \in [0 .. AtEnd -> Bytes], NEW d \in Int, NEW t \in Int,
         0 <= d, d <= t, t <= Alloced \/ d = t
  PROVE  LET c == [i \in 1 .. t - d |-> m[d + i - 1]]
         IN  /\ c \in Seq(Bytes)
             /\ Len(c) = t - d /\ t - d \in Nat
             /\ \A i \in 1 .. t - d : c[i] = m[d + i - 1]
             /\ \A i \in 1 .. t - d : d + i - 1 \in 0 .. AtEnd
<1>1. t - d \in Nat
  OBVIOUS
<1>2. \A i \in 1 .. t - d : d + i - 1 \in 0 .. AtEnd
  BY <1>1, Params DEF AtEnd
<1>3. \A i \in 1 .. t - d : m[d + i - 1] \in Bytes
  BY <1>2
<1>4. QED
  BY <1>1, <1>2, <1>3

LEMMA ContentFacts ==
  ASSUME BufInv
  PROVE  /\ Content \in Seq(Bytes)
         /\ Len(Content) = tail - data /\ tail - data \in Nat
         /\ \A i \in 1 .. tail - data : Content[i] = mem[data + i - 1]
         /\ \A i \in 1 .. tail - data : data + i - 1 \in 0 .. AtEnd
<1>1. /\ mem \in [0 .. AtEnd -> Bytes] /\ data \in Int /\ tail \in Int
      /\ 0 <= data /\ data <= tail /\ (tail <= Alloced \/ data = tail)
  BY DEF BufInv, KeptInBuffer, Shape, TypeInv
<1>2. QED
  BY <1>1, WindowFacts DEF Content

LEMMA NextContentFacts ==
  ASSUME BufInv'
  PROVE  /\ Content' \in Seq(Bytes)
         /\ Len(Content') = tail' - data' /\ tail' - data' \in Nat
         /\ \A i \in 1 .. tail' - data' : Content'[i] = mem'[data' + i - 1]
         /\ \A i \in 1 .. tail' - data' : data' + i - 1 \in 0 .. AtEnd
<1>1. /\ mem' \in [0 .. AtEnd -> Bytes] /\ data' \in Int /\ tail' \in Int
      /\ 0 <= data' /\ data' <= tail' /\ (tail' <= Alloced \/ data' = tail')
  BY DEF BufInv, KeptInBuffer, Shape, TypeInv, AtEnd
<1>2. QED
  BY <1>1, WindowFacts DEF Content

LEMMA PutContent ==
  ASSUME BufInv, BufInv', NEW b \in Blocks, ~NoRoom(Len(b)), Put(b)
  PROVE  Content' = Content \o b
<1>1. b \in Seq(Bytes) /\ Len(b) \in Nat
  BY BlockFacts, Params
<1>2. tail' = tail + Len(b) /\ data' = data /\ Write(b, tail)
  BY DEF Put, Unless
<1>3. \A i \in 0 .. AtEnd :
        mem'[i] = IF i \in tail .. tail + Len(b) - 1 THEN b[i - tail + 1] ELSE mem[i]
  BY <1>2, WriteFacts DEF BufInv, TypeInv
<1>4. /\ Content \in Seq(Bytes) /\ Len(Content) = tail - data /\ tail - data \in Nat
      /\ \A i \in 1 .. tail - data : Content[i] = mem[data + i - 1]
  BY ContentFacts
<1>5. /\ Content' \in Seq(Bytes) /\ Len(Content') = tail' - data'
      /\ \A i \in 1 .. tail' - data' : Content'[i] = mem'[data' + i - 1]
      /\ \A i \in 1 .. tail' - data' : data' + i - 1 \in 0 .. AtEnd
  BY NextContentFacts
<1>6. /\ Content \o b \in Seq(Bytes) /\ Len(Content \o b) = Len(Content) + Len(b)
      /\ \A i \in 1 .. Len(Content) + Len(b) :
           (Content \o b)[i] = IF i <= Len(Content) THEN Content[i] ELSE b[i - Len(Content)]
  BY <1>1, <1>4, ConcatProperties
<1>7. data \in Int /\ tail \in Int
  BY DEF BufInv, TypeInv
<1>8. Len(Content') = Len(Content \o b)
  BY <1>1, <1>2, <1>4, <1>5, <1>6, <1>7
<1>9. ASSUME NEW i \in 1 .. Len(Content')
      PROVE  Content'[i] = (Content \o b)[i]
  <2>1. i \in Int /\ i \in 1 .. tail' - data' /\ data + i - 1 \in 0 .. AtEnd
    BY <1>2, <1>5, <1>9
  <2>2. Content'[i] = mem'[data + i - 1]
    BY <1>2, <1>5, <2>1
  <2>3. CASE i <= tail - data
    <3>1. data + i - 1 \notin tail .. tail + Len(b) - 1
      BY <1>1, <1>7, <2>1, <2>3
    <3>2. mem'[data + i - 1] = mem[data + i - 1]
      BY <1>3, <2>1, <3>1
    <3>3. i \in 1 .. tail - data
      BY <1>7, <2>1, <2>3
    <3>4. QED
      BY <1>4, <1>6, <1>8, <2>1, <2>2, <2>3, <3>2, <3>3
  <2>4. CASE i > tail - data
    <3>1. data + i - 1 \in tail .. tail + Len(b) - 1
      BY <1>1, <1>2, <1>7, <2>1, <2>4
    <3>2. mem'[data + i - 1] = b[data + i - 1 - tail + 1]
      BY <1>1, <1>3, <1>7, <2>1, <3>1
    <3>3. data + i - 1 - tail + 1 = i - (tail - data)
      BY <1>7, <2>1
    <3>4. (Content \o b)[i] = b[i - (tail - data)]
      BY <1>4, <1>5, <1>6, <1>8, <1>9, <2>1, <2>4
    <3>5. QED
      BY <2>2, <3>2, <3>3, <3>4
  <2>5. i <= tail - data \/ i > tail - data
    BY <1>7, <2>1
  <2>6. QED
    BY <2>3, <2>4, <2>5
<1>10. QED
  BY <1>5, <1>6, <1>8, <1>9, SeqEqual

LEMMA PushContent ==
  ASSUME BufInv, BufInv', NEW b \in Blocks, data - Len(b) >= 0, Push(b)
  PROVE  Content' = b \o Content
<1>1. b \in Seq(Bytes) /\ Len(b) \in Nat
  BY BlockFacts, Params
<1>2. data \in Int /\ tail \in Int
  BY DEF BufInv, TypeInv
<1>3. tail' = tail /\ data' = data - Len(b) /\ Write(b, data - Len(b))
  BY <1>1, <1>2 DEF Push, Unless
<1>4. \A i \in 0 .. AtEnd :
        mem'[i] = IF i \in data - Len(b) .. data - Len(b) + Len(b) - 1
                  THEN b[i - (data - Len(b)) + 1] ELSE mem[i]
  <2>1. data - Len(b) \in Int
    BY <1>1, <1>2
  <2>2. QED
    BY <1>3, <2>1, WriteFacts DEF BufInv
<1>5. /\ Content \in Seq(Bytes) /\ Len(Content) = tail - data /\ tail - data \in Nat
      /\ \A i \in 1 .. tail - data : Content[i] = mem[data + i - 1]
  BY ContentFacts
<1>6. /\ Content' \in Seq(Bytes) /\ Len(Content') = tail' - data'
      /\ \A i \in 1 .. tail' - data' : Content'[i] = mem'[data' + i - 1]
      /\ \A i \in 1 .. tail' - data' : data' + i - 1 \in 0 .. AtEnd
  BY NextContentFacts
<1>7. /\ b \o Content \in Seq(Bytes) /\ Len(b \o Content) = Len(b) + Len(Content)
      /\ \A i \in 1 .. Len(b) + Len(Content) :
           (b \o Content)[i] = IF i <= Len(b) THEN b[i] ELSE Content[i - Len(b)]
  BY <1>1, <1>5, ConcatProperties
<1>8. Len(Content') = Len(b \o Content)
  BY <1>1, <1>2, <1>3, <1>5, <1>6, <1>7
<1>9. ASSUME NEW i \in 1 .. Len(Content')
      PROVE  Content'[i] = (b \o Content)[i]
  <2>1. i \in Int /\ i \in 1 .. tail' - data' /\ data - Len(b) + i - 1 \in 0 .. AtEnd
    BY <1>3, <1>6, <1>9
  <2>2. Content'[i] = mem'[data - Len(b) + i - 1]
    BY <1>3, <1>6, <2>1
  <2>3. CASE i <= Len(b)
    <3>1. data - Len(b) + i - 1 \in data - Len(b) .. data - Len(b) + Len(b) - 1
      BY <1>1, <1>2, <1>9, <2>1, <2>3
    <3>2. mem'[data - Len(b) + i - 1] = b[data - Len(b) + i - 1 - (data - Len(b)) + 1]
      BY <1>1, <1>2, <1>4, <2>1, <3>1
    <3>3. data - Len(b) + i - 1 - (data - Len(b)) + 1 = i
      BY <1>1, <1>2, <2>1
    <3>4. QED
      BY <1>7, <1>8, <1>9, <2>2, <2>3, <3>2, <3>3
  <2>4. CASE i > Len(b)
    <3>1. data - Len(b) + i - 1 \notin data - Len(b) .. data - Len(b) + Len(b) - 1
      BY <1>1, <1>2, <2>1, <2>4
    <3>2. mem'[data - Len(b) + i - 1] = mem[data - Len(b) + i - 1]
      BY <1>4, <2>1, <3>1
    <3>3. i - Len(b) \in 1 .. tail - data
      BY <1>1, <1>2, <1>3, <2>1, <2>4
    <3>4. Content[i - Len(b)] = mem[data + (i - Len(b)) - 1]
      BY <1>5, <3>3
    <3>5. data + (i - Len(b)) - 1 = data - Len(b) + i - 1
      BY <1>1, <1>2, <2>1
    <3>6. (b \o Content)[i] = Content[i - Len(b)]
      BY <1>1, <1>7, <1>8, <1>9, <2>1, <2>4
    <3>7. QED
      BY <2>2, <3>2, <3>4, <3>5, <3>6
  <2>5. i <= Len(b) \/ i > Len(b)
    BY <1>1, <2>1
  <2>6. QED
    BY <2>3, <2>4, <2>5
<1>10. QED
  BY <1>6, <1>7, <1>8, <1>9, SeqEqual

LEMMA PullContent ==
  ASSUME BufInv, BufInv', NEW size \in Sizes, ~(len < size), Pull(size)
  PROVE  size <= Len(Content) /\ Content' = SubSeq(Content, size + 1, Len(Content))
<1>1. size \in Nat \ {0} /\ size \in Int
  BY Params DEF Sizes
<1>2. data \in Int /\ tail \in Int /\ len \in Int /\ len = tail - data
  BY DEF BufInv, TypeInv, KeptInBuffer, Shape
<1>3. tail' = tail /\ data' = data + size /\ mem' = mem
  BY DEF Pull, Pulled, Unless
<1>4. /\ Content \in Seq(Bytes) /\ Len(Content) = tail - data /\ tail - data \in Nat
      /\ \A i \in 1 .. tail - data : Content[i] = mem[data + i - 1]
  BY ContentFacts
<1>5. /\ Content' \in Seq(Bytes) /\ Len(Content') = tail' - data'
      /\ \A i \in 1 .. tail' - data' : Content'[i] = mem'[data' + i - 1]
  BY NextContentFacts
<1> DEFINE rest == SubSeq(Content, size + 1, Len(Content))
<1>6. size + 1 \in Int /\ Len(Content) \in Int
  BY <1>1, <1>4
<1>7. \A i \in size + 1 .. Len(Content) : Content[i] \in Bytes
  <2>1. \A i \in size + 1 .. Len(Content) : i \in 1 .. Len(Content)
    BY <1>1, <1>4
  <2>2. QED
    BY <1>4, <2>1
<1>8. /\ rest \in Seq(Bytes)
      /\ Len(rest) = IF size + 1 <= Len(Content) THEN Len(Content) - (size + 1) + 1 ELSE 0
      /\ \A i \in 1 .. Len(Content) - (size + 1) + 1 : rest[i] = Content[size + 1 + i - 1]
  BY <1>6, <1>7, SubSeqProperties
<1>9. size <= Len(Content)
  BY <1>1, <1>2, <1>4
<1>10. Len(Content') = Len(rest)
  BY <1>1, <1>2, <1>3, <1>4, <1>5, <1>8, <1>9
<1>11. ASSUME NEW i \in 1 .. Len(Content')
       PROVE  Content'[i] = rest[i]
  <2>1. i \in Int /\ i \in 1 .. tail' - data'
    BY <1>5, <1>11
  <2>2. i \in 1 .. Len(Content) - (size + 1) + 1
    BY <1>1, <1>2, <1>3, <1>4, <2>1
  <2>3. size + 1 + i - 1 = size + i /\ size + i \in 1 .. tail - data
    BY <1>1, <1>2, <1>3, <2>1
  <2>4. rest[i] = mem[data + (size + i) - 1]
    BY <1>4, <1>8, <2>2, <2>3
  <2>5. Content'[i] = mem[data + size + i - 1]
    BY <1>3, <1>5, <2>1
  <2>6. data + (size + i) - 1 = data + size + i - 1
    BY <1>1, <1>2, <2>1
  <2>7. QED
    BY <2>4, <2>5, <2>6
<1>12. Content' = rest
  BY <1>5, <1>8, <1>10, <1>11, SeqEqual
<1>13. QED
  BY <1>9, <1>12

(* Where data and tail meet there is nothing.                              *)
LEMMA EmptyContent ==
  ASSUME BufInv, data = tail
  PROVE  Content = <<>>
<1>1. Content \in Seq(Bytes) /\ Len(Content) = 0
  BY ContentFacts DEF BufInv, TypeInv
<1>2. QED
  BY <1>1, EmptySeq

LEMMA NextEmptyContent ==
  ASSUME BufInv', data' = tail'
  PROVE  Content' = <<>>
<1>1. data' \in Int /\ tail' \in Int
  BY DEF BufInv, TypeInv, AtEnd
<1>2. Content' \in Seq(Bytes) /\ Len(Content') = 0
  BY <1>1, NextContentFacts
<1>3. QED
  BY <1>2, EmptySeq

LEMMA InitDeque == Init => Deque!Init
<1> SUFFICES ASSUME Init PROVE Deque!Init
  OBVIOUS
<1>1. Content = <<>>
  BY InitBuf, EmptyContent DEF Init
<1>2. QED
  BY <1>1 DEF Deque!Init

LEMMA StepDeque ==
  ASSUME BufInv, BufInv', [Next]_vars
  PROVE  [Deque!Next]_Content
<1>1. CASE UNCHANGED <<mem, data, tail>>
  BY <1>1 DEF Content
<1>2. ASSUME NEW b \in Blocks, Put(b)
      PROVE  [Deque!Next]_Content
  <2>1. CASE NoRoom(Len(b))
    BY <1>1, <1>2, <2>1 DEF Put, Unless, Abort, frame
  <2>2. CASE ~NoRoom(Len(b))
    BY <1>2, <2>2, PutContent DEF Deque!Next, Deque!Append1, Deque!Blocks, Blocks, Sizes
  <2>3. QED
    BY <2>1, <2>2
<1>3. ASSUME NEW b \in Blocks, Push(b)
      PROVE  [Deque!Next]_Content
  <2>1. CASE data - Len(b) < 0
    BY <1>1, <1>3, <2>1 DEF Push, Unless, Abort, frame
  <2>2. CASE ~(data - Len(b) < 0)
    <3>1. data - Len(b) >= 0
      BY <2>2, BlockFacts, Params DEF BufInv, TypeInv
    <3>2. QED
      BY <1>3, <3>1, PushContent DEF Deque!Next, Deque!Prepend, Deque!Blocks, Blocks, Sizes
  <2>3. QED
    BY <2>1, <2>2
<1>4. ASSUME NEW size \in Sizes, Pull(size)
      PROVE  [Deque!Next]_Content
  <2>1. CASE len < size
    BY <1>1, <1>4, <2>1 DEF Pull, Unless, Abort, frame
  <2>2. CASE ~(len < size)
    BY <1>4, <2>2, PullContent DEF Deque!Next, Deque!Drop, Sizes
  <2>3. QED
    BY <2>1, <2>2
<1>5. ASSUME NEW size \in Sizes, Reserve(size)
      PROVE  [Deque!Next]_Content
  <2>1. CASE UNCHANGED <<mem, data, tail>>
    BY <1>1, <2>1
  <2>2. CASE data' = data + size /\ tail' = tail + size /\ len = 0
    <3>1. data = tail /\ data' = tail'
      BY <2>2 DEF BufInv, KeptInBuffer, Shape, TypeInv
    <3>2. Content = <<>> /\ Content' = <<>>
      BY <3>1, EmptyContent, NextEmptyContent
    <3>3. QED
      BY <3>2
  <2>3. QED
    BY <1>5, <2>1, <2>2 DEF Reserve, Unless, Abort, frame
<1>6. CASE Trim
  <2>1. data' = tail'
    BY <1>6 DEF Trim
  <2>2. Content' = <<>>
    BY <2>1, NextEmptyContent
  <2>3. QED
    BY <2>2 DEF Deque!Next, Deque!Clear
<1>7. CASE UNCHANGED vars
  BY <1>1, <1>7 DEF vars, frame
<1>8. QED
  BY <1>2, <1>3, <1>4, <1>5, <1>6, <1>7 DEF Next

(* The operations act on the bytes between data and tail as on a deque:    *)
(* none of them touches bytes another one put there.  That is up to where  *)
(* a reserve after a pull takes tail out of the buffer.                    *)
THEOREM FrameIsDeque == Spec => ActsAsDeque
BY InitDeque, StepDeque, BufInvariant, PTL DEF Spec, ActsAsDeque, Deque!Spec
-----------------------------------------------------------------------------
(* carlu's accounts.  A frame that is reported leaves tx_sent_queue by its *)
(* cookie, and the place may be that of an older frame with the same       *)
(* cookie.  No frame is lost by it, for the frames on their way to the     *)
(* host and back stand in tx_sent_queue in the order of that way: what is  *)
(* found is not behind the frame reported, so it waits nowhere any more.   *)
Urbs == [frame : Frames, received : BOOLEAN]
Reports == [frame : Frames, cookie : Nat]

TxTypes ==
  /\ ref \in [Frames -> Nat] /\ cookie \in Nat /\ frame_cookie \in [Frames -> Nat]
  /\ used_dma_chunks \in Int /\ tx_pending \in Int
  /\ tx_sent_queue \in Seq(Frames) /\ tx_queue \in Seq(Frames)
  /\ tx_queue_len \in Int /\ failed \in Nat
  /\ urbs \in Seq(Urbs) /\ firmware \in Seq(Reports) /\ statuses \in Seq(Reports)
  /\ pc \in {"idle", "tx", "sent", "queue", "kick", "kill"}
  /\ pc \in {"tx", "sent", "queue"} => cur \in Frames
  /\ evpc \in {"idle", "bulk", "kick", "fb", "gone"}
  /\ evpc \in {"bulk", "fb"} => evframe \in Frames
  /\ unowned \in BOOLEAN
  /\ evpc # "gone" => pc # "kill"

(* The way of a frame: to be submitted, with the USB stack, with the       *)
(* firmware, reported.  The sender holds the frame it is about to queue.   *)
Queueing == IF pc = "queue" THEN {cur} ELSE {}
Submitting == Tx!Elems(tx_queue)
Sending == {urbs[i].frame : i \in {j \in DOMAIN urbs : ~urbs[j].received}}
With == {firmware[i].frame : i \in DOMAIN firmware}
Reported == {statuses[i].frame : i \in DOMAIN statuses}

(* f stands before g in q; and the frames of X before those of Y.          *)
Before(q, f, g) == \E k, l \in DOMAIN q : k < l /\ q[k] = f /\ q[l] = g
Ahead(q, X, Y) == \A f \in X, g \in Y : Before(q, f, g)

Sorted(q) ==
  /\ \A i, j \in DOMAIN statuses : i < j => Before(q, statuses[i].frame, statuses[j].frame)
  /\ \A i, j \in DOMAIN firmware : i < j => Before(q, firmware[i].frame, firmware[j].frame)
  /\ \A i, j \in DOMAIN urbs : i < j /\ ~urbs[i].received /\ ~urbs[j].received
                                 => Before(q, urbs[i].frame, urbs[j].frame)
  /\ \A i, j \in DOMAIN tx_queue : i < j => Before(q, tx_queue[i], tx_queue[j])

Staged(q) ==
  /\ Ahead(q, Reported, With \union Sending \union Submitting \union Queueing)
  /\ Ahead(q, With, Sending \union Submitting \union Queueing)
  /\ Ahead(q, Sending, Submitting \union Queueing)
  /\ Ahead(q, Submitting, Queueing)
  /\ Reported \union With \union Sending \union Submitting \union Queueing \subseteq Tx!Elems(q)

Once == \A i, j \in DOMAIN tx_sent_queue : i # j => tx_sent_queue[i] # tx_sent_queue[j]

OwnCookies ==
  /\ \A i \in DOMAIN statuses : statuses[i].cookie = frame_cookie[statuses[i].frame]
  /\ \A i \in DOMAIN firmware : firmware[i].cookie = frame_cookie[firmware[i].frame]

TxOrder == Once /\ Sorted(tx_sent_queue) /\ Staged(tx_sent_queue) /\ OwnCookies

(* Who holds a reference: the sender or tx_sent_queue, and the transfer.   *)
Starting(f) == pc \in {"tx", "sent"} /\ f = cur
Owned(f) == f \in Tx!Reserved \/ Starting(f)
Moving(f) == f \in Tx!InFlight \/ (evpc = "bulk" /\ f = evframe)

TxRefs ==
  \A f \in Frames :
    /\ ref[f] <= 2
    /\ Owned(f) \/ Moving(f) => ref[f] >= 1
    /\ Owned(f) /\ Moving(f) => ref[f] = 2
    /\ Starting(f) \/ f \in Queueing \union Submitting => ref[f] = 1

TxApart ==
  /\ \A i, j \in DOMAIN urbs : i # j => urbs[i].frame # urbs[j].frame
  /\ evpc = "bulk" => evframe \notin Tx!InFlight
  /\ evpc = "fb" => evframe \notin Tx!Elems(tx_sent_queue) /\ ~Starting(evframe)
  /\ \A f \in Frames : Starting(f) => f \notin Tx!Elems(tx_sent_queue)

TxMem ==
  /\ used_dma_chunks = Cardinality(Tx!Taken)
  /\ tx_pending = Cardinality(Tx!Reserved)
  /\ used_dma_chunks < DmaChunks

TxInv ==
  /\ TxTypes /\ Tx!SlotsCounted
  /\ evpc # "gone" => TxOrder /\ TxRefs /\ TxApart /\ TxMem /\ ~unowned

(* A sequence without its element i.                                       *)
LEMMA Removed ==
  ASSUME NEW S, NEW s \in Seq(S), NEW i \in 1 .. Len(s)
  PROVE  /\ Tx!RemoveAt(s, i) \in Seq(S)
         /\ Len(s) \in Nat
         /\ Len(Tx!RemoveAt(s, i)) = Len(s) - 1
         /\ \A k \in 1 .. i - 1 : Tx!RemoveAt(s, i)[k] = s[k]
         /\ \A k \in i .. Len(s) - 1 : Tx!RemoveAt(s, i)[k] = s[k + 1]
<1>1. Tx!RemoveAt(s, i) = Gone(s, i)
  BY DEF Tx!RemoveAt, Gone
<1>2. QED
  BY <1>1, Spliced

LEMMA TxSizes ==
  /\ IsFiniteSet(Frames) /\ chunks \in [Frames -> Nat] /\ DmaChunks \in Nat \ {0}
  /\ MaxUrbs \in Nat /\ Cookies \in Nat \ {0}
<1>1. Tx!IsFiniteSet(Frames) => IsFiniteSet(Frames)
  BY DEF IsFiniteSet, Tx!IsFiniteSet
<1>2. QED
  BY TxAssumption, <1>1 DEF Tx!Sizes

LEMMA FreeFacts ==
  ASSUME ref \in [Frames -> Nat], NEW f \in Frames, Tx!Free(f), unowned \in BOOLEAN
  PROVE  /\ ref' \in [Frames -> Nat] /\ unowned' \in BOOLEAN
         /\ \A g \in Frames : g # f => ref'[g] = ref[g]
         /\ ref[f] > 0 => ref'[f] = ref[f] - 1 /\ unowned' = unowned
<1>1. ref' = [ref EXCEPT ![f] = IF @ = 0 THEN 0 ELSE @ - 1] /\ unowned' = (unowned \/ ref[f] = 0)
  BY DEF Tx!Free
<1>2. unowned' \in BOOLEAN
  BY <1>1
<1>3. ASSUME ref[f] > 0 PROVE unowned' = unowned
  <2>1. ref[f] # 0
    BY <1>3
  <2>2. QED
    BY <1>1, <2>1
<1>4. QED
  BY <1>1, <1>2, <1>3

(* The head of a sequence, as its first element.                           *)
LEMMA FirstOf ==
  ASSUME NEW S, NEW q \in Seq(S), q # <<>>
  PROVE  1 \in DOMAIN q /\ Head(q) = q[1] /\ Head(q) \in S /\ Tail(q) \in Seq(S)
BY Popped

(* What carlusb_tx_pending does: nothing, submit the first frame, fail to  *)
(* get memory for a transfer, or fail to submit it.                        *)
LEMMA PendingCases ==
  ASSUME TxTypes, Tx!TxPending
  PROVE  \/ UNCHANGED <<ref, tx_queue, tx_queue_len, urbs, failed>>
         \/ /\ tx_queue # <<>> /\ Tx!Submit
         \/ /\ tx_queue # <<>> /\ failed' = failed + 1 /\ tx_queue_len' = tx_queue_len + 1
            /\ UNCHANGED <<tx_queue, ref, urbs>>
         \/ /\ tx_queue # <<>> /\ failed' = failed + 1 /\ tx_queue_len' = tx_queue_len + 1
            /\ tx_queue' = Tail(tx_queue) /\ ref' = [ref EXCEPT ![Head(tx_queue)] = @ + 1]
            /\ UNCHANGED urbs
BY DEF Tx!TxPending, Tx!NothingToSubmit, Tx!SubmitFailed

(* One more reference to a frame.                                          *)
LEMMA RefMore ==
  ASSUME ref \in [Frames -> Nat], NEW f \in Frames, ref' = [ref EXCEPT ![f] = @ + 1]
  PROVE  ref' \in [Frames -> Nat]
<1>1. ref[f] + 1 \in Nat
  OBVIOUS
<1>2. QED
  BY <1>1

LEMMA PendingTypes ==
  ASSUME TxTypes, Tx!TxPending
  PROVE  /\ ref' \in [Frames -> Nat] /\ tx_queue' \in Seq(Frames) /\ tx_queue_len' \in Int
         /\ urbs' \in Seq(Urbs) /\ failed' \in Nat
         /\ tx_queue_len' - Len(urbs') - failed' = tx_queue_len - Len(urbs) - failed
<1> USE DEF TxTypes
<1>0. Len(urbs) \in Nat
  BY LenProperties
<1>1. CASE UNCHANGED <<ref, tx_queue, tx_queue_len, urbs, failed>>
  BY <1>1
<1>2. CASE tx_queue # <<>> /\ Tx!Submit
  <2>1. Head(tx_queue) \in Frames /\ Tail(tx_queue) \in Seq(Frames)
    BY <1>2, FirstOf
  <2> DEFINE u == [frame |-> Head(tx_queue), received |-> FALSE]
  <2>2. u \in Urbs
    BY <2>1 DEF Urbs
  <2> HIDE DEF u
  <2>3. Append(urbs, u) \in Seq(Urbs) /\ Len(Append(urbs, u)) = Len(urbs) + 1
    BY <2>2, Pushed
  <2>4. urbs' = Append(urbs, u) /\ tx_queue_len' = tx_queue_len + 1 /\ failed' = failed
    BY <1>2 DEF Tx!Submit, u
  <2>5. ref' \in [Frames -> Nat] /\ tx_queue' \in Seq(Frames)
    <3>1. ref' = [ref EXCEPT ![Head(tx_queue)] = @ + 1] /\ tx_queue' = Tail(tx_queue)
      BY <1>2 DEF Tx!Submit
    <3>2. QED
      BY <2>1, <3>1, RefMore
  <2>6. urbs' \in Seq(Urbs) /\ Len(urbs') = Len(urbs) + 1
    BY <2>3, <2>4
  <2>7. /\ tx_queue_len' \in Int /\ failed' \in Nat
        /\ tx_queue_len' - Len(urbs') - failed' = tx_queue_len - Len(urbs) - failed
    BY <1>0, <2>4, <2>6
  <2>8. QED
    BY <2>5, <2>6, <2>7
<1>3. CASE /\ tx_queue # <<>> /\ failed' = failed + 1 /\ tx_queue_len' = tx_queue_len + 1
           /\ UNCHANGED <<tx_queue, ref, urbs>>
  BY <1>0, <1>3
<1>4. CASE /\ tx_queue # <<>> /\ failed' = failed + 1 /\ tx_queue_len' = tx_queue_len + 1
           /\ tx_queue' = Tail(tx_queue) /\ ref' = [ref EXCEPT ![Head(tx_queue)] = @ + 1]
           /\ UNCHANGED urbs
  <2>1. Head(tx_queue) \in Frames /\ Tail(tx_queue) \in Seq(Frames)
    BY <1>4, FirstOf
  <2>2. ref' \in [Frames -> Nat]
    BY <1>4, <2>1, RefMore
  <2>3. QED
    BY <1>0, <1>4, <2>1, <2>2
<1>5. QED
  BY <1>1, <1>2, <1>3, <1>4, PendingCases

(* carlu_find_frame takes the first place with the cookie, if there is one.*)
Found(i) ==
  /\ tx_sent_queue' = Tx!RemoveAt(tx_sent_queue, i)
  /\ evpc' = "fb" /\ evframe' = tx_sent_queue[i]
  /\ \A j \in DOMAIN tx_sent_queue :
       frame_cookie[tx_sent_queue[j]] = Head(statuses).cookie => i <= j

LEMMA FindCases ==
  ASSUME TxTypes, Tx!FindFrame
  PROVE  \/ /\ UNCHANGED <<tx_sent_queue, evpc, evframe>>
            /\ \A j \in DOMAIN tx_sent_queue :
                 frame_cookie[tx_sent_queue[j]] # Head(statuses).cookie
         \/ \E i \in DOMAIN tx_sent_queue : Found(i)
<1> DEFINE places == Tx!Places(Head(statuses).cookie)
<1>1. /\ places \subseteq DOMAIN tx_sent_queue
      /\ \A j \in DOMAIN tx_sent_queue :
           j \in places <=> frame_cookie[tx_sent_queue[j]] = Head(statuses).cookie
  BY DEF Tx!Places
<1>2. /\ places = {} => UNCHANGED <<tx_sent_queue, evpc, evframe>>
      /\ places # {} =>
           /\ tx_sent_queue' = Tx!RemoveAt(tx_sent_queue, Tx!Min(places))
           /\ evpc' = "fb" /\ evframe' = tx_sent_queue[Tx!Min(places)]
  BY DEF Tx!FindFrame, Tx!event
<1>3. DOMAIN tx_sent_queue \subseteq Nat
  BY DEF TxTypes
<1> HIDE DEF places
<1>4. CASE places = {}
  BY <1>1, <1>2, <1>4
<1>5. CASE places # {}
  <2>1. \E m \in places : \A n \in places : m <= n
    <3>1. places \in SUBSET Nat
      BY <1>1, <1>3
    <3>2. QED
      BY <1>5, <3>1, LeastNatural
  <2>2. Tx!Min(places) \in places /\ \A n \in places : Tx!Min(places) <= n
    BY <2>1 DEF Tx!Min
  <2>3. Found(Tx!Min(places))
    BY <1>1, <1>2, <1>5, <2>2 DEF Found
  <2>4. QED
    BY <1>1, <2>2, <2>3
<1>6. QED
  BY <1>4, <1>5

(* The types, and the slots of the transfer limit.                         *)
LEMMA TxTypesKept ==
  ASSUME TxTypes, [Tx!Next]_txVars
  PROVE  TxTypes'
<1> USE DEF TxTypes
<1> USE DEF Tx!memory, Tx!device, Tx!sender, Tx!event, Tx!history
<1>1. ASSUME NEW f \in Frames, Tx!AllocFrame(f) PROVE TxTypes'
  BY <1>1 DEF Tx!AllocFrame
<1>2. CASE Tx!Refuse
  <2>1. /\ cur \in Frames /\ pc' = "idle"
        /\ UNCHANGED <<cookie, frame_cookie, used_dma_chunks, tx_pending, tx_sent_queue, tx_queue,
                       tx_queue_len, urbs, firmware, statuses, evpc, evframe, failed>>
    BY <1>2 DEF Tx!Refuse
  <2>2. ref' \in [Frames -> Nat] /\ unowned' \in BOOLEAN
    <3>1. CASE Tx!Free(cur)
      BY <2>1, <3>1, FreeFacts
    <3>2. CASE UNCHANGED <<ref, unowned>>
      BY <3>2
    <3>3. QED
      BY <1>2, <3>1, <3>2 DEF Tx!Refuse
  <2>3. QED
    BY <2>1, <2>2
<1>3. CASE Tx!NoSpace
  <2>1. /\ cur \in Frames /\ pc' = "idle" /\ Tx!Free(cur)
        /\ UNCHANGED <<cookie, frame_cookie, used_dma_chunks, tx_pending, tx_sent_queue, tx_queue,
                       tx_queue_len, urbs, firmware, statuses, evpc, evframe, failed>>
    BY <1>3 DEF Tx!NoSpace
  <2>2. ref' \in [Frames -> Nat] /\ unowned' \in BOOLEAN
    BY <2>1, FreeFacts
  <2>3. QED
    BY <2>1, <2>2
<1>4. CASE Tx!AllocDevMem
  <2>1. /\ cur \in Frames /\ pc' = "sent" /\ cur' = cur
        /\ used_dma_chunks' = used_dma_chunks + chunks[cur] /\ tx_pending' = tx_pending + 1
        /\ frame_cookie' = [frame_cookie EXCEPT ![cur] = cookie]
        /\ cookie' = (cookie + 1) % Cookies
        /\ UNCHANGED <<ref, tx_sent_queue, tx_queue, tx_queue_len, urbs, firmware, statuses,
                       evpc, evframe, failed, unowned>>
    BY <1>4 DEF Tx!AllocDevMem
  <2>2. cookie' \in Nat /\ used_dma_chunks' \in Int /\ tx_pending' \in Int
    BY <2>1, TxSizes
  <2>3. frame_cookie' \in [Frames -> Nat]
    BY <2>1
  <2>4. QED
    BY <2>1, <2>2, <2>3
<1>5. CASE Tx!QueueFrame
  <2>1. /\ cur \in Frames /\ pc' \in {"queue", "kick"} /\ cur' = cur
        /\ UNCHANGED <<ref, cookie, frame_cookie, used_dma_chunks, tx_pending, tx_queue_len,
                       urbs, firmware, statuses, evpc, evframe, failed, unowned>>
    BY <1>5 DEF Tx!QueueFrame, Tx!Queue
  <2>2. tx_sent_queue' \in Seq(Frames) /\ tx_queue' \in Seq(Frames)
    <3>1. CASE tx_sent_queue' = Append(tx_sent_queue, cur) /\ UNCHANGED tx_queue
      BY <2>1, <3>1, Pushed
    <3>2. CASE tx_queue' = Append(tx_queue, cur) /\ UNCHANGED tx_sent_queue
      BY <2>1, <3>2, Pushed
    <3>3. QED
      BY <1>5, <3>1, <3>2 DEF Tx!QueueFrame, Tx!Queue
  <2>3. QED
    BY <2>1, <2>2
<1>6. CASE Tx!SenderPending
  BY <1>6, PendingTypes DEF Tx!SenderPending
<1>7. CASE Tx!Receive
  <2>1. PICK i \in DOMAIN urbs :
             /\ urbs' = [urbs EXCEPT ![i].received = TRUE]
             /\ firmware' = Append(firmware, [frame |-> urbs[i].frame,
                                              cookie |-> frame_cookie[urbs[i].frame]])
             /\ UNCHANGED <<ref, cookie, frame_cookie, used_dma_chunks, tx_pending,
                            tx_sent_queue, tx_queue, tx_queue_len, statuses, pc, cur,
                            evpc, evframe, failed, unowned>>
    BY <1>7 DEF Tx!Receive
  <2>2. urbs[i] \in Urbs /\ i \in 1 .. Len(urbs)
    BY <2>1
  <2>3. [urbs[i] EXCEPT !.received = TRUE] \in Urbs
    BY <2>2 DEF Urbs
  <2>4. urbs' \in Seq(Urbs)
    <3>1. urbs' = [urbs EXCEPT ![i] = [urbs[i] EXCEPT !.received = TRUE]]
      BY <2>1
    <3>2. QED
      BY <2>2, <2>3, <3>1, ExceptSeq
  <2>5. urbs[i].frame \in Frames
    BY <2>2 DEF Urbs
  <2> DEFINE r == [frame |-> urbs[i].frame, cookie |-> frame_cookie[urbs[i].frame]]
  <2>6. r \in Reports
    BY <2>5 DEF Reports
  <2> HIDE DEF r
  <2>7. firmware' \in Seq(Reports)
    BY <2>1, <2>6, Pushed DEF r
  <2>8. QED
    BY <2>1, <2>4, <2>7
<1>8. CASE Tx!Report
  <2>1. Head(firmware) \in Reports /\ Tail(firmware) \in Seq(Reports)
    BY <1>8, FirstOf DEF Tx!Report
  <2>2. firmware' \in Seq(Reports) /\ statuses' \in Seq(Reports)
    BY <1>8, <2>1, Pushed DEF Tx!Report
  <2>3. QED
    BY <1>8, <2>2 DEF Tx!Report
<1>9. CASE Tx!BulkCb
  <2>1. Head(urbs) \in Urbs /\ Tail(urbs) \in Seq(Urbs)
    BY <1>9, FirstOf DEF Tx!BulkCb
  <2>2. evframe' \in Frames /\ urbs' \in Seq(Urbs) /\ tx_queue_len' \in Int
    BY <1>9, <2>1 DEF Tx!BulkCb, Tx!SlotBack, Urbs
  <2>3. QED
    BY <1>9, <2>2 DEF Tx!BulkCb
<1>10. CASE Tx!BulkFree
  <2>1. evframe \in Frames /\ Tx!Free(evframe)
    BY <1>10 DEF Tx!BulkFree
  <2>2. ref' \in [Frames -> Nat] /\ unowned' \in BOOLEAN
    BY <2>1, FreeFacts
  <2>3. QED
    BY <1>10, <2>2 DEF Tx!BulkFree
<1>11. CASE Tx!EventPending
  BY <1>11, PendingTypes DEF Tx!EventPending, Tx!NextPending
<1>12. CASE Tx!FindFrame
  <2>1. Tail(statuses) \in Seq(Reports)
    BY <1>12, FirstOf DEF Tx!FindFrame
  <2>2. /\ tx_sent_queue' \in Seq(Frames)
        /\ evpc' \in {"idle", "fb"} /\ (evpc' = "fb" => evframe' \in Frames)
    <3>1. CASE UNCHANGED <<tx_sent_queue, evpc, evframe>>
      BY <1>12, <3>1 DEF Tx!FindFrame
    <3>2. CASE ~UNCHANGED <<tx_sent_queue, evpc, evframe>>
      <4>1. PICK i \in DOMAIN tx_sent_queue : Found(i)
        BY <1>12, <3>2, FindCases
      <4>2. i \in 1 .. Len(tx_sent_queue) /\ tx_sent_queue[i] \in Frames
        BY <4>1
      <4>3. QED
        BY <4>1, <4>2, Removed DEF Found
    <3>3. QED
      BY <3>1, <3>2
  <2>3. QED
    BY <1>12, <2>1, <2>2 DEF Tx!FindFrame
<1>13. CASE Tx!Feedback
  <2>1. evframe \in Frames /\ Tx!Free(evframe)
    BY <1>13 DEF Tx!Feedback
  <2>2. ref' \in [Frames -> Nat] /\ unowned' \in BOOLEAN
    BY <2>1, FreeFacts
  <2>3. used_dma_chunks' \in Int /\ tx_pending' \in Int
    BY <1>13, <2>1, TxSizes DEF Tx!Feedback, Tx!FreeDevMem
  <2>4. QED
    BY <1>13, <2>2, <2>3 DEF Tx!Feedback
<1>14. CASE Tx!ZapQueues
  <2>1. CASE tx_queue = <<>>
    BY <1>14, <2>1 DEF Tx!ZapQueues
  <2>2. CASE tx_queue # <<>>
    <3>1. Head(tx_queue) \in Frames /\ Tail(tx_queue) \in Seq(Frames)
      BY <2>2, FirstOf
    <3>2. tx_queue' = Tail(tx_queue) /\ Tx!Free(Head(tx_queue))
      BY <1>14, <2>2 DEF Tx!ZapQueues
    <3>3. ref' \in [Frames -> Nat] /\ unowned' \in BOOLEAN
      BY <3>1, <3>2, FreeFacts
    <3>4. QED
      BY <1>14, <2>2, <3>1, <3>2, <3>3 DEF Tx!ZapQueues
  <2>3. QED
    BY <2>1, <2>2
<1>15. CASE Tx!KillQueue
  <2>1. Head(tx_sent_queue) \in Frames /\ Tail(tx_sent_queue) \in Seq(Frames)
    BY <1>15, FirstOf DEF Tx!KillQueue
  <2>2. ref' \in [Frames -> Nat] /\ unowned' \in BOOLEAN
    BY <1>15, <2>1, FreeFacts DEF Tx!KillQueue
  <2>3. QED
    BY <1>15, <2>1, <2>2 DEF Tx!KillQueue
<1>16. CASE UNCHANGED txVars
  BY <1>16 DEF txVars
<1>17. QED
  BY <1>1, <1>2, <1>3, <1>4, <1>5, <1>6, <1>7, <1>8, <1>9, <1>10, <1>11, <1>12, <1>13, <1>14,
     <1>15, <1>16 DEF Tx!Next

LEMMA SlotsKept ==
  ASSUME TxTypes, Tx!SlotsCounted, [Tx!Next]_txVars
  PROVE  Tx!SlotsCounted'
<1> USE DEF Tx!SlotsCounted, Tx!device, Tx!sender, Tx!event, Tx!history
<1>0. urbs \in Seq(Urbs) /\ Len(urbs) \in Nat /\ tx_queue_len \in Int /\ failed \in Nat
  BY LenProperties DEF TxTypes
<1>1. CASE UNCHANGED <<urbs, tx_queue_len, failed>>
  BY <1>1
<1>2. CASE Tx!TxPending
  <2>1. /\ tx_queue_len' - Len(urbs') - failed' = tx_queue_len - Len(urbs) - failed
        /\ urbs' \in Seq(Urbs) /\ tx_queue_len' \in Int /\ failed' \in Nat
    BY <1>2, PendingTypes
  <2>2. Len(urbs') \in Nat
    BY <2>1, LenProperties
  <2>3. QED
    BY <1>0, <2>1, <2>2
<1>3. CASE Tx!BulkCb
  <2>1. Len(Tail(urbs)) = Len(urbs) - 1
    BY <1>0, <1>3, Popped DEF Tx!BulkCb
  <2>2. QED
    BY <1>0, <1>3, <2>1 DEF Tx!BulkCb, Tx!SlotBack
<1>4. CASE Tx!Receive
  <2>1. PICK i \in DOMAIN urbs : urbs' = [urbs EXCEPT ![i].received = TRUE]
    BY <1>4 DEF Tx!Receive
  <2>2. urbs[i] \in Urbs /\ i \in 1 .. Len(urbs)
    BY <1>0, <2>1
  <2> DEFINE u == [urbs[i] EXCEPT !.received = TRUE]
  <2>3. u \in Urbs /\ urbs' = [urbs EXCEPT ![i] = u]
    BY <2>1, <2>2 DEF Urbs
  <2> HIDE DEF u
  <2>4. Len(urbs') = Len(urbs)
    BY <1>0, <2>2, <2>3, ExceptSeq
  <2>5. QED
    BY <1>4, <2>4 DEF Tx!Receive
<1>5. UNCHANGED <<urbs, tx_queue_len, failed>> \/ Tx!TxPending \/ Tx!BulkCb \/ Tx!Receive
  BY DEF Tx!Next, Tx!AllocFrame, Tx!Refuse, Tx!NoSpace, Tx!AllocDevMem, Tx!QueueFrame,
         Tx!SenderPending, Tx!EventPending, Tx!NextPending, Tx!Report, Tx!BulkFree,
         Tx!FindFrame, Tx!Feedback, Tx!ZapQueues, Tx!KillQueue, txVars
<1>6. QED
  BY <1>1, <1>2, <1>3, <1>4, <1>5
-----------------------------------------------------------------------------
(* Before, when tx_sent_queue grows and when a frame is taken from it.     *)
LEMMA BeforeMore ==
  ASSUME NEW q \in Seq(Frames), NEW x \in Frames
  PROVE  /\ \A f, g : Before(q, f, g) => Before(Append(q, x), f, g)
         /\ \A f \in Tx!Elems(q) : Before(Append(q, x), f, x)
         /\ Tx!Elems(Append(q, x)) = Tx!Elems(q) \union {x}
<1> DEFINE r == Append(q, x)
<1>1. /\ Len(q) \in Nat /\ DOMAIN q = 1 .. Len(q) /\ DOMAIN r = 1 .. Len(q) + 1
      /\ \A n \in 1 .. Len(q) : r[n] = q[n]
      /\ r[Len(q) + 1] = x
  BY Pushed
<1> HIDE DEF r
<1>2. \A f, g : Before(q, f, g) => Before(r, f, g)
  BY <1>1 DEF Before
<1>3. \A f \in Tx!Elems(q) : Before(r, f, x)
  BY <1>1 DEF Before, Tx!Elems
<1>4. Tx!Elems(r) = Tx!Elems(q) \union {x}
  BY <1>1 DEF Tx!Elems
<1>5. QED
  BY <1>2, <1>3, <1>4 DEF r

LEMMA BeforeLess ==
  ASSUME NEW q \in Seq(Frames), NEW i \in DOMAIN q
  PROVE  /\ \A f, g : /\ Before(q, f, g) /\ f # q[i] /\ g # q[i]
                      => Before(Tx!RemoveAt(q, i), f, g)
         /\ \A f \in Tx!Elems(q) : f # q[i] => f \in Tx!Elems(Tx!RemoveAt(q, i))
         /\ Tx!Elems(Tx!RemoveAt(q, i)) \subseteq Tx!Elems(q)
<1> DEFINE r == Tx!RemoveAt(q, i)
<1> HIDE DEF r
<1>1. i \in 1 .. Len(q) /\ Len(q) \in Nat /\ DOMAIN q = 1 .. Len(q)
  BY LenProperties
<1>2. /\ DOMAIN r = 1 .. Len(q) - 1
      /\ \A k \in 1 .. i - 1 : r[k] = q[k]
      /\ \A k \in i .. Len(q) - 1 : r[k] = q[k + 1]
  <2>1. /\ r \in Seq(Frames) /\ Len(r) = Len(q) - 1
        /\ \A k \in 1 .. i - 1 : r[k] = q[k]
        /\ \A k \in i .. Len(q) - 1 : r[k] = q[k + 1]
    BY <1>1, Removed DEF r
  <2>2. DOMAIN r = 1 .. Len(r)
    BY <2>1, LenProperties
  <2>3. QED
    BY <2>1, <2>2
<1> DEFINE to(k) == IF k < i THEN k ELSE k - 1
<1>3. ASSUME NEW k \in 1 .. Len(q), k # i
      PROVE  to(k) \in DOMAIN r /\ r[to(k)] = q[k]
  <2>1. CASE k < i
    BY <1>1, <1>2, <2>1
  <2>2. CASE k > i
    <3>1. k - 1 \in i .. Len(q) - 1 /\ (k - 1) + 1 = k
      BY <1>1, <2>2
    <3>2. QED
      BY <1>1, <1>2, <2>2, <3>1
  <2>3. QED
    BY <1>1, <1>3, <2>1, <2>2
<1>4. ASSUME NEW k \in 1 .. Len(q), NEW l \in 1 .. Len(q), k < l, k # i, l # i
      PROVE  to(k) < to(l)
  BY <1>1, <1>4
<1> HIDE DEF to
<1>5. ASSUME NEW f, NEW g, Before(q, f, g), f # q[i], g # q[i]
      PROVE  Before(r, f, g)
  <2>1. PICK k, l \in DOMAIN q : k < l /\ q[k] = f /\ q[l] = g
    BY <1>5 DEF Before
  <2>2. k # i /\ l # i
    BY <1>5, <2>1
  <2>3. to(k) \in DOMAIN r /\ r[to(k)] = f /\ to(l) \in DOMAIN r /\ r[to(l)] = g
    BY <1>1, <1>3, <2>1, <2>2
  <2>4. to(k) < to(l)
    BY <1>1, <1>4, <2>1, <2>2
  <2>5. QED
    BY <2>3, <2>4 DEF Before
<1>6. ASSUME NEW f \in Tx!Elems(q), f # q[i] PROVE f \in Tx!Elems(r)
  BY <1>1, <1>3, <1>6 DEF Tx!Elems
<1>7. Tx!Elems(r) \subseteq Tx!Elems(q)
  <2> SUFFICES ASSUME NEW k \in 1 .. Len(q) - 1 PROVE r[k] \in Tx!Elems(q)
    BY <1>2 DEF Tx!Elems
  <2>1. k \in 1 .. Len(q) /\ k + 1 \in 1 .. Len(q) /\ (k \in 1 .. i - 1 \/ k \in i .. Len(q) - 1)
    BY <1>1
  <2>2. QED
    BY <1>1, <1>2, <2>1 DEF Tx!Elems
<1>8. QED
  BY <1>5, <1>6, <1>7 DEF r

LEMMA BeforeIsAnother ==
  ASSUME Once, TxTypes, NEW f, NEW g, Before(tx_sent_queue, f, g)
  PROVE  f # g
<1>1. PICK k, l \in DOMAIN tx_sent_queue : k < l /\ tx_sent_queue[k] = f /\ tx_sent_queue[l] = g
  BY DEF Before
<1>2. k # l
  BY <1>1 DEF TxTypes
<1>3. QED
  BY <1>1, <1>2 DEF Once

(* The order, step by step.                                                *)
LEMMA OrderSame ==
  ASSUME TxOrder,
         UNCHANGED <<tx_sent_queue, statuses, firmware, urbs, tx_queue, frame_cookie, Queueing>>
  PROVE  TxOrder'
BY DEF TxOrder, Once, Sorted, Staged, Ahead, OwnCookies, Reported, With, Sending, Submitting

(* Fewer frames on their way.                                              *)
LEMMA SubmitOrder ==
  ASSUME TxTypes, TxOrder, tx_queue # <<>>, tx_queue' = Tail(tx_queue),
         UNCHANGED <<tx_sent_queue, statuses, firmware, frame_cookie, Queueing>>,
         \/ UNCHANGED urbs
         \/ urbs' = Append(urbs, [frame |-> Head(tx_queue), received |-> FALSE])
  PROVE  TxOrder'
<1> DEFINE q == tx_sent_queue
           h == Head(tx_queue)
<1>1. /\ tx_queue \in Seq(Frames) /\ Len(tx_queue) \in Nat \ {0}
      /\ DOMAIN tx_queue = 1 .. Len(tx_queue)
      /\ DOMAIN tx_queue' = 1 .. Len(tx_queue) - 1
      /\ \A n \in 1 .. Len(tx_queue) - 1 : tx_queue'[n] = tx_queue[n + 1]
      /\ h = tx_queue[1] /\ h \in Frames
  BY Popped DEF TxTypes
<1>2. h \in Submitting /\ Submitting' \subseteq Submitting
  BY <1>1 DEF Submitting, Tx!Elems
<1>3. \A f \in Submitting' : Before(q, h, f)
  BY <1>1 DEF TxOrder, Sorted, Submitting, Tx!Elems
<1>4. \A i, j \in DOMAIN tx_queue' : i < j => Before(q, tx_queue'[i], tx_queue'[j])
  BY <1>1 DEF TxOrder, Sorted
<1>5. Ahead(q, Sending, {h})
  BY <1>2 DEF TxOrder, Staged, Ahead
<1> HIDE DEF h
<1>6. /\ Sending' \subseteq Sending \union {h}
      /\ \A i, j \in DOMAIN urbs' : i < j /\ ~urbs'[i].received /\ ~urbs'[j].received
                                      => Before(q, urbs'[i].frame, urbs'[j].frame)
  <2>1. CASE UNCHANGED urbs
    BY <2>1 DEF TxOrder, Sorted, Sending
  <2>2. CASE urbs' = Append(urbs, [frame |-> h, received |-> FALSE])
    <3> DEFINE u == [frame |-> h, received |-> FALSE]
    <3>1. u \in Urbs /\ u.frame = h
      BY <1>1 DEF Urbs
    <3> HIDE DEF u
    <3>2. /\ urbs \in Seq(Urbs) /\ Len(urbs) \in Nat /\ DOMAIN urbs = 1 .. Len(urbs)
          /\ DOMAIN urbs' = 1 .. Len(urbs) + 1
          /\ \A n \in 1 .. Len(urbs) : urbs'[n] = urbs[n]
          /\ urbs'[Len(urbs) + 1] = u
      BY <2>2, <3>1, Pushed DEF TxTypes, u
    <3>3. Sending' \subseteq Sending \union {h}
      BY <3>1, <3>2 DEF Sending
    <3>4. ASSUME NEW i \in DOMAIN urbs', NEW j \in DOMAIN urbs', i < j,
                 ~urbs'[i].received, ~urbs'[j].received
          PROVE  Before(q, urbs'[i].frame, urbs'[j].frame)
      <4>1. i \in DOMAIN urbs /\ urbs'[i] = urbs[i]
        BY <3>2, <3>4
      <4>2. CASE j \in DOMAIN urbs
        BY <3>2, <3>4, <4>1, <4>2 DEF TxOrder, Sorted
      <4>3. CASE j \notin DOMAIN urbs
        <5>1. urbs'[j].frame = h
          BY <3>1, <3>2, <4>3
        <5>2. urbs[i].frame \in Sending
          BY <3>4, <4>1 DEF Sending
        <5>3. QED
          BY <1>5, <4>1, <5>1, <5>2 DEF Ahead
      <4>4. QED
        BY <4>2, <4>3
    <3>5. QED
      BY <3>3, <3>4
  <2>3. QED
    BY <2>1, <2>2 DEF h
<1>7. Sorted(q)'
  BY <1>4, <1>6 DEF TxOrder, Sorted
<1>8. Staged(q)'
  <2>1. UNCHANGED <<Reported, With, Queueing, q>>
    BY DEF Reported, With
  <2>2. Sending' \union Submitting' \subseteq Sending \union Submitting
    BY <1>2, <1>6
  <2>3. Ahead(q, Reported, With \union Sending' \union Submitting' \union Queueing)
    BY <2>2 DEF TxOrder, Staged, Ahead
  <2>4. Ahead(q, With, Sending' \union Submitting' \union Queueing)
    BY <2>2 DEF TxOrder, Staged, Ahead
  <2>5. Ahead(q, Sending', Submitting' \union Queueing)
    BY <1>2, <1>3, <1>6 DEF TxOrder, Staged, Ahead
  <2>6. Ahead(q, Submitting', Queueing)
    BY <1>2 DEF TxOrder, Staged, Ahead
  <2>7. Reported \union With \union Sending' \union Submitting' \union Queueing \subseteq Tx!Elems(q)
    BY <2>2 DEF TxOrder, Staged
  <2>8. QED
    BY <2>1, <2>3, <2>4, <2>5, <2>6, <2>7 DEF Staged, Ahead
<1>9. Once' /\ OwnCookies'
  BY DEF TxOrder, Once, OwnCookies
<1>10. QED
  BY <1>7, <1>8, <1>9 DEF TxOrder

LEMMA PendingOrder ==
  ASSUME TxTypes, TxOrder, Tx!TxPending,
         UNCHANGED <<tx_sent_queue, statuses, firmware, frame_cookie, Queueing>>
  PROVE  TxOrder'
<1>1. CASE UNCHANGED <<ref, tx_queue, tx_queue_len, urbs, failed>>
  BY <1>1, OrderSame
<1>2. CASE tx_queue # <<>> /\ Tx!Submit
  BY <1>2, SubmitOrder DEF Tx!Submit
<1>3. CASE UNCHANGED <<tx_queue, ref, urbs>>
  BY <1>3, OrderSame
<1>4. CASE tx_queue # <<>> /\ tx_queue' = Tail(tx_queue) /\ UNCHANGED urbs
  BY <1>4, SubmitOrder
<1>5. QED
  BY <1>1, <1>2, <1>3, <1>4, PendingCases

LEMMA QueueOrder ==
  ASSUME TxTypes, TxOrder, Tx!QueueFrame, pc = "sent" => cur \notin Tx!Elems(tx_sent_queue)
  PROVE  TxOrder'
<1> DEFINE q == tx_sent_queue
<1>1. /\ cur \in Frames /\ cur' = cur
      /\ UNCHANGED <<statuses, firmware, urbs, frame_cookie>>
      /\ UNCHANGED <<Reported, With, Sending>>
  BY DEF Tx!QueueFrame, Tx!Queue, TxTypes, Tx!device, Reported, With, Sending
<1>2. CASE pc = "sent" /\ pc' = "queue" /\ q' = Append(q, cur) /\ UNCHANGED tx_queue
  <2>1. /\ \A f, g : Before(q, f, g) => Before(q', f, g)
        /\ \A f \in Tx!Elems(q) : Before(q', f, cur)
        /\ Tx!Elems(q') = Tx!Elems(q) \union {cur}
    BY <1>1, <1>2, BeforeMore DEF TxTypes
  <2>2. Queueing = {} /\ Queueing' = {cur} /\ UNCHANGED Submitting
    BY <1>1, <1>2 DEF Queueing, Submitting, Tx!Elems
  <2>3. Sorted(q)'
    BY <1>1, <1>2, <2>1 DEF TxOrder, Sorted
  <2>4. \A f \in Reported \union With \union Sending \union Submitting : Before(q', f, cur)
    BY <2>1 DEF TxOrder, Staged
  <2>5. Staged(q)'
    <3>1. \A X, Y : Ahead(q, X, Y) => Ahead(q', X, Y)
      BY <2>1 DEF Ahead
    <3>2. /\ Ahead(q', Reported, With \union Sending \union Submitting)
          /\ Ahead(q', With, Sending \union Submitting) /\ Ahead(q', Sending, Submitting)
      BY <2>1 DEF Ahead, TxOrder, Staged
    <3>3. /\ Ahead(q', Reported, With \union Sending \union Submitting \union {cur})
          /\ Ahead(q', With, Sending \union Submitting \union {cur})
          /\ Ahead(q', Sending, Submitting \union {cur})
          /\ Ahead(q', Submitting, {cur})
      BY <2>4, <3>2 DEF Ahead
    <3>4. Reported \union With \union Sending \union Submitting \union {cur} \subseteq Tx!Elems(q')
      BY <2>1 DEF TxOrder, Staged
    <3>5. QED
      BY <1>1, <2>2, <3>3, <3>4 DEF Staged, Ahead
  <2>6. Once'
    <3>1. /\ q \in Seq(Frames) /\ Len(q) \in Nat /\ DOMAIN q = 1 .. Len(q)
          /\ DOMAIN q' = 1 .. Len(q) + 1
          /\ \A n \in 1 .. Len(q) : q'[n] = q[n]
          /\ q'[Len(q) + 1] = cur
      BY <1>1, <1>2, Pushed DEF TxTypes
    <3>2. \A n \in 1 .. Len(q) : q[n] # cur
      BY <1>2, <3>1 DEF Tx!Elems
    <3>3. \A i, j \in 1 .. Len(q) : i # j => q[i] # q[j]
      BY <3>1 DEF TxOrder, Once
    <3>4. QED
      BY <3>1, <3>2, <3>3 DEF Once
  <2>7. OwnCookies'
    BY <1>1 DEF TxOrder, OwnCookies
  <2>8. QED
    BY <2>3, <2>5, <2>6, <2>7 DEF TxOrder
<1>3. CASE pc = "queue" /\ pc' = "kick" /\ tx_queue' = Append(tx_queue, cur) /\ UNCHANGED q
  <2>1. Queueing = {cur} /\ Queueing' = {}
    BY <1>3 DEF Queueing
  <2>2. /\ tx_queue \in Seq(Frames) /\ Len(tx_queue) \in Nat
        /\ DOMAIN tx_queue = 1 .. Len(tx_queue)
        /\ DOMAIN tx_queue' = 1 .. Len(tx_queue) + 1
        /\ \A n \in 1 .. Len(tx_queue) : tx_queue'[n] = tx_queue[n]
        /\ tx_queue'[Len(tx_queue) + 1] = cur
    BY <1>1, <1>3, Pushed DEF TxTypes
  <2>3. Submitting' = Submitting \union {cur}
    BY <2>2 DEF Submitting, Tx!Elems
  <2>4. \A n \in 1 .. Len(tx_queue) : Before(q, tx_queue[n], cur)
    BY <2>1, <2>2 DEF TxOrder, Staged, Ahead, Submitting, Tx!Elems
  <2>5. \A i, j \in DOMAIN tx_queue' : i < j => Before(q, tx_queue'[i], tx_queue'[j])
    BY <2>2, <2>4 DEF TxOrder, Sorted
  <2>6. Sorted(q)'
    BY <1>1, <1>3, <2>5 DEF TxOrder, Sorted
  <2>7. Staged(q)'
    BY <1>1, <1>3, <2>1, <2>3 DEF TxOrder, Staged, Ahead
  <2>8. QED
    BY <1>1, <1>3, <2>6, <2>7 DEF TxOrder, Once, OwnCookies
<1>4. QED
  BY <1>2, <1>3 DEF Tx!QueueFrame, Tx!Queue

(* The device receives the first transfer it has not.                      *)
LEMMA ReceiveOrder ==
  ASSUME TxTypes, TxOrder, Tx!Receive
  PROVE  TxOrder'
<1> DEFINE q == tx_sent_queue
<1>1. PICK i \in DOMAIN urbs :
           /\ ~urbs[i].received
           /\ \A j \in 1 .. i - 1 : urbs[j].received
           /\ urbs' = [urbs EXCEPT ![i].received = TRUE]
           /\ firmware' = Append(firmware, [frame |-> urbs[i].frame,
                                            cookie |-> frame_cookie[urbs[i].frame]])
           /\ UNCHANGED <<tx_sent_queue, statuses, tx_queue, frame_cookie, pc, cur>>
  BY DEF Tx!Receive, Tx!sender
<1> DEFINE f == urbs[i].frame
           r == [frame |-> f, cookie |-> frame_cookie[f]]
<1>2. urbs \in Seq(Urbs) /\ i \in 1 .. Len(urbs) /\ Len(urbs) \in Nat /\ urbs[i] \in Urbs
  BY LenProperties DEF TxTypes
<1>3. f \in Frames /\ f \in Sending
  BY <1>1, <1>2 DEF Urbs, Sending
<1>4. r \in Reports /\ r.frame = f /\ r.cookie = frame_cookie[f]
  BY <1>3 DEF Reports, TxTypes
<1>5. /\ DOMAIN urbs' = DOMAIN urbs
      /\ \A j \in DOMAIN urbs : j # i => urbs'[j] = urbs[j]
      /\ urbs'[i].received
  BY <1>1, <1>2 DEF Urbs
<1>6. /\ firmware \in Seq(Reports) /\ Len(firmware) \in Nat
      /\ DOMAIN firmware = 1 .. Len(firmware)
      /\ DOMAIN firmware' = 1 .. Len(firmware) + 1
      /\ \A n \in 1 .. Len(firmware) : firmware'[n] = firmware[n]
      /\ firmware'[Len(firmware) + 1] = r
  <2> HIDE DEF r
  <2>1. firmware' = Append(firmware, r)
    BY <1>1 DEF r
  <2>2. QED
    BY <1>4, <2>1, Pushed DEF TxTypes
<1> HIDE DEF r
<1>7. With' = With \union {f}
  BY <1>4, <1>6 DEF With
<1>8. UNCHANGED <<Reported, Submitting, Queueing, q>>
  BY <1>1 DEF Reported, Submitting, Queueing
<1>9. Sending' \subseteq Sending /\ \A g \in Sending' : Before(q, f, g)
  <2> SUFFICES ASSUME NEW j \in DOMAIN urbs, ~urbs'[j].received
               PROVE  urbs'[j].frame \in Sending /\ Before(q, f, urbs'[j].frame)
    BY <1>5 DEF Sending
  <2>1. j # i /\ urbs'[j] = urbs[j] /\ ~urbs[j].received
    BY <1>5
  <2>2. i < j
    BY <1>1, <1>2, <2>1
  <2>3. Before(q, urbs[i].frame, urbs[j].frame)
    BY <1>1, <2>1, <2>2 DEF TxOrder, Sorted
  <2>4. QED
    BY <2>1, <2>3 DEF Sending
<1> HIDE DEF f
<1>10. Sorted(q)'
  <2>1. ASSUME NEW k \in DOMAIN firmware', NEW l \in DOMAIN firmware', k < l
        PROVE  Before(q, firmware'[k].frame, firmware'[l].frame)
    <3>1. k \in 1 .. Len(firmware) /\ firmware'[k] = firmware[k]
      BY <1>6, <2>1
    <3>2. CASE l \in 1 .. Len(firmware)
      BY <1>6, <2>1, <3>1, <3>2 DEF TxOrder, Sorted
    <3>3. CASE l = Len(firmware) + 1
      <4>1. firmware[k].frame \in With
        BY <1>6, <3>1 DEF With
      <4>2. Before(q, firmware[k].frame, f)
        BY <1>3, <4>1 DEF TxOrder, Staged, Ahead
      <4>3. QED
        BY <1>4, <1>6, <3>1, <3>3, <4>2
    <3>4. QED
      BY <1>6, <3>2, <3>3
  <2>2. \A k, l \in DOMAIN urbs' : k < l /\ ~urbs'[k].received /\ ~urbs'[l].received
                                     => Before(q, urbs'[k].frame, urbs'[l].frame)
    <3>1. \A k \in DOMAIN urbs' : ~urbs'[k].received => urbs'[k] = urbs[k]
      BY <1>5
    <3>2. QED
      BY <1>5, <3>1 DEF TxOrder, Sorted
  <2>3. QED
    BY <1>1, <2>1, <2>2 DEF TxOrder, Sorted
<1>11. Staged(q)'
  <2>1. Ahead(q, Reported, With \union {f} \union Sending' \union Submitting \union Queueing)
    BY <1>3, <1>9 DEF TxOrder, Staged, Ahead
  <2>2. Ahead(q, With \union {f}, Sending' \union Submitting \union Queueing)
    BY <1>3, <1>9 DEF TxOrder, Staged, Ahead
  <2>3. Ahead(q, Sending', Submitting \union Queueing) /\ Ahead(q, Submitting, Queueing)
    BY <1>9 DEF TxOrder, Staged, Ahead
  <2>4. Reported \union With \union {f} \union Sending' \union Submitting \union Queueing
          \subseteq Tx!Elems(q)
    BY <1>3, <1>9 DEF TxOrder, Staged
  <2>5. QED
    BY <1>7, <1>8, <2>1, <2>2, <2>3, <2>4 DEF Staged, Ahead
<1>12. Once'
  BY <1>1 DEF TxOrder, Once
<1>13. OwnCookies'
  <2>1. \A n \in DOMAIN firmware' : firmware'[n].cookie = frame_cookie[firmware'[n].frame]
    BY <1>4, <1>6 DEF TxOrder, OwnCookies
  <2>2. QED
    BY <1>1, <2>1 DEF TxOrder, OwnCookies
<1>14. QED
  BY <1>10, <1>11, <1>12, <1>13 DEF TxOrder

(* The firmware reports its first frame.                                   *)
LEMMA ReportOrder ==
  ASSUME TxTypes, TxOrder, Tx!Report
  PROVE  TxOrder'
<1> DEFINE q == tx_sent_queue
           h == Head(firmware)
<1>1. /\ firmware # <<>> /\ firmware' = Tail(firmware) /\ statuses' = Append(statuses, h)
      /\ UNCHANGED <<tx_sent_queue, tx_queue, urbs, frame_cookie, pc, cur>>
  BY DEF Tx!Report, Tx!sender
<1>2. /\ firmware \in Seq(Reports) /\ Len(firmware) \in Nat \ {0}
      /\ DOMAIN firmware = 1 .. Len(firmware)
      /\ DOMAIN firmware' = 1 .. Len(firmware) - 1
      /\ \A n \in 1 .. Len(firmware) - 1 : firmware'[n] = firmware[n + 1]
      /\ h = firmware[1] /\ h \in Reports
  BY <1>1, Popped DEF TxTypes
<1>3. /\ statuses \in Seq(Reports) /\ Len(statuses) \in Nat
      /\ DOMAIN statuses = 1 .. Len(statuses)
      /\ DOMAIN statuses' = 1 .. Len(statuses) + 1
      /\ \A n \in 1 .. Len(statuses) : statuses'[n] = statuses[n]
      /\ statuses'[Len(statuses) + 1] = h
  BY <1>1, <1>2, Pushed DEF TxTypes
<1>4. h.frame \in With /\ With' \subseteq With /\ h.cookie = frame_cookie[h.frame]
  <2>1. 1 \in DOMAIN firmware
    BY <1>2
  <2>2. h.frame \in With /\ h.cookie = frame_cookie[h.frame]
    BY <1>2, <2>1 DEF With, TxOrder, OwnCookies
  <2>3. \A n \in DOMAIN firmware' : firmware'[n] = firmware[n + 1] /\ n + 1 \in DOMAIN firmware
    BY <1>2
  <2>4. With' \subseteq With
    BY <2>3 DEF With
  <2>5. QED
    BY <2>2, <2>4
<1>5. \A k, l \in DOMAIN firmware : k < l => Before(q, firmware[k].frame, firmware[l].frame)
  BY DEF TxOrder, Sorted
<1> DEFINE Later(n) == firmware'[n] = firmware[n + 1] /\ n + 1 \in DOMAIN firmware
<1>6. \A n \in DOMAIN firmware' : Later(n) /\ n \in Nat
  BY <1>2
<1>7. \A g \in With' : Before(q, h.frame, g)
  <2>1. ASSUME NEW n \in DOMAIN firmware'
        PROVE  Before(q, h.frame, firmware'[n].frame)
    <3>1. Later(n) /\ 1 \in DOMAIN firmware /\ 1 < n + 1
      BY <1>2, <1>6
    <3>2. QED
      BY <1>2, <1>5, <3>1
  <2>2. QED
    BY <2>1 DEF With
<1>8. \A k, l \in DOMAIN firmware' : k < l => Before(q, firmware'[k].frame, firmware'[l].frame)
  <2>1. ASSUME NEW k \in DOMAIN firmware', NEW l \in DOMAIN firmware', k < l
        PROVE  Before(q, firmware'[k].frame, firmware'[l].frame)
    <3>1. Later(k) /\ Later(l) /\ k + 1 < l + 1
      BY <1>6, <2>1
    <3>2. QED
      BY <1>5, <3>1
  <2>2. QED
    BY <2>1
<1> HIDE DEF Later
<1> HIDE DEF h
<1>9. Reported' = Reported \union {h.frame}
  BY <1>3 DEF Reported
<1>10. UNCHANGED <<Sending, Submitting, Queueing, q>>
  BY <1>1 DEF Sending, Submitting, Queueing
<1>11. Sorted(q)'
  <2>1. ASSUME NEW k \in DOMAIN statuses', NEW l \in DOMAIN statuses', k < l
        PROVE  Before(q, statuses'[k].frame, statuses'[l].frame)
    <3>1. k \in 1 .. Len(statuses) /\ statuses'[k] = statuses[k]
      BY <1>3, <2>1
    <3>2. CASE l \in 1 .. Len(statuses)
      BY <1>3, <2>1, <3>1, <3>2 DEF TxOrder, Sorted
    <3>3. CASE l = Len(statuses) + 1
      <4>1. statuses[k].frame \in Reported
        BY <1>3, <3>1 DEF Reported
      <4>2. Before(q, statuses[k].frame, h.frame)
        BY <1>4, <4>1 DEF TxOrder, Staged, Ahead
      <4>3. QED
        BY <1>3, <3>1, <3>3, <4>2
    <3>4. QED
      BY <1>3, <3>2, <3>3
  <2>2. QED
    BY <1>1, <1>8, <2>1 DEF TxOrder, Sorted
<1>12. Staged(q)'
  <2>1. Ahead(q, Reported \union {h.frame}, With' \union Sending \union Submitting \union Queueing)
    BY <1>4, <1>7 DEF TxOrder, Staged, Ahead
  <2>2. /\ Ahead(q, With', Sending \union Submitting \union Queueing)
        /\ Ahead(q, Sending, Submitting \union Queueing) /\ Ahead(q, Submitting, Queueing)
    BY <1>4 DEF TxOrder, Staged, Ahead
  <2>3. Reported \union {h.frame} \union With' \union Sending \union Submitting \union Queueing
          \subseteq Tx!Elems(q)
    BY <1>4 DEF TxOrder, Staged
  <2>4. QED
    BY <1>9, <1>10, <2>1, <2>2, <2>3 DEF Staged, Ahead
<1>13. Once'
  BY <1>1 DEF TxOrder, Once
<1>14. OwnCookies'
  <2>1. \A n \in DOMAIN firmware' : firmware'[n].cookie = frame_cookie[firmware'[n].frame]
    BY <1>2 DEF TxOrder, OwnCookies
  <2>2. \A n \in DOMAIN statuses' : statuses'[n].cookie = frame_cookie[statuses'[n].frame]
    BY <1>3, <1>4 DEF TxOrder, OwnCookies
  <2>3. QED
    BY <1>1, <2>1, <2>2 DEF OwnCookies
<1>15. QED
  BY <1>11, <1>12, <1>13, <1>14 DEF TxOrder

(* The first transfer is complete, received or not.                        *)
LEMMA BulkOrder ==
  ASSUME TxTypes, TxOrder, Tx!BulkCb
  PROVE  TxOrder'
<1> DEFINE q == tx_sent_queue
<1>1. /\ urbs # <<>> /\ urbs' = Tail(urbs)
      /\ UNCHANGED <<tx_sent_queue, tx_queue, firmware, statuses, frame_cookie, pc, cur>>
  BY DEF Tx!BulkCb, Tx!sender
<1>2. /\ urbs \in Seq(Urbs) /\ Len(urbs) \in Nat \ {0} /\ DOMAIN urbs = 1 .. Len(urbs)
      /\ DOMAIN urbs' = 1 .. Len(urbs) - 1
      /\ \A n \in 1 .. Len(urbs) - 1 : urbs'[n] = urbs[n + 1]
  BY <1>1, Popped DEF TxTypes
<1>3. Sending' \subseteq Sending
  <2>1. \A n \in DOMAIN urbs' : n + 1 \in DOMAIN urbs /\ urbs'[n] = urbs[n + 1]
    BY <1>2
  <2>2. QED
    BY <2>1 DEF Sending
<1>4. ASSUME NEW k \in DOMAIN urbs', NEW l \in DOMAIN urbs', k < l,
             ~urbs'[k].received, ~urbs'[l].received
      PROVE  Before(q, urbs'[k].frame, urbs'[l].frame)
  <2>1. /\ k + 1 \in DOMAIN urbs /\ l + 1 \in DOMAIN urbs /\ k + 1 < l + 1
        /\ urbs'[k] = urbs[k + 1] /\ urbs'[l] = urbs[l + 1]
    BY <1>2, <1>4
  <2>2. QED
    BY <1>4, <2>1 DEF TxOrder, Sorted
<1>5. UNCHANGED <<Reported, With, Submitting, Queueing, q>>
  BY <1>1 DEF Reported, With, Submitting, Queueing
<1>6. Sorted(q)'
  BY <1>1, <1>4 DEF TxOrder, Sorted
<1>7. Staged(q)'
  <2>1. /\ Ahead(q, Reported, With \union Sending' \union Submitting \union Queueing)
        /\ Ahead(q, With, Sending' \union Submitting \union Queueing)
        /\ Ahead(q, Sending', Submitting \union Queueing) /\ Ahead(q, Submitting, Queueing)
        /\ Reported \union With \union Sending' \union Submitting \union Queueing
             \subseteq Tx!Elems(q)
    BY <1>3 DEF TxOrder, Staged, Ahead
  <2>2. QED
    BY <1>5, <2>1 DEF Staged, Ahead
<1>8. QED
  BY <1>1, <1>6, <1>7 DEF TxOrder, Once, OwnCookies

(* A status is taken, and with it the first frame that has its cookie.     *)
LEMMA FindOrder ==
  ASSUME TxTypes, TxOrder, Tx!FindFrame
  PROVE  /\ TxOrder'
         /\ \E i \in DOMAIN tx_sent_queue : Found(i)
<1> DEFINE q == tx_sent_queue
           h == Head(statuses)
<1>1. /\ statuses # <<>> /\ statuses' = Tail(statuses)
      /\ UNCHANGED <<tx_queue, urbs, firmware, frame_cookie, pc, cur>>
  BY DEF Tx!FindFrame, Tx!sender
<1>2. /\ statuses \in Seq(Reports) /\ Len(statuses) \in Nat \ {0}
      /\ DOMAIN statuses = 1 .. Len(statuses)
      /\ DOMAIN statuses' = 1 .. Len(statuses) - 1
      /\ \A n \in 1 .. Len(statuses) - 1 : statuses'[n] = statuses[n + 1]
      /\ h = statuses[1]
  BY <1>1, Popped DEF TxTypes
<1>3. h.frame \in Reported /\ h.cookie = frame_cookie[h.frame]
  <2>1. 1 \in DOMAIN statuses
    BY <1>2
  <2>2. QED
    BY <1>2, <2>1 DEF Reported, TxOrder, OwnCookies
<1>4. /\ Reported' \subseteq Reported
      /\ \A g \in Reported' : Before(q, h.frame, g)
      /\ \A k, l \in DOMAIN statuses' : k < l => Before(q, statuses'[k].frame, statuses'[l].frame)
  <2>1. \A n \in DOMAIN statuses' : /\ statuses'[n] = statuses[n + 1]
                                    /\ n + 1 \in DOMAIN statuses /\ 1 < n + 1
    BY <1>2
  <2>2. 1 \in DOMAIN statuses
    BY <1>2
  <2>3. Reported' \subseteq Reported
    BY <2>1 DEF Reported
  <2>4. \A g \in Reported' : Before(q, h.frame, g)
    BY <1>2, <2>1, <2>2 DEF Reported, TxOrder, Sorted
  <2>5. \A k, l \in DOMAIN statuses' : k < l => Before(q, statuses'[k].frame, statuses'[l].frame)
    BY <1>2, <2>1 DEF TxOrder, Sorted
  <2>6. QED
    BY <2>3, <2>4, <2>5
<1>5. OwnCookies'
  <2>1. \A n \in DOMAIN statuses' : statuses'[n] = statuses[n + 1] /\ n + 1 \in DOMAIN statuses
    BY <1>2
  <2>2. \A n \in DOMAIN statuses' : statuses'[n].cookie = frame_cookie[statuses'[n].frame]
    BY <2>1 DEF TxOrder, OwnCookies
  <2>3. QED
    BY <1>1, <2>2 DEF TxOrder, OwnCookies
<1> HIDE DEF h
<1>6. PICK p \in DOMAIN q : q[p] = h.frame
  BY <1>3 DEF TxOrder, Staged, Tx!Elems
<1>7. PICK i \in DOMAIN q : Found(i)
  BY <1>1, <1>3, <1>6, FindCases DEF h
<1>8. i <= p /\ q' = Tx!RemoveAt(q, i)
  BY <1>3, <1>6, <1>7 DEF Found, h
<1>9. q \in Seq(Frames) /\ \A k \in DOMAIN q : k \in Nat
  <2>1. q \in Seq(Frames)
    BY DEF TxTypes
  <2>2. DOMAIN q = 1 .. Len(q)
    BY <2>1, LenProperties
  <2>3. QED
    BY <2>1, <2>2
(* What is behind the frame reported is not what was found.                *)
<1>10. ASSUME NEW g, Before(q, h.frame, g) PROVE g # q[i]
  <2>1. PICK k, l \in DOMAIN q : k < l /\ q[k] = h.frame /\ q[l] = g
    BY <1>10 DEF Before
  <2>2. k = p
    BY <1>6, <2>1 DEF TxOrder, Once
  <2>3. l # i
    BY <1>8, <1>9, <2>1, <2>2
  <2>4. QED
    BY <2>1, <2>3 DEF TxOrder, Once
<1> DEFINE Left == Reported' \union With \union Sending \union Submitting \union Queueing
<1>11. \A g \in Left : g # q[i]
  <2>1. \A g \in Left : Before(q, h.frame, g)
    BY <1>3, <1>4 DEF TxOrder, Staged, Ahead
  <2>2. QED
    BY <1>10, <2>1
<1>12. /\ \A f, g : Before(q, f, g) /\ f # q[i] /\ g # q[i] => Before(q', f, g)
       /\ \A f \in Tx!Elems(q) : f # q[i] => f \in Tx!Elems(q')
  BY <1>8, <1>9, BeforeLess
<1>13. \A f, g \in Left : Before(q, f, g) => Before(q', f, g)
  BY <1>11, <1>12
<1>14. UNCHANGED <<With, Sending, Submitting, Queueing>>
  BY <1>1 DEF With, Sending, Submitting, Queueing
<1>15. Sorted(q)'
  <2>1. \A k, l \in DOMAIN statuses' : k < l => Before(q', statuses'[k].frame, statuses'[l].frame)
    <3>1. \A k \in DOMAIN statuses' : statuses'[k].frame \in Left
      BY DEF Reported
    <3>2. QED
      BY <1>4, <1>13, <3>1
  <2>2. \A k, l \in DOMAIN firmware : k < l => Before(q', firmware[k].frame, firmware[l].frame)
    <3>1. \A k \in DOMAIN firmware : firmware[k].frame \in Left
      BY DEF With
    <3>2. \A k, l \in DOMAIN firmware : k < l => Before(q, firmware[k].frame, firmware[l].frame)
      BY DEF TxOrder, Sorted
    <3>3. QED
      BY <1>13, <3>1, <3>2
  <2>3. \A k, l \in DOMAIN urbs : k < l /\ ~urbs[k].received /\ ~urbs[l].received
                                    => Before(q', urbs[k].frame, urbs[l].frame)
    <3>1. \A k \in DOMAIN urbs : ~urbs[k].received => urbs[k].frame \in Left
      BY DEF Sending
    <3>2. \A k, l \in DOMAIN urbs : k < l /\ ~urbs[k].received /\ ~urbs[l].received
                                      => Before(q, urbs[k].frame, urbs[l].frame)
      BY DEF TxOrder, Sorted
    <3>3. QED
      BY <1>13, <3>1, <3>2
  <2>4. \A k, l \in DOMAIN tx_queue : k < l => Before(q', tx_queue[k], tx_queue[l])
    <3>1. \A k \in DOMAIN tx_queue : tx_queue[k] \in Left
      BY DEF Submitting, Tx!Elems
    <3>2. \A k, l \in DOMAIN tx_queue : k < l => Before(q, tx_queue[k], tx_queue[l])
      BY DEF TxOrder, Sorted
    <3>3. QED
      BY <1>13, <3>1, <3>2
  <2>5. QED
    BY <1>1, <2>1, <2>2, <2>3, <2>4 DEF Sorted
<1>16. Staged(q)'
  <2>1. \A X, Y \in SUBSET Left : Ahead(q, X, Y) => Ahead(q', X, Y)
    BY <1>13 DEF Ahead
  <2>2. Ahead(q', Reported', With \union Sending \union Submitting \union Queueing)
    <3>1. Ahead(q, Reported', With \union Sending \union Submitting \union Queueing)
      BY <1>4 DEF TxOrder, Staged, Ahead
    <3>2. QED
      BY <2>1, <3>1
  <2>3. Ahead(q', With, Sending \union Submitting \union Queueing)
    BY <2>1 DEF TxOrder, Staged
  <2>4. Ahead(q', Sending, Submitting \union Queueing) /\ Ahead(q', Submitting, Queueing)
    BY <2>1 DEF TxOrder, Staged
  <2>5. Left \subseteq Tx!Elems(q')
    BY <1>4, <1>11, <1>12 DEF TxOrder, Staged
  <2>6. QED
    BY <1>14, <2>2, <2>3, <2>4, <2>5 DEF Staged, Ahead
<1>17. Once'
  <2>1. i \in 1 .. Len(q) /\ DOMAIN q = 1 .. Len(q) /\ Len(q) \in Nat
    BY <1>9, LenProperties
  <2>2. /\ DOMAIN q' = 1 .. Len(q) - 1
        /\ \A k \in 1 .. i - 1 : q'[k] = q[k]
        /\ \A k \in i .. Len(q) - 1 : q'[k] = q[k + 1]
    <3> DEFINE r == Tx!RemoveAt(q, i)
    <3>1. /\ r \in Seq(Frames) /\ Len(r) = Len(q) - 1
          /\ \A k \in 1 .. i - 1 : r[k] = q[k]
          /\ \A k \in i .. Len(q) - 1 : r[k] = q[k + 1]
      BY <1>9, <2>1, Removed
    <3> HIDE DEF r
    <3>2. q' = r
      BY <1>8 DEF r
    <3>3. QED
      BY <3>1, <3>2
  <2> DEFINE from(k) == IF k < i THEN k ELSE k + 1
  <2>3. ASSUME NEW k \in DOMAIN q' PROVE from(k) \in DOMAIN q /\ q'[k] = q[from(k)]
    BY <2>1, <2>2
  <2>4. \A k, l \in DOMAIN q' : k # l => from(k) # from(l)
    BY <2>1, <2>2
  <2> HIDE DEF from
  <2>5. QED
    BY <2>3, <2>4 DEF TxOrder, Once
<1>18. QED
  BY <1>5, <1>7, <1>15, <1>16, <1>17 DEF TxOrder

(* Every step keeps the order.  What stands in tx_sent_queue keeps its     *)
(* cookie, for a frame gets one before it is queued.                       *)
LEMMA OrderKept ==
  ASSUME TxTypes, TxOrder, TxApart, [Tx!Next]_txVars, evpc # "gone", evpc' # "gone"
  PROVE  TxOrder'
<1> USE DEF Tx!memory, Tx!device, Tx!sender, Tx!event, Tx!history
<1>1. CASE Tx!AllocDevMem
  <2>1. /\ pc = "tx" /\ cur \in Frames /\ pc' = "sent"
        /\ frame_cookie' = [frame_cookie EXCEPT ![cur] = cookie]
        /\ UNCHANGED <<tx_sent_queue, tx_queue, urbs, firmware, statuses>>
    BY <1>1 DEF Tx!AllocDevMem, TxTypes
  <2>2. cur \notin Tx!Elems(tx_sent_queue)
    BY <2>1 DEF TxApart, Starting
  <2>3. \A f \in Tx!Elems(tx_sent_queue) : frame_cookie'[f] = frame_cookie[f]
    BY <2>1, <2>2 DEF TxTypes, Tx!Elems
  <2>4. Queueing = {} /\ Queueing' = {} /\ UNCHANGED <<Reported, With, Sending, Submitting>>
    BY <2>1 DEF Queueing, Reported, With, Sending, Submitting
  <2>5. OwnCookies'
    <3>1. \A n \in DOMAIN statuses : statuses[n].frame \in Tx!Elems(tx_sent_queue)
      BY DEF TxOrder, Staged, Reported
    <3>2. \A n \in DOMAIN firmware : firmware[n].frame \in Tx!Elems(tx_sent_queue)
      BY DEF TxOrder, Staged, With
    <3>3. QED
      BY <2>1, <2>3, <3>1, <3>2 DEF TxOrder, OwnCookies
  <2>6. Staged(tx_sent_queue)'
    BY <2>1, <2>4 DEF TxOrder, Staged, Ahead
  <2>7. QED
    BY <2>1, <2>5, <2>6 DEF TxOrder, Sorted, Once
<1>2. CASE Tx!QueueFrame
  <2>1. pc = "sent" => cur \in Frames /\ cur \notin Tx!Elems(tx_sent_queue)
    BY DEF TxTypes, TxApart, Starting
  <2>2. QED
    BY <1>2, <2>1, QueueOrder
<1>3. CASE Tx!SenderPending
  <2>1. pc = "kick" /\ pc' = "idle" /\ Queueing = Queueing'
    BY <1>3 DEF Tx!SenderPending, Queueing
  <2>2. QED
    BY <1>3, <2>1, PendingOrder DEF Tx!SenderPending
<1>4. CASE Tx!EventPending
  <2>1. UNCHANGED Queueing
    BY <1>4 DEF Tx!EventPending, Queueing
  <2>2. QED
    BY <1>4, <2>1, PendingOrder DEF Tx!EventPending, Tx!NextPending
<1>5. CASE Tx!Receive \/ Tx!Report \/ Tx!BulkCb \/ Tx!FindFrame
  BY <1>5, ReceiveOrder, ReportOrder, BulkOrder, FindOrder
<1>6. CASE \/ \E f \in Frames : Tx!AllocFrame(f)
           \/ Tx!Refuse \/ Tx!NoSpace \/ Tx!BulkFree \/ Tx!Feedback \/ UNCHANGED txVars
  <2>1. /\ UNCHANGED <<tx_sent_queue, statuses, firmware, urbs, tx_queue, frame_cookie>>
        /\ (UNCHANGED <<pc, cur>> \/ (pc # "queue" /\ pc' # "queue"))
    BY <1>6 DEF Tx!AllocFrame, Tx!Refuse, Tx!NoSpace, Tx!BulkFree, Tx!Feedback, txVars
  <2>2. UNCHANGED Queueing
    BY <2>1 DEF Queueing
  <2>3. QED
    BY <2>1, <2>2, OrderSame
<1>7. ~Tx!ZapQueues
  BY DEF Tx!ZapQueues
<1>8. ~Tx!KillQueue
  BY DEF Tx!KillQueue, TxTypes
<1>9. QED
  BY <1>1, <1>2, <1>3, <1>4, <1>5, <1>6, <1>7, <1>8 DEF Tx!Next
-----------------------------------------------------------------------------
(* The references.  What a frame is, before and after a step.              *)
LEMMA TxPlaces ==
  ASSUME TxTypes
  PROVE  /\ Tx!InFlight \subseteq Frames /\ Tx!Elems(tx_sent_queue) \subseteq Frames
         /\ Submitting \subseteq Frames
<1>1. ASSUME NEW i \in DOMAIN urbs PROVE urbs[i].frame \in Frames
  <2>1. urbs[i] \in Urbs
    BY DEF TxTypes
  <2>2. QED
    BY <2>1 DEF Urbs
<1>2. Tx!InFlight \subseteq Frames
  BY <1>1 DEF Tx!InFlight
<1>3. Tx!Elems(tx_sent_queue) \subseteq Frames
  BY DEF TxTypes, Tx!Elems
<1>4. Submitting \subseteq Frames
  BY DEF TxTypes, Tx!Elems, Submitting
<1>5. QED
  BY <1>2, <1>3, <1>4

(* What waits is in tx_sent_queue, and not with the sender any more.       *)
LEMMA WaitingIsSent ==
  ASSUME TxOrder, TxApart, NEW f \in Frames, f \in Queueing \union Submitting
  PROVE  f \in Tx!Elems(tx_sent_queue) /\ Owned(f) /\ ~Starting(f)
BY DEF TxOrder, Staged, TxApart, Owned, Tx!Reserved

LEMMA RefsSame ==
  ASSUME TxRefs, UNCHANGED <<ref, tx_sent_queue, tx_queue, urbs, pc, cur, evpc, evframe>>
  PROVE  TxRefs'
BY DEF TxRefs, Owned, Moving, Starting, Tx!Reserved, Tx!InFlight, Queueing, Submitting

(* A step that changes the references of one frame, or of none.            *)
LEMMA RefsStep ==
  ASSUME TxRefs, NEW f \in Frames,
         \A g \in Frames : g # f =>
           /\ ref'[g] = ref[g]
           /\ Owned(g)' => Owned(g)
           /\ Moving(g)' => Moving(g)
           /\ (Starting(g) \/ g \in Queueing \union Submitting)'
                => Starting(g) \/ g \in Queueing \union Submitting,
         /\ ref'[f] <= 2
         /\ (Owned(f) \/ Moving(f))' => ref'[f] >= 1
         /\ (Owned(f) /\ Moving(f))' => ref'[f] = 2
         /\ (Starting(f) \/ f \in Queueing \union Submitting)' => ref'[f] = 1
  PROVE  TxRefs'
<1> SUFFICES ASSUME NEW g \in Frames
             PROVE  /\ ref'[g] <= 2
                    /\ (Owned(g) \/ Moving(g))' => ref'[g] >= 1
                    /\ (Owned(g) /\ Moving(g))' => ref'[g] = 2
                    /\ (Starting(g) \/ g \in Queueing \union Submitting)' => ref'[g] = 1
  BY DEF TxRefs
<1>1. CASE g = f
  BY <1>1
<1>2. CASE g # f
  BY <1>2 DEF TxRefs
<1>3. QED
  BY <1>1, <1>2

(* A step that moves no reference: who holds a frame stays who held it.    *)
LEMMA HoldersSame ==
  ASSUME TxRefs, ref' = ref,
         \A g \in Frames :
           /\ Owned(g)' => Owned(g)
           /\ Moving(g)' => Moving(g)
           /\ (Starting(g) \/ g \in Queueing \union Submitting)'
                => Starting(g) \/ g \in Queueing \union Submitting
  PROVE  TxRefs'
BY DEF TxRefs

(* What carlusb_tx_pending does to them.  The frame it submits is in       *)
(* tx_sent_queue and in no other transfer, or two would hold it already.   *)
LEMMA PendingRefs ==
  ASSUME TxTypes, TxRefs, TxOrder, TxApart, Tx!TxPending,
         evpc' = "bulk" <=> evpc = "bulk", evpc' = "fb" <=> evpc = "fb",
         UNCHANGED <<tx_sent_queue, evframe, Tx!Reserved, Queueing>>,
         \A g \in Frames : Starting(g)' <=> Starting(g)
  PROVE  TxRefs' /\ TxApart'
<1>1. CASE UNCHANGED <<tx_queue, ref, urbs>>
  <2>1. UNCHANGED <<Tx!InFlight, Submitting>>
    BY <1>1 DEF Tx!InFlight, Submitting
  <2>2. TxRefs'
    BY <1>1, <2>1, HoldersSame DEF Owned, Moving
  <2>3. TxApart'
    BY <1>1, <2>1 DEF TxApart, TxTypes
  <2>4. QED
    BY <2>2, <2>3
<1>2. ASSUME tx_queue # <<>>, NEW h, h = Head(tx_queue),
             tx_queue' = Tail(tx_queue), ref' = [ref EXCEPT ![h] = @ + 1],
             \/ UNCHANGED urbs
             \/ urbs' = Append(urbs, [frame |-> h, received |-> FALSE])
      PROVE  TxRefs' /\ TxApart'
  <2>1. /\ tx_queue \in Seq(Frames) /\ Len(tx_queue) \in Nat \ {0}
        /\ DOMAIN tx_queue = 1 .. Len(tx_queue)
        /\ DOMAIN tx_queue' = 1 .. Len(tx_queue) - 1
        /\ \A n \in 1 .. Len(tx_queue) - 1 : tx_queue'[n] = tx_queue[n + 1]
        /\ h = tx_queue[1] /\ h \in Frames
    BY <1>2, Popped DEF TxTypes
  <2>2. h \in Submitting /\ Submitting' \subseteq Submitting
    <3>1. 1 \in DOMAIN tx_queue /\ \A n \in DOMAIN tx_queue' : n + 1 \in DOMAIN tx_queue
      BY <2>1
    <3>2. \A n \in DOMAIN tx_queue' : tx_queue'[n] = tx_queue[n + 1]
      BY <2>1
    <3>3. QED
      BY <2>1, <3>1, <3>2 DEF Submitting, Tx!Elems
  <2>3. h \notin Submitting'
    <3>1. \A n \in 1 .. Len(tx_queue) - 1 : Before(tx_sent_queue, h, tx_queue'[n])
      BY <2>1 DEF TxOrder, Sorted
    <3>2. \A n \in 1 .. Len(tx_queue) - 1 : h # tx_queue'[n]
      BY <3>1, BeforeIsAnother DEF TxOrder
    <3>3. QED
      BY <2>1, <3>2 DEF Submitting, Tx!Elems
  <2>4. h \notin Queueing
    <3>1. h \in Queueing => Before(tx_sent_queue, h, h)
      BY <2>2 DEF TxOrder, Staged, Ahead
    <3>2. QED
      BY <3>1, BeforeIsAnother DEF TxOrder
  <2>5. h \in Tx!Elems(tx_sent_queue) /\ Owned(h) /\ ~Starting(h)
    BY <2>1, <2>2, WaitingIsSent
  <2>6. ref[h] = 1 /\ ~Moving(h)
    BY <2>1, <2>2, <2>5 DEF TxRefs
  <2>7. /\ ref'[h] = 2
        /\ \A g \in Frames : g # h => ref'[g] = ref[g]
    BY <1>2, <2>1, <2>6 DEF TxTypes
  <2>8. h \notin Tx!InFlight
    BY <2>6 DEF Moving
  <2>9. /\ Tx!InFlight' \subseteq Tx!InFlight \union {h}
        /\ \A i, j \in DOMAIN urbs' : i # j => urbs'[i].frame # urbs'[j].frame
    <3>1. CASE UNCHANGED urbs
      BY <3>1 DEF Tx!InFlight, TxApart
    <3>2. CASE urbs' = Append(urbs, [frame |-> h, received |-> FALSE])
      <4> DEFINE u == [frame |-> h, received |-> FALSE]
      <4>1. u \in Urbs /\ u.frame = h
        BY <2>1 DEF Urbs
      <4> HIDE DEF u
      <4>2. /\ urbs \in Seq(Urbs) /\ Len(urbs) \in Nat /\ DOMAIN urbs = 1 .. Len(urbs)
            /\ DOMAIN urbs' = 1 .. Len(urbs) + 1
            /\ \A n \in 1 .. Len(urbs) : urbs'[n] = urbs[n]
            /\ urbs'[Len(urbs) + 1] = u
        BY <3>2, <4>1, Pushed DEF TxTypes, u
      <4>3. Tx!InFlight' \subseteq Tx!InFlight \union {h}
        BY <4>1, <4>2 DEF Tx!InFlight
      <4>4. \A n \in 1 .. Len(urbs) : urbs[n].frame # h
        BY <2>8, <4>2 DEF Tx!InFlight
      <4>5. \A i, j \in 1 .. Len(urbs) : i # j => urbs[i].frame # urbs[j].frame
        BY <4>2 DEF TxApart
      <4>6. \A i \in DOMAIN urbs' : /\ i \in 1 .. Len(urbs) => urbs'[i].frame = urbs[i].frame
                                    /\ i \notin 1 .. Len(urbs) => i = Len(urbs) + 1
        BY <4>2
      <4>7. urbs'[Len(urbs) + 1].frame = h
        BY <4>1, <4>2
      <4>8. \A i, j \in DOMAIN urbs' : i # j => urbs'[i].frame # urbs'[j].frame
        BY <4>4, <4>5, <4>6, <4>7
      <4>9. QED
        BY <4>3, <4>8
    <3>3. QED
      BY <1>2, <3>1, <3>2
  <2>10. TxRefs'
    <3>1. \A g \in Frames : g # h =>
            /\ Owned(g)' => Owned(g)
            /\ Moving(g)' => Moving(g)
            /\ (Starting(g) \/ g \in Queueing \union Submitting)'
                 => Starting(g) \/ g \in Queueing \union Submitting
      BY <2>2, <2>9 DEF Owned, Moving
    <3>2. ~(Starting(h) \/ h \in Queueing \union Submitting)'
      BY <2>1, <2>3, <2>4, <2>5
    <3>3. /\ ref'[h] <= 2
          /\ (Owned(h) \/ Moving(h))' => ref'[h] >= 1
          /\ (Owned(h) /\ Moving(h))' => ref'[h] = 2
      BY <2>7
    <3>4. QED
      BY <2>1, <2>7, <3>1, <3>2, <3>3, RefsStep
  <2>11. TxApart'
    <3>1. evpc = "bulk" => evframe # h
      BY <2>6 DEF Moving
    <3>2. evpc = "bulk" => evframe \notin Tx!InFlight'
      BY <2>9, <3>1 DEF TxApart
    <3>3. evpc = "fb" => evframe \notin Tx!Elems(tx_sent_queue) /\ ~Starting(evframe)
      BY DEF TxApart
    <3>4. evpc = "fb" => evframe \in Frames
      BY DEF TxTypes
    <3>5. QED
      BY <2>9, <3>2, <3>3, <3>4 DEF TxApart
  <2>12. QED
    BY <2>10, <2>11
<1>3. QED
  BY <1>1, <1>2, PendingCases DEF Tx!Submit

LEMMA AllocRefs ==
  ASSUME TxTypes, TxRefs, TxApart, NEW f \in Frames, Tx!AllocFrame(f)
  PROVE  TxRefs' /\ TxApart' /\ UNCHANGED unowned
<1>1. /\ pc = "idle" /\ pc' = "tx" /\ cur' = f /\ ref[f] = 0
      /\ ref' = [ref EXCEPT ![f] = 1]
      /\ UNCHANGED <<tx_sent_queue, tx_queue, urbs, evpc, evframe, unowned>>
  BY DEF Tx!AllocFrame, Tx!device, Tx!event, Tx!history
<1>2. ref'[f] = 1 /\ \A g \in Frames : g # f => ref'[g] = ref[g]
  BY <1>1 DEF TxTypes
<1>3. ~Owned(f) /\ ~Moving(f)
  BY <1>1 DEF TxRefs
<1>4. UNCHANGED <<Tx!InFlight, Tx!Reserved, Queueing, Submitting>>
  BY <1>1 DEF Tx!InFlight, Tx!Reserved, Queueing, Submitting
<1>5. \A g : Starting(g)' <=> g = f
  BY <1>1 DEF Starting
<1>6. TxRefs'
  <2>1. \A g \in Frames : g # f =>
          /\ Owned(g)' => Owned(g)
          /\ Moving(g)' => Moving(g)
          /\ (Starting(g) \/ g \in Queueing \union Submitting)'
               => Starting(g) \/ g \in Queueing \union Submitting
    BY <1>1, <1>4, <1>5 DEF Owned, Moving
  <2>2. ~Moving(f)'
    BY <1>1, <1>3, <1>4 DEF Moving
  <2>3. QED
    BY <1>2, <2>1, <2>2, RefsStep
<1>7. TxApart'
  <2>1. f \notin Tx!Elems(tx_sent_queue) /\ (evpc = "fb" => evframe # f)
    BY <1>3 DEF Owned, Tx!Reserved
  <2>2. QED
    BY <1>1, <1>4, <1>5, <2>1 DEF TxApart
<1>8. QED
  BY <1>1, <1>6, <1>7

(* The sender frees the frame it has not queued, or forgets it.            *)
LEMMA RefuseRefs ==
  ASSUME TxTypes, TxRefs, TxOrder, TxApart, pc = "tx", pc' = "idle",
         NEW f, f = cur, Tx!Free(f) \/ UNCHANGED <<ref, unowned>>,
         UNCHANGED <<tx_sent_queue, tx_queue, urbs, evpc, evframe>>
  PROVE  TxRefs' /\ TxApart' /\ UNCHANGED unowned
<1>1. f \in Frames /\ Starting(f)
  BY DEF TxTypes, Starting
<1>2. Owned(f) /\ ref[f] = 1 /\ ~Moving(f)
  <2>1. Owned(f) /\ ref[f] = 1
    BY <1>1 DEF TxRefs, Owned
  <2>2. QED
    BY <1>1, <2>1 DEF TxRefs
<1>3. f \notin Tx!Reserved
  BY <1>1 DEF TxApart, Tx!Reserved
<1>4. UNCHANGED <<Tx!InFlight, Tx!Reserved, Queueing, Submitting>> /\ \A g : ~Starting(g)'
  BY DEF Tx!InFlight, Tx!Reserved, Queueing, Submitting, Starting
<1>5. \A g \in Frames :
        /\ Owned(g)' => Owned(g) /\ g # f
        /\ Moving(g)' => Moving(g)
        /\ (Starting(g) \/ g \in Queueing \union Submitting)'
             => Starting(g) \/ g \in Queueing \union Submitting
  BY <1>3, <1>4 DEF Owned, Moving
<1>6. TxApart'
  BY <1>4 DEF TxApart
<1>7. CASE Tx!Free(f)
  <2>1. ref'[f] = 0 /\ (\A g \in Frames : g # f => ref'[g] = ref[g]) /\ unowned' = unowned
    BY <1>1, <1>2, <1>7, FreeFacts DEF TxTypes
  <2>2. ~(Owned(f) \/ Moving(f))'
    BY <1>1, <1>2, <1>5
  <2>3. ~(Starting(f) \/ f \in Queueing \union Submitting)'
    BY <1>1, <1>4, WaitingIsSent
  <2>4. QED
    BY <1>1, <1>5, <1>6, <2>1, <2>2, <2>3, RefsStep
<1>8. CASE UNCHANGED <<ref, unowned>>
  BY <1>5, <1>6, <1>8, HoldersSame
<1>9. QED
  BY <1>7, <1>8

(* carlu_alloc_dev_mem and the two queues: the sender hands the frame on.  *)
LEMMA SentRefs ==
  ASSUME TxTypes, TxRefs, TxApart, NEW f, f = cur, Tx!AllocDevMem \/ Tx!QueueFrame
  PROVE  TxRefs' /\ TxApart' /\ UNCHANGED unowned
<1>1. /\ f \in Frames /\ cur' = f
      /\ UNCHANGED <<ref, urbs, evpc, evframe, unowned>>
  BY DEF Tx!AllocDevMem, Tx!QueueFrame, Tx!Queue, TxTypes, Tx!event, Tx!history, Tx!device
<1>2. UNCHANGED Tx!InFlight /\ \A g \in Frames : Moving(g)' <=> Moving(g)
  BY <1>1 DEF Tx!InFlight, Moving
<1>3. CASE pc = "tx" /\ pc' = "sent" /\ UNCHANGED <<tx_sent_queue, tx_queue>>
  <2>1. UNCHANGED <<Tx!Elems(tx_sent_queue), Queueing, Submitting>>
    BY <1>3 DEF Queueing, Submitting
  <2>2. \A g \in Frames : (Starting(g)' <=> Starting(g)) /\ (Starting(g) <=> g = f)
    BY <1>1, <1>3 DEF Starting
  <2>3. Tx!Reserved' \subseteq Tx!Reserved \union {f}
    BY <1>1, <1>3 DEF Tx!Reserved
  <2>4. \A g \in Frames : Owned(g)' => Owned(g)
    BY <2>2, <2>3 DEF Owned
  <2>5. TxRefs'
    BY <1>1, <1>2, <2>1, <2>2, <2>4, HoldersSame
  <2>6. TxApart'
    <3>1. evpc' = "fb" => evframe' \in Frames /\ ~Starting(evframe)
      BY <1>1 DEF TxTypes, TxApart
    <3>2. evpc' = "fb" => ~Starting(evframe)'
      BY <1>1, <1>3 DEF TxApart, Starting
    <3>3. QED
      BY <1>1, <1>2, <2>1, <2>2, <3>2 DEF TxApart
  <2>7. QED
    BY <1>1, <2>5, <2>6
<1>4. CASE /\ pc = "sent" /\ pc' = "queue"
           /\ tx_sent_queue' = Append(tx_sent_queue, f) /\ UNCHANGED tx_queue
  <2>1. Tx!Elems(tx_sent_queue)' = Tx!Elems(tx_sent_queue) \union {f}
    BY <1>1, <1>4, BeforeMore DEF TxTypes
  <2>2. Starting(f) /\ \A g : ~Starting(g)'
    BY <1>4 DEF Starting
  <2>3. Queueing' = {f} /\ UNCHANGED Submitting
    BY <1>1, <1>4 DEF Queueing, Submitting
  <2>4. UNCHANGED Tx!Reserved
    BY <1>1, <1>4, <2>1 DEF Tx!Reserved
  <2>5. \A g \in Frames : Owned(g)' => Owned(g)
    BY <2>2, <2>4 DEF Owned
  <2>6. TxRefs'
    BY <1>1, <1>2, <2>2, <2>3, <2>5, HoldersSame
  <2>7. TxApart'
    <3>1. evpc = "fb" => evframe # f
      BY <2>2 DEF TxApart
    <3>2. QED
      BY <1>1, <1>2, <2>1, <2>2, <3>1 DEF TxApart
  <2>8. QED
    BY <1>1, <2>6, <2>7
<1>5. CASE /\ pc = "queue" /\ pc' = "kick"
           /\ tx_queue' = Append(tx_queue, f) /\ UNCHANGED tx_sent_queue
  <2>1. Queueing = {f} /\ Queueing' = {} /\ \A g : ~Starting(g) /\ ~Starting(g)'
    BY <1>5 DEF Queueing, Starting
  <2>2. Submitting' = Submitting \union {f}
    BY <1>1, <1>5, BeforeMore DEF Submitting, TxTypes
  <2>3. UNCHANGED Tx!Reserved
    BY <1>1, <1>5 DEF Tx!Reserved
  <2>4. TxRefs'
    BY <1>1, <1>2, <2>1, <2>2, <2>3, HoldersSame DEF Owned
  <2>5. TxApart'
    BY <1>1, <1>2, <1>5, <2>1 DEF TxApart
  <2>6. QED
    BY <1>1, <2>4, <2>5
<1>6. QED
  BY <1>3, <1>4, <1>5 DEF Tx!AllocDevMem, Tx!QueueFrame, Tx!Queue

LEMMA ReceiveRefs ==
  ASSUME TxTypes, TxRefs, TxApart, Tx!Receive
  PROVE  TxRefs' /\ TxApart' /\ UNCHANGED unowned
<1>1. PICK i \in DOMAIN urbs :
           /\ urbs' = [urbs EXCEPT ![i].received = TRUE]
           /\ UNCHANGED <<ref, tx_sent_queue, tx_queue, pc, cur, evpc, evframe, unowned>>
  BY DEF Tx!Receive, Tx!sender, Tx!event, Tx!history
<1>2. DOMAIN urbs' = DOMAIN urbs /\ \A j \in DOMAIN urbs : urbs'[j].frame = urbs[j].frame
  <2>1. urbs[i] \in Urbs
    BY DEF TxTypes
  <2>2. QED
    BY <1>1, <2>1 DEF Urbs
<1>3. UNCHANGED <<Tx!InFlight, Tx!Reserved, Queueing, Submitting>>
  BY <1>1, <1>2 DEF Tx!InFlight, Tx!Reserved, Queueing, Submitting
<1>4. \A g \in Frames : /\ Starting(g)' <=> Starting(g)
                        /\ Owned(g)' <=> Owned(g)
                        /\ Moving(g)' <=> Moving(g)
  BY <1>1, <1>3 DEF Starting, Owned, Moving
<1>5. TxRefs'
  BY <1>1, <1>3, <1>4, HoldersSame
<1>6. TxApart'
  BY <1>1, <1>2, <1>3, <1>4 DEF TxApart, TxTypes
<1>7. QED
  BY <1>1, <1>5, <1>6

(* The completion of a transfer takes its frame over, and lets it go.      *)
LEMMA BulkRefs ==
  ASSUME TxTypes, TxRefs, TxApart, Tx!BulkCb
  PROVE  TxRefs' /\ TxApart' /\ UNCHANGED unowned
<1>1. /\ urbs # <<>> /\ urbs' = Tail(urbs) /\ evpc = "idle" /\ evpc' = "bulk"
      /\ evframe' = Head(urbs).frame
      /\ UNCHANGED <<ref, tx_sent_queue, tx_queue, pc, cur, unowned>>
  BY DEF Tx!BulkCb, Tx!sender, Tx!history
<1>2. /\ urbs \in Seq(Urbs) /\ Len(urbs) \in Nat \ {0} /\ DOMAIN urbs = 1 .. Len(urbs)
      /\ DOMAIN urbs' = 1 .. Len(urbs) - 1
      /\ \A n \in 1 .. Len(urbs) - 1 : urbs'[n] = urbs[n + 1]
      /\ Head(urbs) = urbs[1]
  BY <1>1, Popped DEF TxTypes
<1>3. Tx!InFlight' \subseteq Tx!InFlight /\ evframe' \in Tx!InFlight
  BY <1>1, <1>2 DEF Tx!InFlight
<1>4. evframe' \notin Tx!InFlight'
  <2>1. \A n \in 1 .. Len(urbs) - 1 : n + 1 \in DOMAIN urbs /\ 1 \in DOMAIN urbs /\ n + 1 # 1
    BY <1>2
  <2>2. \A n \in DOMAIN urbs' : urbs'[n].frame # urbs[1].frame
    <3>1. \A i, j \in DOMAIN urbs : i # j => urbs[i].frame # urbs[j].frame
      BY DEF TxApart
    <3>2. \A n \in 1 .. Len(urbs) - 1 : urbs[n + 1].frame # urbs[1].frame
      BY <2>1, <3>1
    <3>3. QED
      BY <1>2, <3>2
  <2>3. QED
    BY <1>1, <1>2, <2>2 DEF Tx!InFlight
<1>5. UNCHANGED <<Tx!Reserved, Queueing, Submitting>>
  BY <1>1 DEF Tx!Reserved, Queueing, Submitting
<1>6. \A g \in Frames : /\ Starting(g)' <=> Starting(g)
                        /\ Owned(g)' <=> Owned(g)
                        /\ Moving(g)' => Moving(g)
  BY <1>1, <1>3, <1>5 DEF Starting, Owned, Moving
<1>7. TxRefs'
  BY <1>1, <1>5, <1>6, HoldersSame
<1>8. TxApart'
  <2>1. \A i, j \in DOMAIN urbs' : i # j => urbs'[i].frame # urbs'[j].frame
    <3>1. \A n \in DOMAIN urbs' : n + 1 \in DOMAIN urbs /\ urbs'[n] = urbs[n + 1]
      BY <1>2
    <3>2. \A i, j \in DOMAIN urbs' : i # j => i + 1 # j + 1
      BY <1>2
    <3>3. QED
      BY <3>1, <3>2 DEF TxApart
  <2>2. QED
    BY <1>1, <1>4, <1>6, <2>1 DEF TxApart
<1>9. QED
  BY <1>1, <1>7, <1>8

LEMMA BulkFreeRefs ==
  ASSUME TxTypes, TxRefs, TxOrder, TxApart, NEW f, f = evframe, Tx!BulkFree
  PROVE  TxRefs' /\ TxApart' /\ UNCHANGED unowned
<1>1. /\ f \in Frames /\ Tx!Free(f) /\ evpc = "bulk" /\ evpc' = "kick"
      /\ UNCHANGED <<tx_sent_queue, tx_queue, urbs, pc, cur>>
  BY DEF Tx!BulkFree, TxTypes, Tx!sender, Tx!device
<1>2. /\ Moving(f) /\ f \notin Tx!InFlight
      /\ ref[f] \in 1 .. 2 /\ (Owned(f) => ref[f] = 2)
  <2>1. Moving(f) /\ f \notin Tx!InFlight
    BY <1>1 DEF Moving, TxApart
  <2>2. QED
    BY <1>1, <2>1 DEF TxRefs, TxTypes
<1>3. /\ ref'[f] = ref[f] - 1 /\ unowned' = unowned
      /\ \A g \in Frames : g # f => ref'[g] = ref[g]
  BY <1>1, <1>2, FreeFacts DEF TxTypes
<1>4. UNCHANGED <<Tx!InFlight, Tx!Reserved, Queueing, Submitting>>
  BY <1>1 DEF Tx!InFlight, Tx!Reserved, Queueing, Submitting
<1>5. \A g \in Frames : /\ Starting(g)' <=> Starting(g)
                        /\ Owned(g)' <=> Owned(g)
                        /\ Moving(g)' <=> Moving(g) /\ g # f
  BY <1>1, <1>2, <1>4 DEF Starting, Owned, Moving
<1>6. ~(Starting(f) \/ f \in Queueing \union Submitting)
  <2>1. ~Owned(f) => ~Starting(f)
    BY DEF Owned
  <2>2. CASE Owned(f)
    BY <1>1, <1>2, <2>2 DEF TxRefs
  <2>3. CASE ~Owned(f)
    BY <1>1, <2>1, <2>3, WaitingIsSent
  <2>4. QED
    BY <2>2, <2>3
<1>7. TxRefs'
  <2>1. ref'[f] <= 2 /\ (Owned(f)' => ref'[f] >= 1) /\ ~Moving(f)'
    BY <1>1, <1>2, <1>3, <1>5
  <2>2. ~(Starting(f) \/ f \in Queueing \union Submitting)'
    BY <1>1, <1>4, <1>5, <1>6
  <2>3. QED
    BY <1>1, <1>3, <1>4, <1>5, <2>1, <2>2, RefsStep
<1>8. TxApart'
  BY <1>1, <1>4, <1>5 DEF TxApart
<1>9. QED
  BY <1>3, <1>7, <1>8

(* What is found leaves tx_sent_queue, and the event thread has it.        *)
LEMMA FoundRefs ==
  ASSUME TxTypes, TxRefs, TxApart, Once, Tx!FindFrame, NEW i \in DOMAIN tx_sent_queue, Found(i)
  PROVE  TxRefs' /\ TxApart' /\ UNCHANGED <<unowned, Tx!Reserved>>
<1> DEFINE q == tx_sent_queue
<1>1. /\ evpc = "idle" /\ evpc' = "fb" /\ evframe' = q[i] /\ q' = Tx!RemoveAt(q, i)
      /\ UNCHANGED <<ref, tx_queue, urbs, pc, cur, unowned>>
  BY DEF Tx!FindFrame, Found, Tx!sender
<1>2. q \in Seq(Frames) /\ q[i] \in Tx!Elems(q) /\ q[i] \in Frames
  BY DEF TxTypes, Tx!Elems
<1>3. /\ \A f \in Tx!Elems(q) : f # q[i] => f \in Tx!Elems(q')
      /\ Tx!Elems(q') \subseteq Tx!Elems(q)
  BY <1>1, <1>2, BeforeLess
<1>4. q[i] \notin Tx!Elems(q')
  <2> DEFINE r == Tx!RemoveAt(q, i)
  <2>1. i \in 1 .. Len(q) /\ DOMAIN q = 1 .. Len(q) /\ Len(q) \in Nat
    BY <1>2, LenProperties
  <2>2. /\ r \in Seq(Frames) /\ Len(r) = Len(q) - 1
        /\ \A k \in 1 .. i - 1 : r[k] = q[k]
        /\ \A k \in i .. Len(q) - 1 : r[k] = q[k + 1]
    BY <1>2, <2>1, Removed
  <2> HIDE DEF r
  <2>3. ASSUME NEW k \in DOMAIN r PROVE r[k] # q[i]
    <3>1. k \in 1 .. Len(q) - 1
      BY <2>2
    <3>2. CASE k < i
      BY <2>1, <2>2, <3>1, <3>2 DEF Once
    <3>3. CASE k >= i
      <4>1. k + 1 \in DOMAIN q /\ k + 1 # i /\ r[k] = q[k + 1]
        BY <2>1, <2>2, <3>1, <3>3
      <4>2. QED
        BY <4>1 DEF Once
    <3>4. QED
      BY <2>1, <3>1, <3>2, <3>3
  <2>4. q' = r
    BY <1>1 DEF r
  <2>5. QED
    BY <2>3, <2>4 DEF Tx!Elems
<1>5. UNCHANGED Tx!Reserved
  BY <1>1, <1>2, <1>3 DEF Tx!Reserved
<1>6. UNCHANGED <<Tx!InFlight, Queueing, Submitting>>
  BY <1>1 DEF Tx!InFlight, Queueing, Submitting
<1>7. \A g \in Frames : /\ Starting(g)' <=> Starting(g)
                        /\ Owned(g)' <=> Owned(g)
                        /\ Moving(g)' <=> Moving(g)
  BY <1>1, <1>5, <1>6 DEF Starting, Owned, Moving
<1>8. TxRefs'
  BY <1>1, <1>6, <1>7, HoldersSame
<1>9. TxApart'
  <2>1. ~Starting(q[i])
    BY <1>2 DEF TxApart
  <2>2. ~Starting(evframe)'
    BY <1>1, <2>1 DEF Starting
  <2>3. evframe' \notin Tx!Elems(q')
    BY <1>1, <1>4
  <2>4. QED
    BY <1>1, <1>3, <1>7, <2>2, <2>3 DEF TxApart
<1>10. QED
  BY <1>1, <1>5, <1>8, <1>9

(* carlu_tx_feedback lets the frame go.                                    *)
LEMMA FeedbackRefs ==
  ASSUME TxTypes, TxRefs, TxOrder, TxApart, NEW f, f = evframe, Tx!Feedback
  PROVE  TxRefs' /\ TxApart' /\ UNCHANGED unowned
<1>1. /\ f \in Frames /\ Tx!Free(f) /\ evpc = "fb" /\ evpc' = "idle"
      /\ UNCHANGED <<tx_sent_queue, tx_queue, urbs, pc, cur>>
  BY DEF Tx!Feedback, TxTypes, Tx!sender, Tx!device
<1>2. f \notin Tx!Elems(tx_sent_queue) /\ ~Starting(f)
  BY <1>1 DEF TxApart
<1>3. /\ Owned(f) /\ ref[f] \in 1 .. 2 /\ (Moving(f) => ref[f] = 2)
  <2>1. Owned(f)
    BY <1>1 DEF Owned, Tx!Reserved
  <2>2. QED
    BY <1>1, <2>1 DEF TxRefs, TxTypes
<1>4. /\ ref'[f] = ref[f] - 1 /\ unowned' = unowned
      /\ \A g \in Frames : g # f => ref'[g] = ref[g]
  BY <1>1, <1>3, FreeFacts DEF TxTypes
<1>5. UNCHANGED <<Tx!InFlight, Queueing, Submitting>>
  BY <1>1 DEF Tx!InFlight, Queueing, Submitting
<1>6. Tx!Reserved' = Tx!Reserved \ {f}
  <2>1. pc = "sent" => cur # f
    BY <1>2 DEF Starting
  <2>2. QED
    BY <1>1, <1>2, <2>1 DEF Tx!Reserved
<1>7. \A g \in Frames : /\ Starting(g)' <=> Starting(g)
                        /\ Owned(g)' <=> Owned(g) /\ g # f
                        /\ Moving(g)' <=> Moving(g)
  BY <1>1, <1>2, <1>5, <1>6 DEF Starting, Owned, Moving
<1>8. TxRefs'
  <2>1. ref'[f] <= 2 /\ (Moving(f)' => ref'[f] >= 1) /\ ~Owned(f)'
    BY <1>1, <1>3, <1>4, <1>7
  <2>2. ~(Starting(f) \/ f \in Queueing \union Submitting)'
    BY <1>1, <1>2, <1>5, <1>7, WaitingIsSent
  <2>3. QED
    BY <1>1, <1>4, <1>5, <1>7, <2>1, <2>2, RefsStep
<1>9. TxApart'
  BY <1>1, <1>5, <1>7 DEF TxApart
<1>10. QED
  BY <1>4, <1>8, <1>9

LEMMA RefsKept ==
  ASSUME TxTypes, TxRefs, TxOrder, TxApart, [Tx!Next]_txVars, evpc # "gone", evpc' # "gone"
  PROVE  TxRefs' /\ TxApart' /\ UNCHANGED unowned
<1> USE DEF Tx!memory, Tx!device, Tx!sender, Tx!event, Tx!history
<1>1. CASE Tx!Refuse \/ Tx!NoSpace
  <2>1. /\ pc = "tx" /\ pc' = "idle"
        /\ Tx!Free(cur) \/ UNCHANGED <<ref, unowned>>
        /\ UNCHANGED <<tx_sent_queue, tx_queue, urbs, evpc, evframe>>
    BY <1>1 DEF Tx!Refuse, Tx!NoSpace
  <2>2. QED
    BY <2>1, RefuseRefs
<1>2. CASE \/ \E f \in Frames : Tx!AllocFrame(f)
           \/ Tx!AllocDevMem \/ Tx!QueueFrame \/ Tx!Receive \/ Tx!BulkCb
  BY <1>2, AllocRefs, SentRefs, ReceiveRefs, BulkRefs
<1>3. CASE Tx!BulkFree \/ Tx!Feedback
  BY <1>3, BulkFreeRefs, FeedbackRefs
<1>4. CASE Tx!SenderPending
  <2>1. /\ Tx!TxPending /\ pc = "kick" /\ pc' = "idle"
        /\ UNCHANGED <<tx_sent_queue, evpc, evframe, unowned>>
    BY <1>4 DEF Tx!SenderPending
  <2>2. /\ UNCHANGED <<Tx!Reserved, Queueing>>
        /\ \A g \in Frames : ~Starting(g) /\ ~Starting(g)'
    BY <2>1 DEF Tx!Reserved, Queueing, Starting
  <2>3. QED
    BY <2>1, <2>2, PendingRefs
<1>5. CASE Tx!EventPending
  <2>1. /\ Tx!TxPending /\ evpc = "kick" /\ evpc' = "idle"
        /\ UNCHANGED <<tx_sent_queue, pc, cur, evframe, unowned>>
    BY <1>5 DEF Tx!EventPending, Tx!NextPending
  <2>2. /\ UNCHANGED <<Tx!Reserved, Queueing>>
        /\ \A g \in Frames : Starting(g)' <=> Starting(g)
    BY <2>1 DEF Tx!Reserved, Queueing, Starting
  <2>3. QED
    BY <2>1, <2>2, PendingRefs
<1>6. CASE Tx!FindFrame
  <2>1. \E i \in DOMAIN tx_sent_queue : Found(i)
    BY <1>6, FindOrder
  <2>2. QED
    BY <1>6, <2>1, FoundRefs DEF TxOrder
<1>7. CASE Tx!Report \/ UNCHANGED txVars
  <2>1. UNCHANGED <<ref, tx_sent_queue, tx_queue, urbs, pc, cur, evpc, evframe, unowned>>
    BY <1>7 DEF Tx!Report, txVars
  <2>2. UNCHANGED Tx!InFlight /\ \A g \in Frames : Starting(g)' <=> Starting(g)
    BY <2>1 DEF Tx!InFlight, Starting
  <2>3. TxApart'
    <3>1. evpc = "fb" => (Starting(evframe)' <=> Starting(evframe))
      BY <2>1 DEF Starting
    <3>2. QED
      BY <2>1, <2>2, <3>1 DEF TxApart
  <2>4. QED
    BY <2>1, <2>3, RefsSame
<1>8. ~Tx!ZapQueues /\ ~Tx!KillQueue
  BY DEF Tx!ZapQueues, Tx!KillQueue, TxTypes
<1>9. QED
  BY <1>1, <1>2, <1>3, <1>4, <1>5, <1>6, <1>7, <1>8 DEF Tx!Next
-----------------------------------------------------------------------------
(* The device memory, which only two steps change.                         *)
LEMMA SameCardinality ==
  ASSUME NEW S
  PROVE  Tx!Cardinality(S) = Cardinality(S)
BY DEF Tx!Cardinality, Cardinality

LEMMA ReservedFinite ==
  ASSUME TxTypes
  PROVE  Tx!Reserved \subseteq Frames /\ IsFiniteSet(Tx!Reserved)
<1>1. Tx!Reserved \subseteq Frames
  BY TxPlaces DEF Tx!Reserved, TxTypes
<1>2. QED
  BY <1>1, TxSizes, FS_Subset

(* The chunks of a set of frames.                                          *)
Chunks(S) == UNION {{f} \X (1 .. chunks[f]) : f \in S}

LEMMA ChunksFinite ==
  ASSUME NEW S \in SUBSET Frames
  PROVE  IsFiniteSet(Chunks(S))
<1> DEFINE C(f) == {f} \X (1 .. chunks[f])
<1>1. IsFiniteSet(S)
  BY TxSizes, FS_Subset
<1>2. ASSUME NEW f \in S PROVE IsFiniteSet(C(f))
  <2>1. chunks[f] \in Nat
    BY TxSizes
  <2>2. IsFiniteSet({f}) /\ IsFiniteSet(1 .. chunks[f])
    BY <2>1, UpTo, FS_Singleton
  <2>3. QED
    BY <2>2, FS_Product
<1>3. IsFiniteSet({C(f) : f \in S})
  <2> DEFINE F == [f \in S |-> C(f)]
             T == {C(f) : f \in S}
  <2> HIDE DEF C
  <2>1. F \in Surjection(S, T)
    BY DEF Surjection
  <2> HIDE DEF F, T
  <2>2. IsFiniteSet(T)
    BY <1>1, <2>1, FS_Surjection
  <2>3. QED
    BY <2>2 DEF T
<1>4. \A T \in {C(f) : f \in S} : IsFiniteSet(T)
  BY <1>2
<1>5. QED
  BY <1>3, <1>4, FS_UNION DEF Chunks

LEMMA OneMore ==
  ASSUME NEW S \in SUBSET Frames, NEW f \in Frames, f \notin S
  PROVE  /\ Cardinality(S \union {f}) = Cardinality(S) + 1
         /\ Cardinality(Chunks(S \union {f})) = Cardinality(Chunks(S)) + chunks[f]
         /\ Cardinality(S) \in Nat /\ Cardinality(Chunks(S)) \in Nat /\ chunks[f] \in Nat
<1> DEFINE C == {f} \X (1 .. chunks[f])
<1>1. IsFiniteSet(S) /\ Cardinality(S) \in Nat /\ chunks[f] \in Nat
  BY TxSizes, FS_Subset, FS_CardinalityType
<1>2. Cardinality(S \union {f}) = Cardinality(S) + 1
  BY <1>1, FS_AddElement
<1>3. IsFiniteSet(Chunks(S)) /\ Cardinality(Chunks(S)) \in Nat
  BY ChunksFinite, FS_CardinalityType
<1>4. IsFiniteSet(C) /\ Cardinality(C) = chunks[f]
  <2>1. IsFiniteSet({f}) /\ Cardinality({f}) = 1
    BY FS_Singleton
  <2>2. IsFiniteSet(1 .. chunks[f]) /\ Cardinality(1 .. chunks[f]) = chunks[f]
    BY <1>1, UpTo
  <2> DEFINE X == {f}
             Y == 1 .. chunks[f]
  <2> HIDE DEF X, Y
  <2>3. IsFiniteSet(X \X Y) /\ Cardinality(X \X Y) = Cardinality(X) * Cardinality(Y)
    BY <2>1, <2>2, FS_Product DEF X, Y
  <2>4. IsFiniteSet(C) /\ Cardinality(C) = 1 * chunks[f]
    BY <2>1, <2>2, <2>3 DEF X, Y
  <2>5. QED
    BY <1>1, <2>4
<1>5. Chunks(S \union {f}) = Chunks(S) \union C /\ Chunks(S) \intersect C = {}
  BY DEF Chunks
<1>6. Cardinality(Chunks(S) \union C) = Cardinality(Chunks(S)) + Cardinality(C)
  <2> HIDE DEF C
  <2>1. Chunks(S) \intersect C = {}
    BY <1>5
  <2>2. Cardinality(Chunks(S) \intersect C) = 0
    BY <2>1, FS_EmptySet, Zenon
  <2>3. /\ Cardinality(C) \in Nat
        /\ Cardinality(Chunks(S) \union C)
             = Cardinality(Chunks(S)) + Cardinality(C) - Cardinality(Chunks(S) \intersect C)
    BY <1>3, <1>4, FS_Union, FS_CardinalityType
  <2>4. QED
    BY <1>3, <2>2, <2>3
<1>7. QED
  BY <1>1, <1>2, <1>3, <1>4, <1>5, <1>6

LEMMA TxMemAs ==
  TxMem <=> /\ used_dma_chunks = Cardinality(Chunks(Tx!Reserved))
            /\ tx_pending = Cardinality(Tx!Reserved)
            /\ used_dma_chunks < DmaChunks
<1>1. Tx!Taken = Chunks(Tx!Reserved)
  BY DEF Tx!Taken, Chunks
<1>2. QED
  BY <1>1, Zenon DEF TxMem

LEMMA MemMore ==
  ASSUME TxTypes, TxMem, NEW f \in Frames, f \notin Tx!Reserved,
         Tx!Reserved' = Tx!Reserved \union {f},
         used_dma_chunks' = used_dma_chunks + chunks[f], tx_pending' = tx_pending + 1,
         used_dma_chunks + chunks[f] < DmaChunks
  PROVE  TxMem'
<1>1. Tx!Reserved \subseteq Frames
  BY ReservedFinite
<1>2. /\ Cardinality(Tx!Reserved \union {f}) = Cardinality(Tx!Reserved) + 1
      /\ Cardinality(Chunks(Tx!Reserved \union {f})) = Cardinality(Chunks(Tx!Reserved)) + chunks[f]
  BY <1>1, OneMore
<1>3. Cardinality(Tx!Reserved') = Cardinality(Tx!Reserved) + 1
  BY <1>2, Zenon
<1>4. Cardinality(Chunks(Tx!Reserved')) = Cardinality(Chunks(Tx!Reserved)) + chunks[f]
  BY <1>2, Zenon
<1>5. /\ used_dma_chunks = Cardinality(Chunks(Tx!Reserved))
      /\ tx_pending = Cardinality(Tx!Reserved)
  BY TxMemAs
<1>6. /\ used_dma_chunks' = Cardinality(Chunks(Tx!Reserved'))
      /\ tx_pending' = Cardinality(Tx!Reserved')
      /\ used_dma_chunks' < DmaChunks
  BY <1>3, <1>4, <1>5
<1>7. Tx!Taken' = Chunks(Tx!Reserved')
  BY DEF Tx!Taken, Chunks, Tx!Reserved
<1>8. QED
  BY <1>6, <1>7, Zenon DEF TxMem

LEMMA MemLess ==
  ASSUME TxTypes, TxMem, NEW f \in Tx!Reserved,
         Tx!Reserved' = Tx!Reserved \ {f},
         used_dma_chunks' = used_dma_chunks - chunks[f], tx_pending' = tx_pending - 1
  PROVE  TxMem'
<1> DEFINE S == Tx!Reserved \ {f}
<1>1. f \in Frames /\ S \subseteq Frames /\ f \notin S /\ S \union {f} = Tx!Reserved
  BY ReservedFinite
<1>2. Tx!Reserved' = S
  OBVIOUS
<1> HIDE DEF S
<1>3. /\ Cardinality(S \union {f}) = Cardinality(S) + 1
      /\ Cardinality(Chunks(S \union {f})) = Cardinality(Chunks(S)) + chunks[f]
      /\ Cardinality(S) \in Nat /\ Cardinality(Chunks(S)) \in Nat /\ chunks[f] \in Nat
  BY <1>1, OneMore
<1>4. Cardinality(S \union {f}) = tx_pending
  BY <1>1, TxMemAs, Zenon
<1>5. Cardinality(Chunks(S \union {f})) = used_dma_chunks /\ used_dma_chunks < DmaChunks
  BY <1>1, TxMemAs, Zenon
<1>6. /\ used_dma_chunks' = Cardinality(Chunks(S)) /\ tx_pending' = Cardinality(S)
      /\ used_dma_chunks' < DmaChunks
  BY <1>3, <1>4, <1>5, TxSizes
<1>7. /\ used_dma_chunks' = Cardinality(Chunks(Tx!Reserved'))
      /\ tx_pending' = Cardinality(Tx!Reserved')
  BY <1>2, <1>6, Zenon
<1>8. Tx!Taken' = Chunks(Tx!Reserved')
  BY DEF Tx!Taken, Chunks, Tx!Reserved
<1>9. QED
  BY <1>6, <1>7, <1>8, Zenon DEF TxMem

LEMMA MemSame ==
  ASSUME TxMem, UNCHANGED <<used_dma_chunks, tx_pending, Tx!Reserved>>
  PROVE  TxMem'
<1>1. Tx!Taken' = Tx!Taken
  BY DEF Tx!Taken
<1>2. QED
  BY <1>1, Zenon DEF TxMem

LEMMA MemKept ==
  ASSUME TxTypes, TxMem, TxRefs, TxOrder, TxApart, [Tx!Next]_txVars,
         evpc # "gone", evpc' # "gone"
  PROVE  TxMem'
<1> USE DEF Tx!memory, Tx!device, Tx!sender, Tx!event, Tx!history
<1>1. CASE Tx!AllocDevMem
  <2>1. /\ pc = "tx" /\ pc' = "sent" /\ cur \in Frames
        /\ used_dma_chunks' = used_dma_chunks + chunks[cur] /\ tx_pending' = tx_pending + 1
        /\ used_dma_chunks + chunks[cur] < DmaChunks
        /\ UNCHANGED <<tx_sent_queue, cur, evpc, evframe>>
    BY <1>1 DEF Tx!AllocDevMem, Tx!MemFree, TxTypes
  <2>2. cur \notin Tx!Reserved
    BY <2>1 DEF TxApart, Tx!Reserved, Starting
  <2>3. Tx!Reserved' = Tx!Reserved \union {cur}
    BY <2>1 DEF Tx!Reserved
  <2>4. QED
    BY <2>1, <2>2, <2>3, MemMore
<1>2. CASE Tx!Feedback
  <2>1. /\ evpc = "fb" /\ evpc' = "idle" /\ evframe \in Frames
        /\ used_dma_chunks' = used_dma_chunks - chunks[evframe] /\ tx_pending' = tx_pending - 1
        /\ UNCHANGED <<tx_sent_queue, pc, cur>>
    BY <1>2 DEF Tx!Feedback, Tx!FreeDevMem, TxTypes
  <2>2. evframe \notin Tx!Elems(tx_sent_queue) /\ (pc = "sent" => cur # evframe)
    BY <2>1 DEF TxApart, Starting
  <2>3. evframe \in Tx!Reserved /\ Tx!Reserved' = Tx!Reserved \ {evframe}
    BY <2>1, <2>2 DEF Tx!Reserved
  <2>4. QED
    BY <2>1, <2>3, MemLess
<1>3. CASE Tx!QueueFrame
  <2>1. /\ cur \in Frames
        /\ UNCHANGED <<used_dma_chunks, tx_pending, cur, evpc, evframe>>
    BY <1>3 DEF Tx!QueueFrame, Tx!Queue, TxTypes
  <2>2. UNCHANGED Tx!Reserved
    <3>1. CASE pc = "sent" /\ pc' = "queue" /\ tx_sent_queue' = Append(tx_sent_queue, cur)
      <4>1. Tx!Elems(tx_sent_queue)' = Tx!Elems(tx_sent_queue) \union {cur}
        BY <2>1, <3>1, BeforeMore DEF TxTypes
      <4>2. QED
        BY <2>1, <3>1, <4>1 DEF Tx!Reserved
    <3>2. CASE pc = "queue" /\ pc' = "kick" /\ UNCHANGED tx_sent_queue
      BY <2>1, <3>2 DEF Tx!Reserved
    <3>3. QED
      BY <1>3, <3>1, <3>2 DEF Tx!QueueFrame, Tx!Queue
  <2>3. QED
    BY <2>1, <2>2, MemSame
<1>4. CASE Tx!FindFrame
  <2>1. \E i \in DOMAIN tx_sent_queue : Found(i)
    BY <1>4, FindOrder
  <2>2. UNCHANGED <<used_dma_chunks, tx_pending, Tx!Reserved>>
    BY <1>4, <2>1, FoundRefs DEF TxOrder, Tx!FindFrame
  <2>3. QED
    BY <2>2, MemSame
<1>5. CASE \/ \E f \in Frames : Tx!AllocFrame(f)
           \/ Tx!Refuse \/ Tx!NoSpace \/ Tx!SenderPending \/ Tx!Receive \/ Tx!Report
           \/ Tx!BulkCb \/ Tx!BulkFree \/ Tx!EventPending \/ UNCHANGED txVars
  <2>1. /\ UNCHANGED <<used_dma_chunks, tx_pending, tx_sent_queue>>
        /\ UNCHANGED <<pc, cur>> \/ (pc # "sent" /\ pc' # "sent")
        /\ UNCHANGED <<evpc, evframe>> \/ (evpc # "fb" /\ evpc' # "fb")
    BY <1>5 DEF Tx!AllocFrame, Tx!Refuse, Tx!NoSpace, Tx!SenderPending, Tx!Receive, Tx!Report,
                Tx!BulkCb, Tx!BulkFree, Tx!EventPending, txVars
  <2>2. UNCHANGED Tx!Reserved
    BY <2>1 DEF Tx!Reserved
  <2>3. QED
    BY <2>1, <2>2, MemSame
<1>6. ~Tx!ZapQueues /\ ~Tx!KillQueue
  BY DEF Tx!ZapQueues, Tx!KillQueue, TxTypes
<1>7. QED
  BY <1>1, <1>2, <1>3, <1>4, <1>5, <1>6 DEF Tx!Next

(* A closed driver stays closed.                                           *)
LEMMA TxInvKept ==
  ASSUME TxInv, [Tx!Next]_txVars
  PROVE  TxInv'
<1>1. TxTypes' /\ Tx!SlotsCounted'
  BY TxTypesKept, SlotsKept DEF TxInv
<1>2. ASSUME evpc' # "gone" PROVE evpc # "gone"
  BY <1>2 DEF Tx!Next, Tx!AllocFrame, Tx!Refuse, Tx!NoSpace, Tx!AllocDevMem, Tx!QueueFrame,
     Tx!SenderPending, Tx!EventPending, Tx!NextPending, Tx!Receive, Tx!Report, Tx!BulkCb,
     Tx!BulkFree, Tx!FindFrame, Tx!Feedback, Tx!ZapQueues, Tx!KillQueue, Tx!event, txVars,
     TxInv, TxTypes
<1>3. ASSUME evpc # "gone", evpc' # "gone"
      PROVE  TxOrder' /\ TxRefs' /\ TxApart' /\ TxMem' /\ ~unowned'
  BY <1>3, OrderKept, RefsKept, MemKept DEF TxInv
<1>4. QED
  BY <1>1, <1>2, <1>3 DEF TxInv

LEMMA InitTx ==
  ASSUME Tx!Init
  PROVE  TxInv
<1> USE DEF Tx!Init
<1>1. TxTypes
  <2>1. <<>> \in Seq(Frames) /\ <<>> \in Seq(Urbs) /\ <<>> \in Seq(Reports)
    OBVIOUS
  <2>2. ref \in [Frames -> Nat] /\ frame_cookie \in [Frames -> Nat]
    OBVIOUS
  <2>3. /\ tx_sent_queue \in Seq(Frames) /\ tx_queue \in Seq(Frames)
        /\ urbs \in Seq(Urbs) /\ firmware \in Seq(Reports) /\ statuses \in Seq(Reports)
    BY <2>1
  <2>4. unowned \in BOOLEAN
    OBVIOUS
  <2>5. QED
    BY <2>2, <2>3, <2>4 DEF TxTypes
<1>2. Tx!SlotsCounted
  BY DEF Tx!SlotsCounted
<1>3. TxOrder
  BY DEF TxOrder, Once, Sorted, Staged, Ahead, OwnCookies, Reported, With, Sending, Submitting,
         Queueing, Tx!Elems
<1>4. Tx!Reserved = {} /\ Tx!InFlight = {}
  BY DEF Tx!Reserved, Tx!Elems, Tx!InFlight
<1>5. TxRefs
  BY <1>4 DEF TxRefs, Owned, Moving, Starting, Queueing, Submitting, Tx!Elems
<1>6. TxApart
  BY DEF TxApart, Starting
<1>7. TxMem
  <2>1. Chunks({}) = {}
    BY DEF Chunks
  <2>2. Cardinality(Chunks(Tx!Reserved)) = 0 /\ Cardinality(Tx!Reserved) = 0
    BY <1>4, <2>1, FS_EmptySet, Zenon
  <2>3. QED
    BY <2>2, TxMemAs, TxSizes
<1>8. QED
  BY <1>1, <1>2, <1>3, <1>5, <1>6, <1>7 DEF TxInv

LEMMA TxCorrect == AllSpec => []TxInv
<1>1. AllInit => TxInv
  BY InitTx DEF AllInit
<1>2. TxInv /\ [AllNext]_allVars => TxInv'
  <2> SUFFICES ASSUME TxInv, [AllNext]_allVars PROVE TxInv'
    OBVIOUS
  <2>1. [Tx!Next]_txVars
    BY DEF AllNext, TxStep, FrameStep, FileStep, SaveStep, DepsStep, allVars
  <2>2. QED
    BY <2>1, TxInvKept
<1>3. QED
  BY <1>1, <1>2, PTL DEF AllSpec

(* tx.c, usb.c: whatever the frames, the chunks they take, the cookies and *)
(* the limit of transfers, and however transfers fail and statuses beat    *)
(* completions, the device memory that counts as used is that of the frames*)
(* carlu waits to hear of and below what the device has, the slots in use  *)
(* are those of the transfers in flight and of the failed ones, and until  *)
(* the driver is closed what a list, a transfer or a thread holds is alive.*)
THEOREM AccountsCorrect == AllSpec => []AccountsHold
<1>1. TxInv => AccountsHold
  <2> SUFFICES ASSUME TxInv PROVE AccountsHold
    OBVIOUS
  <2>1. Tx!SlotsCounted
    BY DEF TxInv
  <2>2. Tx!MemAccounted
    <3>1. evpc # "gone" => /\ used_dma_chunks = Tx!Cardinality(Tx!Taken)
                           /\ tx_pending = Tx!Cardinality(Tx!Reserved)
                           /\ used_dma_chunks < DmaChunks
      BY SameCardinality, Zenon DEF TxInv, TxMem
    <3>2. QED
      BY <3>1 DEF Tx!MemAccounted, Tx!Closed
  <2>3. ASSUME evpc # "gone"
        PROVE  /\ ~unowned
               /\ \A f \in Tx!Elems(tx_sent_queue) \union Tx!Elems(tx_queue) \union Tx!InFlight :
                    ref[f] > 0
               /\ \A f \in Tx!InFlight \intersect Tx!Elems(tx_sent_queue) : ref[f] = 2
    <3>1. TxTypes /\ TxOrder /\ TxRefs /\ ~unowned
      BY <2>3 DEF TxInv
    <3>2. Submitting \subseteq Tx!Elems(tx_sent_queue)
      BY <3>1 DEF TxOrder, Staged
    <3>3. \A f \in Tx!Elems(tx_sent_queue) \union Tx!InFlight : f \in Frames /\ ref[f] \in Nat
      BY <3>1, TxPlaces DEF TxTypes
    <3>4. /\ \A f \in Tx!Elems(tx_sent_queue) : Owned(f)
          /\ \A f \in Tx!InFlight : Moving(f)
      BY DEF Owned, Moving, Tx!Reserved
    <3>5. \A f \in Tx!Elems(tx_sent_queue) \union Tx!InFlight : ref[f] >= 1
      BY <3>1, <3>3, <3>4 DEF TxRefs
    <3>6. \A f \in Tx!InFlight \intersect Tx!Elems(tx_sent_queue) : ref[f] = 2
      BY <3>1, <3>3, <3>4 DEF TxRefs
    <3>7. QED
      BY <3>1, <3>2, <3>3, <3>5, <3>6 DEF Submitting
  <2>4. Tx!HeldIsAlive
    BY <2>3 DEF Tx!HeldIsAlive, Tx!Closed
  <2>5. QED
    BY <2>1, <2>2, <2>4 DEF AccountsHold
<1>2. QED
  BY <1>1, TxCorrect, PTL
-----------------------------------------------------------------------------
(* Where no transfer fails, tx_sent_queue holds the frames on their way and*)
(* no other, so its first frame is the one the next status is about,       *)
(* whatever other frames have its cookie.                                  *)
OnTheirWay == Reported \union With \union Sending \union Submitting \union Queueing
Complete == Tx!Elems(tx_sent_queue) \subseteq OnTheirWay

(* The calls of carlusb_tx_pending that a thread is about to make.  There  *)
(* are as many as frames wait, or as slots are free.                       *)
Kicks == (IF pc = "kick" THEN 1 ELSE 0) + (IF evpc \in {"bulk", "kick"} THEN 1 ELSE 0)
Enough ==
  /\ tx_queue_len <= MaxUrbs
  /\ Len(tx_queue) <= Kicks \/ MaxUrbs - tx_queue_len <= Kicks

NoFailure ==
  /\ ~MayFail /\ TxInv /\ ~confused
  /\ evpc # "gone" => Complete /\ Enough

(* A frame that nothing stands before is the first.                        *)
LEMMA NothingBefore ==
  ASSUME TxTypes, Once, NEW f, Before(tx_sent_queue, f, tx_sent_queue[1])
  PROVE  FALSE
<1>1. PICK k, l \in DOMAIN tx_sent_queue :
           k < l /\ tx_sent_queue[k] = f /\ tx_sent_queue[l] = tx_sent_queue[1]
  BY DEF Before
<1>2. /\ DOMAIN tx_sent_queue = 1 .. Len(tx_sent_queue) /\ Len(tx_sent_queue) \in Nat
  BY LenProperties DEF TxTypes
<1>3. 1 \in DOMAIN tx_sent_queue /\ l # 1
  BY <1>1, <1>2
<1>4. QED
  BY <1>1, <1>3 DEF Once

(* The frame a status is about is the first of tx_sent_queue ...           *)
LEMMA FirstIsReported ==
  ASSUME TxTypes, TxOrder, Complete, statuses # <<>>
  PROVE  /\ 1 \in DOMAIN tx_sent_queue
         /\ tx_sent_queue[1] = Head(statuses).frame
         /\ frame_cookie[tx_sent_queue[1]] = Head(statuses).cookie
<1> DEFINE q == tx_sent_queue
           h == statuses[1].frame
<1>1. /\ Head(statuses) = statuses[1] /\ DOMAIN statuses = 1 .. Len(statuses)
      /\ Len(statuses) \in Nat \ {0} /\ 1 \in DOMAIN statuses
  BY Popped DEF TxTypes
<1>2. h \in Reported /\ statuses[1].cookie = frame_cookie[h]
  BY <1>1 DEF Reported, TxOrder, OwnCookies
<1>3. PICK p \in DOMAIN q : q[p] = h
  BY <1>2 DEF TxOrder, Staged, Tx!Elems
<1>4. DOMAIN q = 1 .. Len(q) /\ Len(q) \in Nat
  BY LenProperties DEF TxTypes
<1>5. 1 \in DOMAIN q
  BY <1>3, <1>4
<1>6. q[1] \in OnTheirWay
  BY <1>5 DEF Complete, Tx!Elems
<1>7. q[1] = h
  <2>1. ASSUME q[1] \in Reported, q[1] # h PROVE FALSE
    <3>1. PICK n \in DOMAIN statuses : q[1] = statuses[n].frame
      BY <2>1 DEF Reported
    <3>2. 1 < n
      BY <1>1, <2>1, <3>1
    <3>3. Before(q, h, q[1])
      BY <1>1, <3>1, <3>2 DEF TxOrder, Sorted
    <3>4. QED
      BY <3>3, NothingBefore DEF TxOrder
  <2>2. ASSUME q[1] \in With \union Sending \union Submitting \union Queueing PROVE FALSE
    <3>1. Before(q, h, q[1])
      BY <1>2, <2>2 DEF TxOrder, Staged, Ahead
    <3>2. QED
      BY <3>1, NothingBefore DEF TxOrder
  <2>3. QED
    BY <1>6, <2>1, <2>2 DEF OnTheirWay
<1>8. QED
  BY <1>1, <1>2, <1>5, <1>7

(* ... and it is the one that is found.                                    *)
LEMMA FindsTheRightOne ==
  ASSUME TxTypes, TxOrder, Complete, ~confused, Tx!FindFrame
  PROVE  ~confused' /\ Complete'
<1> DEFINE q == tx_sent_queue
           h == Head(statuses).frame
<1>1. /\ statuses # <<>> /\ statuses' = Tail(statuses) /\ evpc = "idle"
      /\ UNCHANGED <<tx_queue, urbs, firmware, pc, cur>>
  BY DEF Tx!FindFrame, Tx!sender
<1>2. 1 \in DOMAIN q /\ q[1] = h /\ frame_cookie[q[1]] = Head(statuses).cookie
  BY <1>1, FirstIsReported
<1>3. PICK i \in DOMAIN q : Found(i)
  BY FindOrder
<1>4. DOMAIN q = 1 .. Len(q) /\ Len(q) \in Nat /\ q \in Seq(Frames)
  BY LenProperties DEF TxTypes
<1>5. i = 1
  <2>1. i <= 1
    BY <1>2, <1>3 DEF Found
  <2>2. QED
    BY <1>3, <1>4, <2>1
<1>6. evpc' = "fb" /\ evframe' = h /\ q' = Tx!RemoveAt(q, 1)
  BY <1>2, <1>3, <1>5 DEF Found
<1>7. ~confused'
  <2>1. evpc' # evpc
    BY <1>1, <1>6
  <2>2. /\ confused' = (confused \/ q[Tx!Min(Tx!Places(Head(statuses).cookie))] # h)
        /\ evframe' = q[Tx!Min(Tx!Places(Head(statuses).cookie))]
    BY <2>1 DEF Tx!FindFrame, Tx!event
  <2>3. QED
    BY <1>6, <2>2
<1>8. Complete'
  <2> SUFFICES ASSUME NEW f \in Tx!Elems(q') PROVE f \in OnTheirWay'
    BY DEF Complete
  <2>1. f \in Tx!Elems(q) /\ f # h
    <3> DEFINE r == Tx!RemoveAt(q, 1)
    <3> HIDE DEF r
    <3>1. 1 \in 1 .. Len(q) /\ q \in Seq(Frames)
      BY <1>2, <1>4
    <3>2. /\ r \in Seq(Frames) /\ Len(r) = Len(q) - 1
          /\ \A k \in 1 .. Len(q) - 1 : r[k] = q[k + 1]
      BY <3>1, Removed DEF r
    <3>3. /\ Len(q') = Len(q) - 1 /\ q' \in Seq(Frames)
          /\ \A k \in 1 .. Len(q) - 1 : q'[k] = q[k + 1]
      BY <1>6, <3>2 DEF r
    <3>4. DOMAIN q' = 1 .. Len(q) - 1
      BY <3>3, LenProperties
    <3>5. PICK k \in 1 .. Len(q) - 1 : f = q[k + 1]
      BY <3>3, <3>4 DEF Tx!Elems
    <3>6. k + 1 \in DOMAIN q /\ k + 1 # 1
      BY <1>4
    <3>7. QED
      BY <1>2, <3>5, <3>6 DEF Tx!Elems, TxOrder, Once
  <2>2. f \in OnTheirWay
    BY <2>1 DEF Complete
  <2>3. ASSUME f \in Reported PROVE f \in Reported'
    <3>1. /\ DOMAIN statuses = 1 .. Len(statuses) /\ Len(statuses) \in Nat
          /\ DOMAIN statuses' = 1 .. Len(statuses) - 1
          /\ \A n \in 1 .. Len(statuses) - 1 : statuses'[n] = statuses[n + 1]
          /\ Head(statuses) = statuses[1]
      BY <1>1, Popped DEF TxTypes
    <3>2. PICK n \in DOMAIN statuses : f = statuses[n].frame
      BY <2>3 DEF Reported
    <3>3. n # 1
      BY <2>1, <3>1, <3>2
    <3>4. n - 1 \in DOMAIN statuses' /\ statuses'[n - 1] = statuses[n]
      BY <3>1, <3>3
    <3>5. QED
      BY <3>2, <3>4 DEF Reported
  <2>4. UNCHANGED <<With, Sending, Submitting, Queueing>>
    BY <1>1 DEF With, Sending, Submitting, Queueing
  <2>5. QED
    BY <2>2, <2>3, <2>4 DEF OnTheirWay
<1>9. QED
  BY <1>7, <1>8

(* Without a failure, carlusb_tx_pending does nothing or submits a frame.  *)
LEMMA PendingSubmits ==
  ASSUME TxTypes, ~MayFail, Tx!TxPending
  PROVE  \/ /\ UNCHANGED <<tx_queue, tx_queue_len, urbs>>
            /\ tx_queue_len >= MaxUrbs \/ tx_queue = <<>>
         \/ /\ tx_queue_len < MaxUrbs /\ tx_queue # <<>> /\ tx_queue_len' = tx_queue_len + 1
            /\ tx_queue' = Tail(tx_queue)
            /\ urbs' = Append(urbs, [frame |-> Head(tx_queue), received |-> FALSE])
<1>1. CASE Tx!NothingToSubmit
  BY <1>1 DEF Tx!TxPending, Tx!NothingToSubmit
<1>2. CASE ~Tx!NothingToSubmit
  <2>1. tx_queue # <<>> /\ Tx!Submit
    BY <1>2 DEF Tx!TxPending, Tx!NothingToSubmit, Tx!SubmitFailed
  <2>2. tx_queue_len < MaxUrbs
    <3>1. ~(tx_queue_len >= MaxUrbs)
      BY <1>2 DEF Tx!NothingToSubmit
    <3>2. QED
      BY <3>1, TxSizes DEF TxTypes
  <2>3. QED
    BY <2>1, <2>2 DEF Tx!Submit
<1>3. QED
  BY <1>1, <1>2

LEMMA PendingComplete ==
  ASSUME TxTypes, ~MayFail, Complete, Tx!TxPending,
         UNCHANGED <<tx_sent_queue, statuses, firmware, Queueing>>
  PROVE  Complete'
<1>1. UNCHANGED <<Reported, With, Queueing>>
  BY DEF Reported, With
<1>2. CASE UNCHANGED <<tx_queue, urbs>>
  <2>1. UNCHANGED <<Sending, Submitting>>
    BY <1>2 DEF Sending, Submitting
  <2>2. QED
    BY <1>1, <2>1 DEF Complete, OnTheirWay
<1>3. CASE /\ tx_queue # <<>> /\ tx_queue' = Tail(tx_queue)
           /\ urbs' = Append(urbs, [frame |-> Head(tx_queue), received |-> FALSE])
  <2> DEFINE h == Head(tx_queue)
             u == [frame |-> h, received |-> FALSE]
  <2>1. /\ DOMAIN tx_queue = 1 .. Len(tx_queue) /\ Len(tx_queue) \in Nat
        /\ DOMAIN tx_queue' = 1 .. Len(tx_queue) - 1
        /\ \A n \in 1 .. Len(tx_queue) - 1 : tx_queue'[n] = tx_queue[n + 1]
        /\ h = tx_queue[1] /\ h \in Frames
    BY <1>3, Popped DEF TxTypes
  <2>2. u \in Urbs /\ u.frame = h /\ ~u.received
    BY <2>1 DEF Urbs
  <2>3. urbs' = Append(urbs, u)
    BY <1>3
  <2> HIDE DEF u, h
  <2>4. /\ urbs \in Seq(Urbs) /\ Len(urbs) \in Nat /\ DOMAIN urbs = 1 .. Len(urbs)
        /\ DOMAIN urbs' = 1 .. Len(urbs) + 1
        /\ \A n \in 1 .. Len(urbs) : urbs'[n] = urbs[n]
        /\ urbs'[Len(urbs) + 1] = u
    BY <2>2, <2>3, Pushed DEF TxTypes
  <2>5. Sending \subseteq Sending'
    BY <2>4 DEF Sending
  <2>6. h \in Sending'
    <3>1. Len(urbs) + 1 \in DOMAIN urbs'
      BY <2>4
    <3>2. QED
      BY <2>2, <2>4, <3>1 DEF Sending
  <2>7. Submitting \subseteq Submitting' \union {h}
    <3> SUFFICES ASSUME NEW n \in 1 .. Len(tx_queue), n # 1 PROVE tx_queue[n] \in Submitting'
      BY <2>1 DEF Submitting, Tx!Elems
    <3>1. n - 1 \in DOMAIN tx_queue' /\ tx_queue'[n - 1] = tx_queue[n]
      BY <2>1
    <3>2. QED
      BY <3>1 DEF Submitting, Tx!Elems
  <2>8. QED
    BY <1>1, <2>5, <2>6, <2>7 DEF Complete, OnTheirWay
<1>4. QED
  BY <1>2, <1>3, PendingSubmits

(* Each step moves its frame on, and leaves the others where they are.     *)
LEMMA CompleteKept ==
  ASSUME TxTypes, TxOrder, ~MayFail, ~confused, Complete, [Tx!Next]_txVars, evpc' # "gone"
  PROVE  Complete'
<1> USE DEF Tx!memory, Tx!device, Tx!sender, Tx!event, Tx!history
<1>1. CASE Tx!QueueFrame
  <2>1. cur \in Frames /\ UNCHANGED <<cur, urbs, firmware, statuses>>
    BY <1>1 DEF Tx!QueueFrame, Tx!Queue, TxTypes
  <2>2. UNCHANGED <<Reported, With, Sending>>
    BY <2>1 DEF Reported, With, Sending
  <2>3. CASE /\ pc = "sent" /\ pc' = "queue" /\ tx_sent_queue' = Append(tx_sent_queue, cur)
             /\ UNCHANGED tx_queue
    <3>1. Tx!Elems(tx_sent_queue') = Tx!Elems(tx_sent_queue) \union {cur}
      BY <2>1, <2>3, BeforeMore DEF TxTypes
    <3>2. UNCHANGED Submitting /\ Queueing = {} /\ Queueing' = {cur}
      BY <2>1, <2>3 DEF Submitting, Queueing
    <3>3. QED
      BY <2>2, <3>1, <3>2 DEF Complete, OnTheirWay
  <2>4. CASE /\ pc = "queue" /\ pc' = "kick" /\ tx_queue' = Append(tx_queue, cur)
             /\ UNCHANGED tx_sent_queue
    <3>1. Submitting' = Submitting \union {cur}
      BY <2>1, <2>4, BeforeMore DEF TxTypes, Submitting
    <3>2. Queueing = {cur} /\ Queueing' = {}
      BY <2>4 DEF Queueing
    <3>3. QED
      BY <2>2, <2>4, <3>1, <3>2 DEF Complete, OnTheirWay
  <2>5. QED
    BY <1>1, <2>3, <2>4 DEF Tx!QueueFrame, Tx!Queue
<1>2. CASE Tx!SenderPending
  <2>1. /\ Tx!TxPending /\ pc = "kick" /\ pc' = "idle"
        /\ UNCHANGED <<tx_sent_queue, statuses, firmware>>
    BY <1>2 DEF Tx!SenderPending
  <2>2. UNCHANGED Queueing
    BY <2>1 DEF Queueing
  <2>3. QED
    BY <2>1, <2>2, PendingComplete
<1>3. CASE Tx!EventPending
  <2>1. Tx!TxPending /\ UNCHANGED <<tx_sent_queue, statuses, firmware, pc, cur>>
    BY <1>3 DEF Tx!EventPending, Tx!NextPending
  <2>2. UNCHANGED Queueing
    BY <2>1 DEF Queueing
  <2>3. QED
    BY <2>1, <2>2, PendingComplete
<1>4. CASE Tx!Receive
  <2>1. PICK i \in DOMAIN urbs :
          /\ urbs' = [urbs EXCEPT ![i].received = TRUE]
          /\ firmware' = Append(firmware, [frame |-> urbs[i].frame,
                                           cookie |-> frame_cookie[urbs[i].frame]])
          /\ UNCHANGED <<tx_sent_queue, statuses, tx_queue, pc, cur>>
    BY <1>4 DEF Tx!Receive
  <2> DEFINE f == urbs[i].frame
             r == [frame |-> f, cookie |-> frame_cookie[f]]
  <2>2. urbs \in Seq(Urbs) /\ DOMAIN urbs = 1 .. Len(urbs) /\ urbs[i] \in Urbs /\ f \in Frames
    <3>1. urbs \in Seq(Urbs)
      BY DEF TxTypes
    <3>2. DOMAIN urbs = 1 .. Len(urbs) /\ urbs[i] \in Urbs
      BY <3>1, LenProperties
    <3>3. QED
      BY <3>1, <3>2 DEF Urbs
  <2>3. r \in Reports /\ r.frame = f
    BY <2>2 DEF Reports, TxTypes
  <2>4. /\ DOMAIN urbs' = DOMAIN urbs
        /\ \A j \in DOMAIN urbs : j # i => urbs'[j] = urbs[j]
    BY <2>1, <2>2
  <2>5. firmware' = Append(firmware, r)
    BY <2>1
  <2> HIDE DEF r, f
  <2>6. /\ firmware \in Seq(Reports) /\ Len(firmware) \in Nat
        /\ DOMAIN firmware = 1 .. Len(firmware) /\ DOMAIN firmware' = 1 .. Len(firmware) + 1
        /\ \A n \in 1 .. Len(firmware) : firmware'[n] = firmware[n]
        /\ firmware'[Len(firmware) + 1] = r
    BY <2>3, <2>5, Pushed DEF TxTypes
  <2>7. With \subseteq With'
    BY <2>6 DEF With
  <2>8. f \in With'
    <3>1. Len(firmware) + 1 \in DOMAIN firmware'
      BY <2>6
    <3>2. QED
      BY <2>3, <2>6, <3>1 DEF With
  <2>9. Sending \subseteq Sending' \union {f}
    BY <2>4 DEF Sending, f
  <2>10. UNCHANGED <<Reported, Submitting, Queueing, tx_sent_queue>>
    BY <2>1 DEF Reported, Submitting, Queueing
  <2>11. QED
    BY <2>7, <2>8, <2>9, <2>10 DEF Complete, OnTheirWay
<1>5. CASE Tx!Report
  <2>1. /\ firmware # <<>> /\ firmware' = Tail(firmware)
        /\ statuses' = Append(statuses, Head(firmware))
        /\ UNCHANGED <<tx_sent_queue, urbs, tx_queue, pc, cur>>
    BY <1>5 DEF Tx!Report
  <2> DEFINE r == Head(firmware)
  <2>2. /\ DOMAIN firmware = 1 .. Len(firmware) /\ Len(firmware) \in Nat
        /\ DOMAIN firmware' = 1 .. Len(firmware) - 1
        /\ \A n \in 1 .. Len(firmware) - 1 : firmware'[n] = firmware[n + 1]
        /\ r = firmware[1] /\ r \in Reports
    BY <2>1, Popped DEF TxTypes
  <2>3. statuses' = Append(statuses, r)
    BY <2>1
  <2> HIDE DEF r
  <2>4. /\ statuses \in Seq(Reports) /\ Len(statuses) \in Nat
        /\ DOMAIN statuses = 1 .. Len(statuses) /\ DOMAIN statuses' = 1 .. Len(statuses) + 1
        /\ \A n \in 1 .. Len(statuses) : statuses'[n] = statuses[n]
        /\ statuses'[Len(statuses) + 1] = r
    BY <2>2, <2>3, Pushed DEF TxTypes
  <2>5. Reported \subseteq Reported'
    BY <2>4 DEF Reported
  <2>6. r.frame \in Reported'
    <3>1. Len(statuses) + 1 \in DOMAIN statuses'
      BY <2>4
    <3>2. QED
      BY <2>4, <3>1 DEF Reported
  <2>7. With \subseteq With' \union {r.frame}
    <3> SUFFICES ASSUME NEW n \in DOMAIN firmware, n # 1 PROVE firmware[n].frame \in With'
      BY <2>2 DEF With
    <3>1. n - 1 \in DOMAIN firmware' /\ firmware'[n - 1] = firmware[n]
      BY <2>2
    <3>2. QED
      BY <3>1 DEF With
  <2>8. UNCHANGED <<Sending, Submitting, Queueing, tx_sent_queue>>
    BY <2>1 DEF Sending, Submitting, Queueing
  <2>9. QED
    BY <2>5, <2>6, <2>7, <2>8 DEF Complete, OnTheirWay
<1>6. CASE Tx!BulkCb
  <2>1. /\ urbs # <<>> /\ Head(urbs).received /\ urbs' = Tail(urbs)
        /\ UNCHANGED <<tx_sent_queue, firmware, statuses, tx_queue, pc, cur>>
    BY <1>6 DEF Tx!BulkCb
  <2>2. /\ DOMAIN urbs = 1 .. Len(urbs) /\ Len(urbs) \in Nat
        /\ DOMAIN urbs' = 1 .. Len(urbs) - 1
        /\ \A n \in 1 .. Len(urbs) - 1 : urbs'[n] = urbs[n + 1]
        /\ Head(urbs) = urbs[1]
    BY <2>1, Popped DEF TxTypes
  <2>3. Sending \subseteq Sending'
    <3> SUFFICES ASSUME NEW n \in DOMAIN urbs, ~urbs[n].received
                 PROVE  urbs[n].frame \in Sending'
      BY DEF Sending
    <3>1. n # 1
      BY <2>1, <2>2
    <3>2. n - 1 \in DOMAIN urbs' /\ urbs'[n - 1] = urbs[n]
      BY <2>2, <3>1
    <3>3. QED
      BY <3>2 DEF Sending
  <2>4. UNCHANGED <<Reported, With, Submitting, Queueing, tx_sent_queue>>
    BY <2>1 DEF Reported, With, Submitting, Queueing
  <2>5. QED
    BY <2>3, <2>4 DEF Complete, OnTheirWay
<1>7. CASE Tx!FindFrame
  BY <1>7, FindsTheRightOne
<1>8. CASE \/ \E f \in Frames : Tx!AllocFrame(f)
           \/ Tx!Refuse \/ Tx!NoSpace \/ Tx!AllocDevMem \/ Tx!BulkFree \/ Tx!Feedback
           \/ UNCHANGED txVars
  <2>1. /\ UNCHANGED <<tx_sent_queue, urbs, firmware, statuses, tx_queue>>
        /\ UNCHANGED <<pc, cur>> \/ (pc # "queue" /\ pc' # "queue")
    BY <1>8 DEF Tx!AllocFrame, Tx!Refuse, Tx!NoSpace, Tx!AllocDevMem, Tx!BulkFree,
                Tx!Feedback, txVars
  <2>2. UNCHANGED <<Reported, With, Sending, Submitting, Queueing>>
    BY <2>1 DEF Reported, With, Sending, Submitting, Queueing
  <2>3. QED
    BY <2>1, <2>2 DEF Complete, OnTheirWay
<1>9. CASE Tx!ZapQueues
  BY <1>9 DEF Tx!ZapQueues
<1>10. CASE Tx!KillQueue
  <2>1. FALSE
    BY <1>10 DEF Tx!KillQueue, TxTypes
  <2>2. QED
    BY <2>1
<1>11. QED
  BY <1>1, <1>2, <1>3, <1>4, <1>5, <1>6, <1>7, <1>8, <1>9, <1>10 DEF Tx!Next

(* A call of carlusb_tx_pending submits a frame, or finds none or no slot. *)
LEMMA PendingEnough ==
  ASSUME TxTypes, ~MayFail, Enough, Tx!TxPending, Kicks' = Kicks - 1, Kicks \in Int, Kicks' >= 0
  PROVE  Enough'
<1>1. Len(tx_queue) \in Nat /\ tx_queue_len \in Int /\ MaxUrbs \in Nat
  BY TxSizes, LenProperties DEF TxTypes
<1>2. CASE /\ UNCHANGED <<tx_queue, tx_queue_len>>
           /\ tx_queue_len >= MaxUrbs \/ tx_queue = <<>>
  <2>1. Len(tx_queue) = 0 \/ MaxUrbs - tx_queue_len <= 0
    <3>1. Len(<<>>) = 0
      OBVIOUS
    <3>2. QED
      BY <1>1, <1>2, <3>1
  <2>2. QED
    BY <1>1, <1>2, <2>1 DEF Enough
<1>3. CASE /\ tx_queue_len < MaxUrbs /\ tx_queue # <<>> /\ tx_queue_len' = tx_queue_len + 1
           /\ tx_queue' = Tail(tx_queue)
  <2>1. Len(tx_queue') = Len(tx_queue) - 1
    BY <1>3, Popped DEF TxTypes
  <2>2. QED
    BY <1>1, <1>3, <2>1 DEF Enough
<1>4. QED
  BY <1>2, <1>3, PendingSubmits

LEMMA EnoughKept ==
  ASSUME TxTypes, ~MayFail, Enough, [Tx!Next]_txVars, evpc' # "gone"
  PROVE  Enough'
<1> USE DEF Tx!memory, Tx!device, Tx!sender, Tx!event, Tx!history
<1>0. /\ Len(tx_queue) \in Nat /\ tx_queue_len \in Int /\ MaxUrbs \in Nat
      /\ Kicks \in 0 .. 2
  BY TxSizes, LenProperties DEF TxTypes, Kicks
<1>1. CASE Tx!QueueFrame
  <2>1. UNCHANGED <<tx_queue_len, evpc>>
    BY <1>1 DEF Tx!QueueFrame
  <2>2. CASE pc = "sent" /\ pc' = "queue" /\ UNCHANGED tx_queue
    <3>1. Kicks' = Kicks
      BY <2>1, <2>2 DEF Kicks
    <3>2. QED
      BY <2>1, <2>2, <3>1 DEF Enough
  <2>3. CASE pc = "queue" /\ pc' = "kick" /\ tx_queue' = Append(tx_queue, cur)
    <3>1. Kicks' = Kicks + 1
      BY <2>1, <2>3 DEF Kicks
    <3>2. Len(tx_queue') = Len(tx_queue) + 1
      BY <2>3, Pushed DEF TxTypes
    <3>3. QED
      BY <1>0, <2>1, <3>1, <3>2 DEF Enough
  <2>4. QED
    BY <1>1, <2>2, <2>3 DEF Tx!QueueFrame, Tx!Queue
<1>2. CASE Tx!SenderPending
  <2>1. Tx!TxPending /\ pc = "kick" /\ pc' = "idle" /\ UNCHANGED evpc
    BY <1>2 DEF Tx!SenderPending
  <2>2. Kicks' = Kicks - 1 /\ Kicks' >= 0
    BY <2>1 DEF Kicks
  <2>3. QED
    BY <1>0, <2>1, <2>2, PendingEnough
<1>3. CASE Tx!EventPending
  <2>1. Tx!TxPending /\ evpc = "kick" /\ evpc' = "idle" /\ UNCHANGED pc
    BY <1>3 DEF Tx!EventPending, Tx!NextPending
  <2>2. Kicks' = Kicks - 1 /\ Kicks' >= 0
    BY <2>1 DEF Kicks
  <2>3. QED
    BY <1>0, <2>1, <2>2, PendingEnough
<1>4. CASE Tx!BulkCb
  <2>1. /\ evpc = "idle" /\ evpc' = "bulk" /\ tx_queue_len' = tx_queue_len - 1
        /\ UNCHANGED <<tx_queue, pc>>
    BY <1>4 DEF Tx!BulkCb, Tx!SlotBack
  <2>2. Kicks' = Kicks + 1
    BY <2>1 DEF Kicks
  <2>3. QED
    BY <1>0, <2>1, <2>2 DEF Enough
<1>5. CASE \/ \E f \in Frames : Tx!AllocFrame(f)
           \/ Tx!Refuse \/ Tx!NoSpace \/ Tx!AllocDevMem \/ Tx!Receive \/ Tx!Report
           \/ Tx!BulkFree \/ Tx!FindFrame \/ Tx!Feedback \/ UNCHANGED txVars
  <2>1. /\ UNCHANGED <<tx_queue, tx_queue_len>>
        /\ UNCHANGED pc \/ (pc # "kick" /\ pc' # "kick")
        /\ \/ UNCHANGED evpc
           \/ evpc = "bulk" /\ evpc' = "kick"
           \/ evpc \in {"idle", "fb"} /\ evpc' \in {"idle", "fb"}
    BY <1>5 DEF Tx!AllocFrame, Tx!Refuse, Tx!NoSpace, Tx!AllocDevMem, Tx!Receive, Tx!Report,
                Tx!BulkFree, Tx!FindFrame, Tx!Feedback, txVars
  <2>2. Kicks' = Kicks
    BY <2>1 DEF Kicks
  <2>3. QED
    BY <2>1, <2>2 DEF Enough
<1>6. ~Tx!ZapQueues
  BY DEF Tx!ZapQueues
<1>7. ~Tx!KillQueue
  BY DEF Tx!KillQueue, TxTypes
<1>8. QED
  BY <1>1, <1>2, <1>3, <1>4, <1>5, <1>6, <1>7 DEF Tx!Next

(* Only carlu_find_frame can take a wrong frame, and a closed driver stays *)
(* closed.                                                                 *)
LEMMA ConfusedSame ==
  ASSUME [Tx!Next]_txVars, ~Tx!FindFrame
  PROVE  confused' = confused
BY DEF Tx!Next, Tx!AllocFrame, Tx!Refuse, Tx!NoSpace, Tx!AllocDevMem, Tx!QueueFrame,
       Tx!SenderPending, Tx!EventPending, Tx!NextPending, Tx!Receive, Tx!Report, Tx!BulkCb,
       Tx!BulkFree, Tx!FindFrame, Tx!Feedback, Tx!ZapQueues, Tx!KillQueue, Tx!history, txVars

LEMMA StaysClosed ==
  ASSUME TxTypes, [Tx!Next]_txVars, evpc' # "gone"
  PROVE  evpc # "gone"
BY DEF Tx!Next, Tx!AllocFrame, Tx!Refuse, Tx!NoSpace, Tx!AllocDevMem, Tx!QueueFrame,
   Tx!SenderPending, Tx!EventPending, Tx!NextPending, Tx!Receive, Tx!Report, Tx!BulkCb,
   Tx!BulkFree, Tx!FindFrame, Tx!Feedback, Tx!ZapQueues, Tx!KillQueue, Tx!event, txVars, TxTypes

LEMMA NoFailureKept ==
  ASSUME NoFailure, [Tx!Next]_txVars
  PROVE  NoFailure'
<1>1. TxInv' /\ TxTypes
  BY TxInvKept DEF NoFailure, TxInv
<1>2. ~confused'
  <2>1. CASE Tx!FindFrame
    <3>1. evpc # "gone"
      BY <2>1 DEF Tx!FindFrame
    <3>2. QED
      BY <2>1, <3>1, FindsTheRightOne DEF NoFailure, TxInv
  <2>2. CASE ~Tx!FindFrame
    BY <2>2, ConfusedSame DEF NoFailure
  <2>3. QED
    BY <2>1, <2>2
<1>3. ASSUME evpc' # "gone" PROVE Complete' /\ Enough'
  <2>1. evpc # "gone"
    BY <1>1, <1>3, StaysClosed
  <2>2. QED
    BY <1>1, <1>3, <2>1, CompleteKept, EnoughKept DEF NoFailure, TxInv
<1>4. QED
  BY <1>1, <1>2, <1>3 DEF NoFailure

(* tx.c: where no transfer fails, a status finds the frame it is about     *)
(* under its cookie, however few the cookies and whatever frames wait with *)
(* the same one; and a frame waits in tx_queue only behind as many         *)
(* transfers as may be in flight, or behind a thread on its way to         *)
(* carlusb_tx_pending.                                                     *)
THEOREM FramesFound == ~MayFail /\ AllSpec => [](Tx!RightFrame /\ Tx!NoStall)
<1>1. ~MayFail /\ AllInit => NoFailure
  <2> SUFFICES ASSUME ~MayFail, Tx!Init PROVE NoFailure
    BY DEF AllInit
  <2>1. TxInv
    BY InitTx
  <2>2. /\ tx_sent_queue = <<>> /\ tx_queue = <<>> /\ tx_queue_len = 0 /\ ~confused
        /\ pc = "idle" /\ evpc = "idle"
    BY DEF Tx!Init
  <2>3. Complete
    BY <2>2 DEF Complete, Tx!Elems
  <2>4. Enough
    BY <2>2, TxSizes DEF Enough, Kicks
  <2>5. QED
    BY <2>1, <2>2, <2>3, <2>4 DEF NoFailure
<1>2. NoFailure /\ [AllNext]_allVars => NoFailure'
  <2> SUFFICES ASSUME NoFailure, [AllNext]_allVars PROVE NoFailure'
    OBVIOUS
  <2>1. [Tx!Next]_txVars
    BY DEF AllNext, TxStep, FrameStep, FileStep, SaveStep, DepsStep, allVars
  <2>2. QED
    BY <2>1, NoFailureKept
<1>3. NoFailure => Tx!RightFrame /\ Tx!NoStall
  <2> SUFFICES ASSUME NoFailure PROVE Tx!RightFrame /\ Tx!NoStall
    OBVIOUS
  <2>1. ASSUME evpc # "gone", tx_queue # <<>>, pc # "kick", evpc \notin {"bulk", "kick"}
        PROVE  tx_queue_len = MaxUrbs
    <3>1. Enough /\ Kicks = 0
      BY <2>1 DEF NoFailure, Kicks
    <3>2. Len(tx_queue) \in Nat \ {0} /\ tx_queue_len \in Int /\ MaxUrbs \in Nat
      BY <2>1, Popped, TxSizes DEF NoFailure, TxInv, TxTypes
    <3>3. QED
      BY <3>1, <3>2 DEF Enough
  <2>2. Tx!NoStall
    BY <2>1 DEF Tx!NoStall
  <2>3. QED
    BY <2>2 DEF NoFailure, Tx!RightFrame
<1>4. QED
  BY <1>1, <1>2, <1>3, PTL DEF AllSpec
-----------------------------------------------------------------------------
(* The files the configuration tool leaves for the build: KAuto.           *)
SavedValues == {1, 2, 3}
AutoTypes ==
  /\ save_cur \in Conf!Configs
  /\ {config, old} \subseteq Conf!Configs \union {Conf!Missing, Conf!Torn}
  /\ generated \in [Conf!Outputs -> [ConfSyms -> SavedValues]] /\ fresh \in BOOLEAN
  /\ built \in [ConfSyms -> SavedValues] /\ touched \subseteq ConfSyms /\ todo \subseteq ConfSyms
  /\ save_pc \in {"idle", "backup", "save", "fill", "split"} \union Conf!Outputs

(* What auto.conf says was built, or will be: conf_split_config compares   *)
(* with auto.conf and not with the other files.                            *)
BuiltOrTouched == \A s \in ConfSyms : built[s] # generated["auto"][s] => s \in touched

(* While the tool writes, the build does not run, and the headers of what  *)
(* differs from auto.conf are touched as far as the comparison has come.   *)
Writing == save_pc \in {"split"} \union Conf!Outputs
Compared ==
  Writing =>
    /\ config = save_cur /\ ~fresh
    /\ save_pc # "split" => todo = {}
    /\ \A s \in ConfSyms \ todo :
         Conf!Generated(save_cur)[s] # generated["auto"][s] => s \in touched

(* The files that are already renamed into place.                          *)
Renamed ==
  CASE save_pc = "tristate" -> {"header"}
    [] save_pc = "cmake" -> {"header", "tristate"}
    [] save_pc = "auto" -> {"header", "tristate", "cmake"}
    [] OTHER -> {}
RenamedAgree == \A f \in Renamed : generated[f] = Conf!Generated(save_cur)

(* Behind a fresh auto.conf all files are of one configuration.            *)
FreshAgree ==
  fresh => /\ \A f \in Conf!Outputs : generated[f] = generated["auto"]
           /\ config # Conf!Missing => generated["auto"] = Conf!Generated(config)

AutoInv == AutoTypes /\ BuiltOrTouched /\ Compared /\ RenamedAgree /\ FreshAgree
-----------------------------------------------------------------------------
(* What is saved, and that conf_split_config touches what has changed.     *)
LEMMA SavedTypes ==
  ASSUME NEW c \in Conf!Configs
  PROVE  /\ Conf!Generated(c) \in [ConfSyms -> SavedValues]
         /\ \A s \in ConfSyms : \A was \in SavedValues :
              Conf!Generated(c)[s] # was <=> Conf!Changed(c[s], was)
<1>1. ASSUME NEW v \in 0 .. 3
      PROVE  /\ Conf!Saved(v) \in SavedValues
             /\ \A was \in SavedValues : Conf!Saved(v) # was <=> Conf!Changed(v, was)
  BY DEF Conf!Saved, Conf!Changed, SavedValues
<1>2. \A s \in ConfSyms : c[s] \in 0 .. 3
  BY DEF Conf!Configs
<1>3. QED
  BY <1>1, <1>2 DEF Conf!Generated

LEMMA AutoInit == Conf!Init => AutoInv
<1> SUFFICES ASSUME Conf!Init PROVE AutoInv
  OBVIOUS
<1> USE DEF Conf!Init
<1>1. Conf!Empty \in Conf!Configs /\ Conf!Empty \in [ConfSyms -> SavedValues]
  BY DEF Conf!Empty, Conf!Configs, SavedValues
<1>2. AutoTypes
  BY <1>1 DEF AutoTypes, Conf!Outputs
<1>3. BuiltOrTouched
  BY DEF BuiltOrTouched, Conf!Outputs
<1>4. Compared /\ RenamedAgree /\ FreshAgree
  BY DEF Compared, Writing, RenamedAgree, Renamed, FreshAgree, Conf!Outputs
<1>5. QED
  BY <1>2, <1>3, <1>4 DEF AutoInv

LEMMA RenameKeeps ==
  ASSUME AutoInv, Conf!Rename
  PROVE  AutoInv'
<1> DEFINE new == Conf!Generated(save_cur)
<1>1. /\ save_pc \in Conf!Outputs
      /\ generated' = [generated EXCEPT ![save_pc] = new]
      /\ fresh' = (fresh \/ save_pc = "auto") /\ save_pc' = Conf!Follows(save_pc)
      /\ UNCHANGED <<save_cur, config, old, touched, built, todo, saves>>
  BY DEF Conf!Rename
<1>2. /\ AutoTypes /\ ~fresh /\ config = save_cur /\ todo = {}
      /\ \A s \in ConfSyms : new[s] # generated["auto"][s] => s \in touched
  BY <1>1 DEF AutoInv, Compared, Writing, Conf!Outputs
<1>3. new \in [ConfSyms -> SavedValues]
  BY <1>2, SavedTypes DEF AutoTypes
<1> HIDE DEF new
<1>4. /\ generated' \in [Conf!Outputs -> [ConfSyms -> SavedValues]]
      /\ generated'[save_pc] = new
      /\ \A f \in Conf!Outputs : f # save_pc => generated'[f] = generated[f]
  BY <1>1, <1>2, <1>3 DEF AutoTypes
<1>5. save_pc \in {"header", "tristate", "cmake", "auto"}
  BY <1>1 DEF Conf!Outputs
<1>6. save_pc' \in {"tristate", "cmake", "auto", "idle"}
  BY <1>1, <1>5 DEF Conf!Follows
<1>7. AutoTypes'
  <2>1. fresh' \in BOOLEAN
    BY <1>1
  <2>2. QED
    BY <1>1, <1>2, <1>4, <1>6, <2>1 DEF AutoTypes, Conf!Outputs
<1>8. BuiltOrTouched'
  <2>1. \A s \in ConfSyms : built[s] # generated["auto"][s] => s \in touched
    BY DEF AutoInv, BuiltOrTouched
  <2>2. generated'["auto"] = generated["auto"] \/ generated'["auto"] = new
    BY <1>4 DEF Conf!Outputs
  <2>3. QED
    BY <1>1, <1>2, <2>1, <2>2 DEF BuiltOrTouched
<1>9. new = Conf!Generated(save_cur)' /\ new = Conf!Generated(config)'
  BY <1>1, <1>2 DEF new
<1>10. \A f \in Renamed : generated[f] = new
  BY DEF AutoInv, RenamedAgree, new
<1>11. CASE save_pc = "auto"
  <2>1. save_pc' = "idle"
    BY <1>1, <1>11 DEF Conf!Follows
  <2>2. \A f \in Conf!Outputs : generated'[f] = new
    BY <1>4, <1>10, <1>11 DEF Renamed, Conf!Outputs
  <2>3. FreshAgree'
    BY <1>9, <2>2 DEF FreshAgree, Conf!Outputs
  <2>4. Compared' /\ RenamedAgree'
    BY <2>1 DEF Compared, Writing, RenamedAgree, Renamed, Conf!Outputs
  <2>5. QED
    BY <1>7, <1>8, <2>3, <2>4 DEF AutoInv
<1>12. CASE save_pc # "auto"
  <2>1. ~fresh' /\ generated'["auto"] = generated["auto"]
    BY <1>1, <1>2, <1>4, <1>12 DEF Conf!Outputs
  <2>2. FreshAgree'
    BY <2>1 DEF FreshAgree
  <2>3. Compared'
    BY <1>1, <1>2, <1>9, <2>1 DEF Compared
  <2>4. Renamed' = Renamed \union {save_pc} /\ Renamed' \subseteq Conf!Outputs
    BY <1>1, <1>5, <1>12 DEF Renamed, Conf!Follows, Conf!Outputs
  <2>5. RenamedAgree'
    BY <1>4, <1>9, <1>10, <2>4 DEF RenamedAgree
  <2>6. QED
    BY <1>7, <1>8, <2>2, <2>3, <2>5 DEF AutoInv
<1>13. QED
  BY <1>11, <1>12

LEMMA AutoKept ==
  ASSUME AutoInv, [Conf!Next]_Conf!vars
  PROVE  AutoInv'
<1> USE DEF AutoInv, Conf!Outputs
<1>1. CASE Conf!Start
  <2>1. /\ save_cur' \in Conf!Configs /\ save_pc' = "backup"
        /\ UNCHANGED <<config, old, generated, fresh, touched, built, todo>>
    BY <1>1 DEF Conf!Start
  <2>2. AutoTypes'
    BY <2>1 DEF AutoTypes
  <2>3. BuiltOrTouched' /\ FreshAgree'
    BY <2>1 DEF BuiltOrTouched, FreshAgree, Conf!Generated
  <2>4. Compared' /\ RenamedAgree'
    BY <2>1 DEF Compared, Writing, RenamedAgree, Renamed
  <2>5. QED
    BY <2>2, <2>3, <2>4
<1>2. CASE Conf!SaveOld
  <2>1. /\ save_pc' = "save" /\ (config' = Conf!Missing \/ config' = config)
        /\ UNCHANGED <<save_cur, generated, fresh, touched, built, todo>>
        /\ old' \in {old, config}
    BY <1>2 DEF Conf!SaveOld, Conf!Backup
  <2>2. AutoTypes'
    BY <2>1 DEF AutoTypes
  <2>3. BuiltOrTouched'
    BY <2>1 DEF BuiltOrTouched
  <2>4. FreshAgree'
    BY <2>1 DEF FreshAgree, Conf!Generated, Conf!Missing
  <2>5. Compared' /\ RenamedAgree'
    BY <2>1 DEF Compared, Writing, RenamedAgree, Renamed
  <2>6. QED
    BY <2>2, <2>3, <2>4, <2>5
<1>3. CASE Conf!Save \/ Conf!Fill
  <2>1. /\ save_pc' = "split" /\ config' = save_cur /\ fresh' = FALSE /\ todo' = ConfSyms
        /\ UNCHANGED <<save_cur, old, generated, touched, built>>
    BY <1>3 DEF Conf!Save, Conf!Fill
  <2>2. AutoTypes'
    BY <2>1 DEF AutoTypes
  <2>3. BuiltOrTouched' /\ FreshAgree'
    BY <2>1 DEF BuiltOrTouched, FreshAgree
  <2>4. Compared' /\ RenamedAgree'
    BY <2>1 DEF Compared, Writing, RenamedAgree, Renamed
  <2>5. QED
    BY <2>2, <2>3, <2>4
<1>4. CASE Conf!Split
  <2>1. PICK s \in todo :
          /\ save_pc = "split" /\ todo' = todo \ {s}
          /\ touched' = IF Conf!Changed(save_cur[s], generated["auto"][s])
                        THEN touched \union {s} ELSE touched
          /\ UNCHANGED <<save_cur, config, old, generated, fresh, built, save_pc>>
    BY <1>4 DEF Conf!Split
  <2>2. s \in ConfSyms /\ touched \subseteq touched' /\ touched' \subseteq ConfSyms
    BY <2>1 DEF AutoTypes
  <2>3. AutoTypes'
    BY <2>1, <2>2 DEF AutoTypes
  <2>4. BuiltOrTouched' /\ FreshAgree'
    BY <2>1, <2>2 DEF BuiltOrTouched, FreshAgree, Conf!Generated
  <2>5. Conf!Generated(save_cur)[s] # generated["auto"][s] => s \in touched'
    <3>1. generated["auto"][s] \in SavedValues /\ save_cur \in Conf!Configs
      BY <2>2 DEF AutoTypes
    <3>2. QED
      BY <2>1, <2>2, <3>1, SavedTypes
  <2>6. Compared'
    <3>1. Conf!Generated(save_cur)' = Conf!Generated(save_cur)
      BY <2>1 DEF Conf!Generated
    <3>2. QED
      BY <2>1, <2>2, <2>5, <3>1 DEF Compared, Writing
  <2>7. RenamedAgree'
    BY <2>1 DEF RenamedAgree, Renamed
  <2>8. QED
    BY <2>3, <2>4, <2>6, <2>7
<1>5. CASE Conf!Print4
  <2>1. /\ save_pc = "split" /\ todo = {} /\ save_pc' \in {"idle", "header"}
        /\ UNCHANGED <<save_cur, config, old, generated, fresh, touched, built, todo>>
    BY <1>5 DEF Conf!Print4
  <2>2. AutoTypes'
    BY <2>1 DEF AutoTypes
  <2>3. BuiltOrTouched' /\ FreshAgree' /\ Compared'
    BY <2>1 DEF BuiltOrTouched, FreshAgree, Compared, Writing, Conf!Generated
  <2>4. RenamedAgree'
    BY <2>1 DEF RenamedAgree, Renamed
  <2>5. QED
    BY <2>2, <2>3, <2>4
<1>6. CASE Conf!Rename
  BY <1>6, RenameKeeps
<1>7. CASE Conf!Stop
  <2>1. /\ save_pc' = "idle"
        /\ UNCHANGED <<save_cur, config, old, generated, fresh, touched, built, todo>>
    BY <1>7 DEF Conf!Stop
  <2>2. AutoTypes'
    BY <2>1 DEF AutoTypes
  <2>3. BuiltOrTouched' /\ FreshAgree'
    BY <2>1 DEF BuiltOrTouched, FreshAgree, Conf!Generated
  <2>4. Compared' /\ RenamedAgree'
    BY <2>1 DEF Compared, Writing, RenamedAgree, Renamed
  <2>5. QED
    BY <2>2, <2>3, <2>4
<1>8. CASE Conf!Build
  <2>1. /\ save_pc = "idle" /\ fresh /\ touched' = {}
        /\ built' = [s \in ConfSyms |-> IF s \in touched THEN generated["header"][s] ELSE built[s]]
        /\ UNCHANGED <<save_cur, config, old, generated, fresh, save_pc, todo>>
    BY <1>8 DEF Conf!Build
  <2>2. generated["header"] = generated["auto"]
    BY <2>1 DEF FreshAgree
  <2>3. \A s \in ConfSyms : built'[s] = generated["auto"][s]
    BY <2>1, <2>2 DEF BuiltOrTouched
  <2>4. AutoTypes'
    BY <2>1 DEF AutoTypes
  <2>5. BuiltOrTouched' /\ FreshAgree'
    BY <2>1, <2>3 DEF BuiltOrTouched, FreshAgree, Conf!Generated
  <2>6. Compared' /\ RenamedAgree'
    BY <2>1 DEF Compared, Writing, RenamedAgree, Renamed
  <2>7. QED
    BY <2>4, <2>5, <2>6
<1>9. CASE UNCHANGED Conf!vars
  <2>1. UNCHANGED <<save_cur, config, old, generated, fresh, touched, built, save_pc, todo>>
    BY <1>9 DEF Conf!vars
  <2>2. AutoTypes' /\ BuiltOrTouched' /\ RenamedAgree'
    BY <2>1 DEF AutoTypes, BuiltOrTouched, RenamedAgree, Renamed, Conf!Generated
  <2>3. FreshAgree' /\ Compared'
    BY <2>1 DEF FreshAgree, Compared, Writing, Conf!Generated
  <2>4. QED
    BY <2>2, <2>3
<1>10. CASE Conf!Truncate
  <2>1. /\ save_pc' = "fill" /\ config' = Conf!Torn /\ fresh' = FALSE
        /\ UNCHANGED <<save_cur, old, generated, touched, built, todo>>
    BY <1>10 DEF Conf!Truncate
  <2>2. AutoTypes'
    BY <2>1 DEF AutoTypes, Conf!Torn
  <2>3. BuiltOrTouched' /\ FreshAgree'
    BY <2>1 DEF BuiltOrTouched, FreshAgree
  <2>4. Compared' /\ RenamedAgree'
    BY <2>1 DEF Compared, Writing, RenamedAgree, Renamed
  <2>5. QED
    BY <2>2, <2>3, <2>4
<1>11. QED
  BY <1>1, <1>2, <1>3, <1>4, <1>5, <1>6, <1>7, <1>8, <1>9, <1>10 DEF Conf!Next

(* confdata.c: whatever the symbols and however many runs were cut short   *)
(* at any step, when auto.conf is newer than .config all generated files   *)
(* say what .config says, and what depends on a symbol whose value is      *)
(* another than when it was built is built again.                          *)
THEOREM BuildNotStale == AllSpec => []NothingStale
<1> DEFINE Inv == part = "save" => AutoInv
<1>1. AllInit => Inv
  BY AutoInit DEF AllInit
<1>2. Inv /\ [AllNext]_allVars => Inv'
  <2> SUFFICES ASSUME Inv, [AllNext]_allVars, part' = "save" PROVE AutoInv'
    OBVIOUS
  <2>1. part = "save" /\ [Conf!Next]_Conf!vars
    BY DEF AllNext, FrameStep, TxStep, FileStep, SaveStep, DepsStep, allVars, saveVars, Conf!vars
  <2>2. QED
    BY <2>1, AutoKept
<1>3. Inv => NothingStale
  <2> SUFFICES ASSUME AutoInv PROVE Conf!NothingStale /\ Conf!FreshMeansAgree
    BY DEF NothingStale
  <2>1. Conf!NothingStale
    BY DEF AutoInv, BuiltOrTouched, FreshAgree, Conf!NothingStale, Conf!Outputs
  <2>2. Conf!FreshMeansAgree
    BY DEF AutoInv, FreshAgree, Conf!FreshMeansAgree
  <2>3. QED
    BY <2>1, <2>2
<1>4. QED
  BY <1>1, <1>2, <1>3, PTL DEF AllSpec

(* confdata.c: the rename to .config.old and the writing of .config leave  *)
(* a whole configuration under one of the two names, wherever the tool     *)
(* stops.  A run with KCONFIG_OVERWRITECONFIG may lose the one in .config, *)
(* and the run that follows one that stopped in it the one in .config.old. *)
THEOREM AConfigIsKept == Conf!Spec => Conf!ConfigKept
<1>1. ASSUME AutoInv, [Conf!Next]_Conf!vars, Conf!Whole(config) \/ Conf!Whole(old),
             ~Conf!Truncate, ~(Conf!SaveOld /\ config = Conf!Torn)
      PROVE  Conf!Whole(config') \/ Conf!Whole(old')
  <2>1. CASE Conf!SaveOld
    BY <1>1, <2>1 DEF Conf!SaveOld, Conf!Backup, Conf!Whole
  <2>2. CASE Conf!Save \/ Conf!Fill
    <3>1. config' = save_cur /\ save_cur \in Conf!Configs
      BY <1>1, <2>2 DEF Conf!Save, Conf!Fill, AutoInv, AutoTypes
    <3>2. PICK s \in ConfSyms : TRUE
      <4>1. /\ config \in [ConfSyms -> 0 .. 9] /\ old \in [ConfSyms -> 0 .. 9]
            /\ Conf!Missing \in [ConfSyms -> 0 .. 9]
        BY <1>1 DEF AutoInv, AutoTypes, Conf!Configs, Conf!Missing, Conf!Torn
      <4>2. ConfSyms = {} => config = Conf!Missing /\ old = Conf!Missing
        BY <4>1
      <4>3. QED
        BY <1>1, <4>2 DEF Conf!Whole
    <3>3. save_cur[s] \in 0 .. 3 /\ Conf!Missing[s] = 9 /\ Conf!Torn[s] = 8
      BY <3>1 DEF Conf!Configs, Conf!Missing, Conf!Torn
    <3>4. QED
      BY <3>1, <3>3 DEF Conf!Whole
  <2>3. CASE UNCHANGED <<config, old>>
    BY <1>1, <2>3 DEF Conf!Whole
  <2>4. Conf!SaveOld \/ Conf!Save \/ Conf!Fill \/ UNCHANGED <<config, old>>
    BY <1>1 DEF Conf!Next, Conf!vars, Conf!Start, Conf!Split, Conf!Print4, Conf!Rename, Conf!Stop,
                Conf!Build
  <2>5. QED
    BY <2>1, <2>2, <2>3, <2>4
<1>2. QED
  BY <1>1, AutoInit, AutoKept, PTL DEF Conf!Spec, Conf!ConfigKept
-----------------------------------------------------------------------------
(* The search for recursive dependencies: KDeps.                           *)
DepsOf(s) == {deps[s][i] : i \in DOMAIN deps[s]}
Elements(q) == {q[i] : i \in DOMAIN q}

(* What a frame goes through, and the symbols of the printed paths.        *)
Calls(f) ==
  CASE f.kind = "value" -> {Choice}
    [] f.kind = "values" -> Deps!Values
    [] OTHER -> DepsOf(f.sym)
Broken == UNION {UNION {Deps!Whole(p[i]) : i \in DOMAIN p} : p \in paths}

(* A search that is over, unless a path was printed through it.            *)
Over(s) == s \in checked \ check
Settled(s) == s \in Broken \/ Over(s)
Finished == {s \in checked \ check : s \notin Broken}

(* A frame is of the kind of its symbol; below a frame is the one it was   *)
(* called from.                                                            *)
Fits(f) ==
  /\ Elements(f.todo) \subseteq Calls(f)
  /\ f.kind \in {"value", "member"} <=> f.sym \in Deps!Values
  /\ f.kind \in {"choice", "values"} <=> f.sym = Choice
Framed ==
  \A j \in 1 .. Len(stack) :
    /\ Fits(stack[j])
    /\ stack[j].kind = "member" => j < Len(stack) /\ stack[j + 1].kind = "values"
    /\ j > 1 => stack[j - 1].sym \in Calls(stack[j])

(* The flags of a choice and its values go together; a frame's symbol is   *)
(* flagged, and conf_parse has begun every symbol that is not pending.     *)
Together ==
  \A v \in Deps!Values : /\ v \in checked <=> Choice \in checked
                         /\ \A w \in Deps!Values : v \in check <=> w \in check
FrameFlags ==
  \A j \in 1 .. Len(stack) : /\ stack[j].kind # "value" => stack[j].sym \in checked
                             /\ stack[j].kind = "values" => Choice \notin check
Begun ==
  \A s \in Syms \ pending :
    s \in checked \/ \E j \in 1 .. Len(stack) : stack[j].kind = "value" /\ stack[j].sym = s
Flagged == Together /\ FrameFlags /\ Begun

(* A value whose choice is not searched yet is at the top; the search of   *)
(* the choice is above every value that began it.                          *)
Valued ==
  \A j \in 1 .. Len(stack) : stack[j].kind = "value" =>
    /\ stack[j].todo \in {<<>>, <<Choice>>}
    /\ stack[j].todo = <<>> => Choice \in checked
    /\ stack[j].todo # <<>> => j = 1 /\ ret = NoSym
    /\ \A i \in 1 .. Len(stack) : stack[i].sym = Choice => i < j

(* A symbol that is returned was printed with all it is returned through.  *)
Returning ==
  ret # NoSym =>
    \E m \in 1 .. Len(stack) : /\ Deps!Returns(stack[m], ret) = NoSym
                               /\ \A j \in 1 .. m : stack[j].sym \in Broken

(* What a frame has gone through is settled, but for what is above it.     *)
Ready(f, t) ==
  \/ t \in Broken
  \/ IF f.kind = "values" THEN \A b \in DepsOf(t) : Settled(b) ELSE Over(t)
Progress ==
  \A j \in 1 .. Len(stack) : \A t \in Calls(stack[j]) :
    t \in Elements(stack[j].todo) \/ Ready(stack[j], t) \/ (j > 1 /\ t = stack[j - 1].sym)

Closed == \A s \in Finished : \A b \in DepsOf(s) : Settled(b)

DepsInv ==
  /\ Deps!Sizes /\ Deps!TypeOK /\ Deps!FlagsOnStack /\ Deps!PrintedIsCycle /\ Deps!NeverCounted
  /\ Framed /\ Flagged /\ Valued /\ Returning /\ Progress /\ Closed /\ ~Deps!Cyclic(Finished)
-----------------------------------------------------------------------------
(* How a step changes the stack: the frame at its top is another one, a    *)
(* frame is put on top of that one, or the frame at the top is left.       *)
Swapped(g) ==
  /\ Len(stack') = Len(stack) /\ stack'[1] = g
  /\ \A j \in 2 .. Len(stack) : stack'[j] = stack[j]
Stacked(f, g) ==
  /\ Len(stack') = Len(stack) + 1 /\ stack'[1] = f /\ stack'[2] = g
  /\ \A j \in 3 .. Len(stack) + 1 : stack'[j] = stack[j - 1]
Left ==
  /\ Len(stack') = Len(stack) - 1
  /\ \A j \in 1 .. Len(stack) - 1 : stack'[j] = stack[j + 1]

LEMMA OnTop ==
  ASSUME NEW S, NEW s \in Seq(S), NEW g \in S
  PROVE  /\ <<g>> \o s \in Seq(S) /\ Len(<<g>> \o s) = Len(s) + 1 /\ Len(s) \in Nat
         /\ (<<g>> \o s)[1] = g
         /\ \A j \in 2 .. Len(s) + 1 : (<<g>> \o s)[j] = s[j - 1]
<1> DEFINE a == <<g>>
<1>1. a \in Seq(S) /\ Len(a) = 1 /\ a[1] = g
  OBVIOUS
<1> HIDE DEF a
<1>2. /\ a \o s \in Seq(S) /\ Len(s) \in Nat /\ Len(a \o s) = Len(a) + Len(s)
      /\ \A n \in 1 .. Len(a) : (a \o s)[n] = a[n]
      /\ \A n \in Len(a) + 1 .. Len(a) + Len(s) : (a \o s)[n] = s[n - Len(a)]
  BY <1>1, Joined
<1>3. (a \o s)[1] = g /\ \A j \in 2 .. Len(s) + 1 : (a \o s)[j] = s[j - 1]
  BY <1>1, <1>2
<1>4. QED
  BY <1>1, <1>2, <1>3 DEF a

LEMMA SwappedTop ==
  ASSUME NEW S, stack \in Seq(S), stack # <<>>, NEW g \in S, stack' = <<g>> \o Tail(stack)
  PROVE  stack' \in Seq(S) /\ Swapped(g)
<1> DEFINE b == Tail(stack)
<1>1. /\ b \in Seq(S) /\ Len(stack) \in Nat \ {0} /\ Len(b) = Len(stack) - 1
      /\ \A n \in 1 .. Len(b) : b[n] = stack[n + 1]
  BY Popped
<1> HIDE DEF b
<1>2. /\ <<g>> \o b \in Seq(S) /\ Len(<<g>> \o b) = Len(b) + 1
      /\ (<<g>> \o b)[1] = g
      /\ \A j \in 2 .. Len(b) + 1 : (<<g>> \o b)[j] = b[j - 1]
  BY <1>1, OnTop
<1>3. stack' = <<g>> \o b
  BY DEF b
<1>4. ASSUME NEW j \in 2 .. Len(stack) PROVE stack'[j] = stack[j]
  <2>1. j \in 2 .. Len(b) + 1 /\ j - 1 \in 1 .. Len(b) /\ (j - 1) + 1 = j
    BY <1>1
  <2>2. QED
    BY <1>1, <1>2, <1>3, <2>1
<1>5. QED
  BY <1>1, <1>2, <1>3, <1>4 DEF Swapped

LEMMA StackedTop ==
  ASSUME NEW S, stack \in Seq(S), stack # <<>>, NEW f \in S, NEW g \in S,
         stack' = <<f>> \o (<<g>> \o Tail(stack))
  PROVE  stack' \in Seq(S) /\ Stacked(f, g)
<1> DEFINE b == Tail(stack)
           c == <<g>> \o b
<1>1. /\ b \in Seq(S) /\ Len(stack) \in Nat \ {0} /\ Len(b) = Len(stack) - 1
      /\ \A n \in 1 .. Len(b) : b[n] = stack[n + 1]
  BY Popped
<1> HIDE DEF b
<1>2. /\ c \in Seq(S) /\ Len(c) = Len(b) + 1 /\ c[1] = g
      /\ \A j \in 2 .. Len(b) + 1 : c[j] = b[j - 1]
  BY <1>1, OnTop
<1>3. stack' = <<f>> \o c
  BY DEF b
<1> HIDE DEF c
<1>4. /\ stack' \in Seq(S) /\ Len(stack') = Len(c) + 1 /\ stack'[1] = f
      /\ \A j \in 2 .. Len(c) + 1 : stack'[j] = c[j - 1]
  <2>1. /\ <<f>> \o c \in Seq(S) /\ Len(<<f>> \o c) = Len(c) + 1 /\ (<<f>> \o c)[1] = f
        /\ \A j \in 2 .. Len(c) + 1 : (<<f>> \o c)[j] = c[j - 1]
    BY <1>2, OnTop
  <2>2. QED
    BY <1>3, <2>1
<1>5. Len(stack') = Len(stack) + 1 /\ stack'[2] = g
  <2>1. 2 \in 2 .. Len(c) + 1 /\ 2 - 1 = 1
    BY <1>1, <1>2
  <2>2. QED
    BY <1>1, <1>2, <1>4, <2>1
<1>6. ASSUME NEW j \in 3 .. Len(stack) + 1 PROVE stack'[j] = stack[j - 1]
  <2>1. /\ j \in 2 .. Len(c) + 1 /\ j - 1 \in 2 .. Len(b) + 1
        /\ (j - 1) - 1 \in 1 .. Len(b) /\ ((j - 1) - 1) + 1 = j - 1
    BY <1>1, <1>2
  <2>2. QED
    BY <1>1, <1>2, <1>4, <2>1
<1>7. QED
  BY <1>4, <1>5, <1>6 DEF Stacked

LEMMA Both ==
  ASSUME NEW S, NEW s \in Seq(S), NEW f \in S, NEW g \in S
  PROVE  <<f, g>> \o s = <<f>> \o (<<g>> \o s)
<1>1. <<f>> \in Seq(S) /\ <<g>> \in Seq(S)
  OBVIOUS
<1>2. (<<f>> \o <<g>>) \o s = <<f>> \o (<<g>> \o s)
  BY <1>1, ConcatAssociative
<1>3. <<f>> \o <<g>> = <<f, g>>
  <2> DEFINE a == <<f>> \o <<g>>
             b == <<f, g>>
             c == <<g>>
  <2>1. c \in Seq(S) /\ Len(c) = 1 /\ c[1] = g
    OBVIOUS
  <2>2. b \in Seq(S) /\ Len(b) = 2 /\ b[1] = f /\ b[2] = g
    OBVIOUS
  <2> HIDE DEF b, c
  <2>3. /\ <<f>> \o c \in Seq(S) /\ Len(<<f>> \o c) = Len(c) + 1 /\ (<<f>> \o c)[1] = f
        /\ \A j \in 2 .. Len(c) + 1 : (<<f>> \o c)[j] = c[j - 1]
    <3>1. c \in Seq(S)
      BY <2>1
    <3>2. QED
      BY <3>1, OnTop
  <2>4. a \in Seq(S) /\ Len(a) = 2 /\ a[1] = f /\ a[2] = g
    <3>1. 2 \in 2 .. Len(c) + 1 /\ 2 - 1 = 1 /\ Len(c) + 1 = 2
      BY <2>1
    <3>2. QED
      BY <2>1, <2>3, <3>1 DEF c
  <2> HIDE DEF a
  <2>5. \A i \in 1 .. 2 : a[i] = b[i]
    BY <2>2, <2>4
  <2>6. a = b
    BY <2>2, <2>4, <2>5, SeqEqual
  <2>7. QED
    BY <2>6 DEF a, b
<1>4. QED
  BY <1>2, <1>3

LEMMA LeftTop ==
  ASSUME NEW S, stack \in Seq(S), stack # <<>>, stack' = Tail(stack)
  PROVE  stack' \in Seq(S) /\ Left
BY Popped DEF Left
-----------------------------------------------------------------------------
(* The symbols of the printed paths, a choice and its values together.     *)
LEMMA BrokenFacts ==
  /\ \A p \in paths : \A i \in DOMAIN p : p[i] \in Broken
  /\ \A s \in Deps!Values \union {Choice} :
       s \in Broken => Deps!Values \union {Choice} \subseteq Broken
<1>1. \A s : s \in Deps!Whole(s)
  BY DEF Deps!Whole
<1>2. ASSUME NEW p \in paths, NEW i \in DOMAIN p
      PROVE  p[i] \in Broken
  BY <1>1 DEF Broken
<1>3. ASSUME NEW s \in Deps!Values \union {Choice}, s \in Broken,
             NEW t \in Deps!Values \union {Choice}
      PROVE  t \in Broken
  <2>1. PICK p \in paths : \E i \in DOMAIN p : s \in Deps!Whole(p[i])
    BY <1>3 DEF Broken
  <2>2. PICK i \in DOMAIN p : s \in Deps!Whole(p[i])
    BY <2>1
  <2>3. t \in Deps!Whole(p[i])
    BY <1>3, <2>2 DEF Deps!Whole
  <2>4. QED
    BY <2>3 DEF Broken
<1>4. QED
  BY <1>2, <1>3

LEMMA BrokenGrows ==
  ASSUME paths \subseteq paths'
  PROVE  Broken \subseteq Broken'
BY DEF Broken

(* The frame at the top, and the caller with one dependency less to look at. *)
LEMMA TopFacts ==
  ASSUME DepsInv, stack # <<>>
  PROVE  /\ stack \in Seq(Deps!Records) /\ Len(stack) \in Nat \ {0} /\ 1 \in 1 .. Len(stack)
         /\ DOMAIN stack = 1 .. Len(stack)
         /\ Deps!Top = stack[1] /\ Deps!Top \in Deps!Records
         /\ Deps!Top.sym \in Syms /\ Deps!Top.todo \in Seq(Syms) /\ Deps!Top.kind \in Deps!Kinds
<1>1. stack \in Seq(Deps!Records)
  BY DEF DepsInv, Deps!TypeOK
<1>2. Len(stack) \in Nat \ {0} /\ stack[1] \in Deps!Records /\ DOMAIN stack = 1 .. Len(stack)
  BY <1>1, Popped, LenProperties
<1>3. QED
  BY <1>1, <1>2 DEF Deps!Records, Deps!Top

LEMMA CallerFacts ==
  ASSUME DepsInv, Deps!Working
  PROVE  /\ Deps!Caller \in Deps!Records /\ Deps!Caller.kind = Deps!Top.kind
         /\ Deps!Caller.sym = Deps!Top.sym
         /\ Elements(Deps!Caller.todo) \subseteq Elements(Deps!Top.todo)
         /\ \A t \in Elements(Deps!Top.todo) : t = Deps!Dep \/ t \in Elements(Deps!Caller.todo)
         /\ Deps!Dep \in Elements(Deps!Top.todo) /\ Deps!Dep \in Syms
         /\ Calls(Deps!Caller) = Calls(Deps!Top)
         /\ Deps!Dep \in Calls(Deps!Top)
<1> DEFINE q == Deps!Top.todo
<1>1. stack # <<>> /\ q # <<>>
  BY DEF Deps!Working
<1>2. q \in Seq(Syms) /\ Deps!Top \in Deps!Records
  BY <1>1, TopFacts
<1>3. /\ Head(q) \in Syms /\ Head(q) = q[1] /\ Tail(q) \in Seq(Syms) /\ Len(q) \in Nat \ {0}
      /\ Len(Tail(q)) = Len(q) - 1 /\ \A n \in 1 .. Len(Tail(q)) : Tail(q)[n] = q[n + 1]
      /\ DOMAIN q = 1 .. Len(q) /\ DOMAIN Tail(q) = 1 .. Len(Tail(q))
  BY <1>1, <1>2, Popped, LenProperties
<1>4. /\ Deps!Caller = [Deps!Top EXCEPT !.todo = Tail(q)]
  BY DEF Deps!Caller
<1> HIDE DEF q
<1>5. /\ Deps!Caller \in Deps!Records /\ Deps!Caller.kind = Deps!Top.kind
      /\ Deps!Caller.sym = Deps!Top.sym /\ Deps!Caller.todo = Tail(q)
  BY <1>2, <1>3, <1>4 DEF Deps!Records
<1>6. Elements(Tail(q)) \subseteq Elements(q)
  BY <1>3 DEF Elements
<1>7. ASSUME NEW t \in Elements(q), t # q[1] PROVE t \in Elements(Tail(q))
  <2>1. PICK i \in 1 .. Len(q) : t = q[i]
    BY <1>3 DEF Elements
  <2>2. i - 1 \in 1 .. Len(Tail(q)) /\ (i - 1) + 1 = i
    BY <1>3, <1>7, <2>1
  <2>3. t = Tail(q)[i - 1]
    BY <1>3, <2>1, <2>2
  <2>4. QED
    BY <1>3, <2>2, <2>3 DEF Elements
<1>8. Deps!Dep = q[1] /\ q[1] \in Elements(q)
  BY <1>3 DEF Deps!Dep, Elements, q
<1>9. Calls(Deps!Caller) = Calls(Deps!Top)
  BY <1>5 DEF Calls
<1>10. Deps!Dep \in Calls(Deps!Top)
  <2>1. Elements(Deps!Top.todo) \subseteq Calls(Deps!Top)
    BY <1>1, TopFacts DEF DepsInv, Framed, Fits
  <2>2. QED
    BY <1>8, <2>1 DEF q
<1>11. QED
  BY <1>3, <1>5, <1>6, <1>7, <1>8, <1>9, <1>10 DEF q

(* What a frame calls is a dependency of its symbol, or the choice and its *)
(* values.                                                                 *)
LEMMA CallsAreEdges ==
  ASSUME DepsInv, NEW j \in 1 .. Len(stack), NEW t \in Calls(stack[j])
  PROVE  Deps!Edge(stack[j].sym, t) /\ t \in Syms
<1>1. /\ stack[j].kind = "value" => stack[j].sym \in Deps!Values
      /\ stack[j].kind = "values" => stack[j].sym = Choice
  BY DEF DepsInv, Framed, Fits
<1>2. stack[j].sym \in Syms
  <2>1. stack[j] \in Deps!Records
    BY DEF DepsInv, Deps!TypeOK
  <2>2. QED
    BY <2>1 DEF Deps!Records
<1>3. \A s \in Syms : DepsOf(s) \subseteq Syms
  BY DEF DepsInv, Deps!TypeOK, DepsOf
<1>4. Choice \in Syms /\ Deps!Values \subseteq Syms
  BY DEF DepsInv, Deps!Sizes, Deps!Values
<1>5. QED
  BY <1>1, <1>2, <1>3, <1>4 DEF Calls, Deps!Edge, DepsOf

(* sym_check_print_recursive: the path goes from the innermost frame of    *)
(* the symbol, or of its choice, to the top.                               *)
LEMMA PrintedPath ==
  ASSUME DepsInv, Deps!Recursive
  PROVE  \E n \in 1 .. Len(stack) :
           /\ Deps!Returns(stack[n], Deps!Dep) = NoSym
           /\ LET p == Deps!Printed(Deps!Dep) IN
                /\ Len(p) \in Nat /\ DOMAIN p = 1 .. Len(p)
                /\ \A j \in 1 .. n : \E i \in DOMAIN p : p[i] = stack[j].sym
                /\ \E i \in DOMAIN p : p[i] = Deps!Dep
                /\ \A i \in 1 .. Len(p) : Deps!Edge(p[i], p[IF i = Len(p) THEN 1 ELSE i + 1])
<1> DEFINE d == Deps!Dep
           last == IF d \in Deps!Values THEN Choice ELSE d
<1>1. Deps!Working /\ d \in check /\ stack # <<>>
  BY DEF Deps!Recursive, Deps!Stops, Deps!Working
<1>2. /\ stack \in Seq(Deps!Records) /\ Len(stack) \in Nat \ {0} /\ DOMAIN stack = 1 .. Len(stack)
      /\ Deps!Top = stack[1] /\ d \in Calls(stack[1]) /\ d \in Syms
  BY <1>1, TopFacts, CallerFacts
<1>3. \A j \in 1 .. Len(stack) :
        /\ stack[j].kind \in {"value", "member"} <=> stack[j].sym \in Deps!Values
        /\ stack[j].kind \in {"choice", "values"} <=> stack[j].sym = Choice
        /\ stack[j].kind = "member" => j < Len(stack) /\ stack[j + 1].kind = "values"
        /\ j > 1 => stack[j - 1].sym \in Calls(stack[j])
  BY DEF DepsInv, Framed, Fits
<1>4. \E j \in 1 .. Len(stack) : stack[j].sym = last
  <2>1. PICK j \in 1 .. Len(stack) : stack[j].kind # "value" /\ d \in Deps!Group(stack[j].sym)
    BY <1>1, <1>2 DEF DepsInv, Deps!FlagsOnStack
  <2>2. CASE d \notin Deps!Values
    BY <2>1, <2>2 DEF Deps!Group
  <2>3. CASE d \in Deps!Values /\ stack[j].sym = d
    <3>1. stack[j].kind = "member"
      BY <1>3, <2>1, <2>3
    <3>2. j + 1 \in 1 .. Len(stack) /\ stack[j + 1].kind = "values"
      BY <1>2, <1>3, <3>1
    <3>3. QED
      BY <1>3, <2>3, <3>2
  <2>4. CASE d \in Deps!Values /\ stack[j].sym # d
    BY <2>1, <2>4 DEF Deps!Group
  <2>5. QED
    BY <2>2, <2>3, <2>4
<1> HIDE DEF last
<1>5. \E n \in 1 .. Len(stack) : stack[n].sym = last /\ \A j \in 1 .. n - 1 : stack[j].sym # last
  <2> DEFINE T == {j \in 1 .. Len(stack) : stack[j].sym = last}
  <2>1. T \in SUBSET Nat /\ T # {}
    BY <1>4
  <2>2. PICK n \in T : \A j \in T : n <= j
    BY <2>1, LeastNatural
  <2>3. n \in 1 .. Len(stack) /\ stack[n].sym = last
    OBVIOUS
  <2>4. ASSUME NEW j \in 1 .. n - 1 PROVE stack[j].sym # last
    <3>1. j \in 1 .. Len(stack) /\ ~(n <= j)
      BY <1>2, <2>3
    <3>2. QED
      BY <2>2, <3>1
  <2>5. QED
    BY <2>3, <2>4
<1> DEFINE n == CHOOSE i \in DOMAIN stack :
                  stack[i].sym = last /\ \A j \in 1 .. i - 1 : stack[j].sym # last
           path == [i \in 1 .. n |-> stack[n + 1 - i].sym]
           p == IF d \in Deps!Values THEN Append(path, d) ELSE path
<1>6. n \in 1 .. Len(stack) /\ stack[n].sym = last
  BY <1>2, <1>5
<1>7. Deps!Printed(d) = p
  BY DEF Deps!Printed, last
<1> HIDE DEF n
<1>8. /\ path \in Seq(Syms) /\ Len(path) = n /\ \A i \in 1 .. n : path[i] = stack[n + 1 - i].sym
      /\ n \in Nat
  <2>1. ASSUME NEW i \in 1 .. n PROVE stack[n + 1 - i].sym \in Syms
    <3>1. n + 1 - i \in 1 .. Len(stack)
      BY <1>2, <1>6
    <3>2. stack[n + 1 - i] \in Deps!Records
      BY <1>2, <3>1
    <3>3. QED
      BY <3>2 DEF Deps!Records
  <2>2. n \in Nat
    BY <1>2, <1>6
  <2>3. QED
    BY <2>1, <2>2
<1> HIDE DEF path
<1>9. Deps!Returns(stack[n], d) = NoSym
  BY <1>3, <1>6 DEF Deps!Returns, last
<1>10. \A j \in 1 .. n : \E i \in 1 .. n : path[i] = stack[j].sym
  <2> SUFFICES ASSUME NEW j \in 1 .. n PROVE \E i \in 1 .. n : path[i] = stack[j].sym
    OBVIOUS
  <2>1. n + 1 - j \in 1 .. n /\ n + 1 - (n + 1 - j) = j
    BY <1>8
  <2>2. QED
    BY <1>8, <2>1
<1>11. path[1] = last /\ path[n] = stack[1].sym
  <2>1. 1 \in 1 .. n /\ n \in 1 .. n /\ n + 1 - 1 = n /\ n + 1 - n = 1
    BY <1>6, <1>8
  <2>2. QED
    BY <1>6, <1>8, <2>1
<1>12. ASSUME NEW i \in 1 .. n - 1 PROVE Deps!Edge(path[i], path[i + 1])
  <2> DEFINE j == n + 1 - i
  <2>1. /\ i \in 1 .. n /\ i + 1 \in 1 .. n /\ j \in 1 .. Len(stack) /\ j > 1
        /\ n + 1 - (i + 1) = j - 1
    BY <1>2, <1>6, <1>8
  <2>2. path[i] = stack[j].sym /\ path[i + 1] = stack[j - 1].sym
    BY <1>8, <2>1
  <2> HIDE DEF j
  <2>3. stack[j - 1].sym \in Calls(stack[j])
    BY <1>3, <2>1
  <2>4. QED
    BY <2>1, <2>2, <2>3, CallsAreEdges
<1>13. Deps!Edge(path[n], d)
  <2>1. 1 \in 1 .. Len(stack)
    BY <1>2
  <2>2. QED
    BY <1>2, <1>11, <2>1, CallsAreEdges
<1> DEFINE next(q, i) == q[IF i = Len(q) THEN 1 ELSE i + 1]
<1>14. /\ Len(p) \in Nat /\ DOMAIN p = 1 .. Len(p)
       /\ \A j \in 1 .. n : \E i \in DOMAIN p : p[i] = stack[j].sym
       /\ \E i \in DOMAIN p : p[i] = d
       /\ \A i \in 1 .. Len(p) : Deps!Edge(p[i], next(p, i))
  <2>1. CASE d \notin Deps!Values
    <3>1. p = path /\ last = d /\ DOMAIN path = 1 .. n
      BY <1>8, <2>1 DEF last
    <3>2. \A i \in 1 .. n : Deps!Edge(path[i], next(path, i))
      <4> SUFFICES ASSUME NEW i \in 1 .. n PROVE Deps!Edge(path[i], next(path, i))
        OBVIOUS
      <4>1. CASE i = n
        BY <1>8, <1>11, <1>13, <3>1, <4>1
      <4>2. CASE i # n
        <5>1. i \in 1 .. n - 1
          BY <1>8, <4>2
        <5>2. QED
          BY <1>8, <1>12, <4>2, <5>1
      <4>3. QED
        BY <4>1, <4>2
    <3>3. 1 \in 1 .. n
      BY <1>6, <1>8
    <3> HIDE DEF next, p
    <3>4. QED
      BY <1>8, <1>10, <1>11, <3>1, <3>2, <3>3
  <2>2. CASE d \in Deps!Values
    <3>1. p = Append(path, d) /\ last = Choice /\ d \in Syms
      BY <1>2, <2>2 DEF last
    <3>2. /\ p \in Seq(Syms) /\ Len(p) = n + 1 /\ DOMAIN p = 1 .. n + 1
          /\ \A i \in 1 .. n : p[i] = path[i]
          /\ p[n + 1] = d
      BY <1>8, <3>1, Pushed
    <3> HIDE DEF p
    <3>3. Deps!Edge(d, Choice)
      BY <2>2 DEF Deps!Edge
    <3>4. \A i \in 1 .. n + 1 : Deps!Edge(p[i], next(p, i))
      <4> SUFFICES ASSUME NEW i \in 1 .. n + 1 PROVE Deps!Edge(p[i], next(p, i))
        OBVIOUS
      <4>1. CASE i = n + 1
        <5>1. 1 \in 1 .. n /\ p[1] = Choice
          BY <1>6, <1>8, <1>11, <3>1, <3>2
        <5>2. QED
          BY <3>2, <3>3, <4>1, <5>1
      <4>2. CASE i = n
        <5>1. next(p, i) = p[n + 1] /\ i \in 1 .. n
          BY <1>6, <1>8, <3>2, <4>2
        <5>2. QED
          BY <1>13, <3>2, <4>2, <5>1
      <4>3. CASE i # n /\ i # n + 1
        <5>1. i \in 1 .. n - 1 /\ i \in 1 .. n /\ i + 1 \in 1 .. n /\ next(p, i) = p[i + 1]
          BY <1>8, <3>2, <4>3
        <5>2. QED
          BY <1>12, <3>2, <5>1
      <4>4. QED
        BY <4>1, <4>2, <4>3
    <3>5. n + 1 \in DOMAIN p /\ 1 .. n \subseteq DOMAIN p /\ Len(p) \in Nat
      BY <1>8, <3>2
    <3> HIDE DEF next
    <3>6. \A j \in 1 .. n : \E i \in DOMAIN p : p[i] = stack[j].sym
      BY <1>10, <3>2, <3>5
    <3>7. QED
      BY <3>2, <3>4, <3>5, <3>6
  <2>3. QED
    BY <2>1, <2>2
<1> HIDE DEF p
<1>15. QED
  BY <1>6, <1>7, <1>9, <1>14
-----------------------------------------------------------------------------
(* The values of a choice are settled together.                            *)
LEMMA FinishedTogether ==
  Flagged => \A v, w \in Deps!Values : v \in Finished => w \in Finished
BY BrokenFacts DEF Flagged, Together, Finished

(* What is finished stays without a cycle: a step may add to it, but only  *)
(* what depends on nothing but what was settled before.                    *)
LEMMA StaysAcyclic ==
  ASSUME DepsInv, deps' = deps, Broken \subseteq Broken', Flagged',
         \A s \in Finished' : \A b \in DepsOf(s) : Settled(b),
         \A s : Settled(s) => Settled(s)'
  PROVE  Closed' /\ ~Deps!Cyclic(Finished)'
<1>1. Closed'
  BY DEF Closed, DepsOf
<1>2. \A v, w \in Deps!Values : v \in Finished => w \in Finished
  BY FinishedTogether DEF DepsInv
<1>3. \A v, w \in Deps!Values : v \in Finished' => w \in Finished'
  <2>1. (Flagged => \A v, w \in Deps!Values : v \in Finished => w \in Finished)'
    BY FinishedTogether, PTL
  <2>2. QED
    BY <2>1 DEF Deps!Values
<1>4. ASSUME NEW t \in Finished', Settled(t)
      PROVE  t \in Finished
  BY <1>4 DEF Settled, Over, Finished
<1>5. ASSUME NEW s \in Finished', NEW t \in Finished', Deps!Depends(s, t)
      PROVE  t \in Finished
  <2>1. PICK a \in Deps!Same(s), b \in Deps!Same(t) : b \in DepsOf(a)
    BY <1>5 DEF Deps!Depends, DepsOf
  <2>2. a \in Finished'
    BY <1>3, <2>1 DEF Deps!Same
  <2>3. Settled(b)
    BY <2>1, <2>2
  <2>4. b \in Finished'
    BY <1>3, <2>1 DEF Deps!Same
  <2>5. b \in Finished
    BY <1>4, <2>3, <2>4
  <2>6. QED
    BY <1>2, <2>1, <2>5 DEF Deps!Same
<1>6. ASSUME NEW T \in SUBSET Finished', T # {},
             \A s \in T : \E t \in T : Deps!Depends(s, t)
      PROVE  FALSE
  <2> DEFINE U == T \intersect Finished
  <2>1. U # {} /\ \A s \in U : \E t \in U : Deps!Depends(s, t)
    BY <1>5, <1>6
  <2>2. Deps!Cyclic(Finished)
    BY <2>1 DEF Deps!Cyclic
  <2>3. QED
    BY <2>2 DEF DepsInv
<1>7. \A s, t : Deps!Depends(s, t)' <=> Deps!Depends(s, t)
  BY DEF Deps!Depends, Deps!Same
<1>8. ~Deps!Cyclic(Finished)'
  BY <1>6, <1>7 DEF Deps!Cyclic
<1>9. QED
  BY <1>1, <1>8
-----------------------------------------------------------------------------
(* The frames fit when the one at the top is exchanged for one of the same *)
(* symbol, when one is put on it, and when it is left.                     *)
LEMMA SwapFrames ==
  ASSUME DepsInv, stack # <<>>, deps' = deps, NEW g, Swapped(g),
         Fits(g), g.sym = stack[1].sym, g.kind = "member" => stack[1].kind = "member"
  PROVE  Framed'
<1> SUFFICES ASSUME NEW j \in 1 .. Len(stack')
             PROVE  (/\ Fits(stack[j])
                     /\ stack[j].kind = "member" => j < Len(stack) /\ stack[j + 1].kind = "values"
                     /\ j > 1 => stack[j - 1].sym \in Calls(stack[j]))'
  BY DEF Framed
<1>1. Len(stack) \in Nat \ {0} /\ Len(stack') = Len(stack) /\ stack'[1] = g
  BY TopFacts DEF Swapped
<1>2. \A i \in 2 .. Len(stack) : stack'[i] = stack[i]
  BY DEF Swapped
<1>3. Framed
  BY DEF DepsInv
<1>4. CASE j = 1
  <2>1. Fits(stack[1])'
    BY <1>1 DEF Fits, Calls, DepsOf
  <2>2. stack'[1].kind = "member" => 1 < Len(stack) /\ stack[2].kind = "values"
    <3>1. 1 \in 1 .. Len(stack) /\ 1 + 1 = 2
      BY <1>1
    <3>2. QED
      BY <1>1, <1>3, <3>1 DEF Framed
  <2>3. 1 < Len(stack) => stack'[2] = stack[2]
    BY <1>1, <1>2
  <2>4. QED
    BY <1>1, <1>4, <2>1, <2>2, <2>3
<1>5. CASE j # 1
  <2>1. j \in 2 .. Len(stack) /\ j \in 1 .. Len(stack) /\ j - 1 \in 1 .. Len(stack)
    BY <1>1, <1>5
  <2>2. /\ Fits(stack[j]) /\ stack[j - 1].sym \in Calls(stack[j])
        /\ stack[j].kind = "member" => j < Len(stack) /\ stack[j + 1].kind = "values"
    BY <1>3, <2>1 DEF Framed
  <2>3. stack'[j] = stack[j] /\ (j < Len(stack) => stack'[j + 1] = stack[j + 1])
    BY <1>1, <1>2, <2>1
  <2>4. stack'[j - 1].sym = stack[j - 1].sym
    BY <1>1, <1>2, <2>1
  <2>5. QED
    BY <1>1, <2>2, <2>3, <2>4 DEF Fits, Calls, DepsOf
<1>6. QED
  BY <1>4, <1>5

LEMMA StackFrames ==
  ASSUME DepsInv, stack # <<>>, deps' = deps, NEW f, NEW g, Stacked(f, g),
         Fits(g), g.sym = stack[1].sym, g.kind = stack[1].kind,
         Fits(f), f.sym \in Calls(g), f.kind = "member" => g.kind = "values"
  PROVE  Framed'
<1> SUFFICES ASSUME NEW j \in 1 .. Len(stack')
             PROVE  (/\ Fits(stack[j])
                     /\ stack[j].kind = "member" => j < Len(stack) /\ stack[j + 1].kind = "values"
                     /\ j > 1 => stack[j - 1].sym \in Calls(stack[j]))'
  BY DEF Framed
<1>1. /\ Len(stack) \in Nat \ {0} /\ Len(stack') = Len(stack) + 1
      /\ stack'[1] = f /\ stack'[2] = g
  BY TopFacts DEF Stacked
<1>2. \A i \in 3 .. Len(stack) + 1 : stack'[i] = stack[i - 1]
  BY DEF Stacked
<1>3. Framed
  BY DEF DepsInv
<1>4. CASE j = 1
  BY <1>1, <1>4 DEF Fits, Calls, DepsOf
<1>5. CASE j = 2
  <2>1. Fits(stack[2])' /\ stack'[1].sym \in Calls(stack[2])'
    BY <1>1 DEF Fits, Calls, DepsOf
  <2>2. stack'[2].kind = "member" => 1 < Len(stack) /\ stack[2].kind = "values"
    <3>1. 1 \in 1 .. Len(stack) /\ 1 + 1 = 2
      BY <1>1
    <3>2. QED
      BY <1>1, <1>3, <3>1 DEF Framed
  <2>3. 1 < Len(stack) => 3 \in 3 .. Len(stack) + 1 /\ 3 - 1 = 2
    BY <1>1
  <2>4. 1 < Len(stack) => stack'[3] = stack[2]
    BY <1>2, <2>3
  <2>5. 2 - 1 = 1 /\ 2 + 1 = 3
    OBVIOUS
  <2>6. QED
    BY <1>1, <1>5, <2>1, <2>2, <2>4, <2>5
<1>6. CASE j # 1 /\ j # 2
  <2> DEFINE i == j - 1
  <2>1. /\ j \in 3 .. Len(stack) + 1 /\ i \in 2 .. Len(stack) /\ i \in 1 .. Len(stack)
        /\ j = i + 1 /\ j > 1
    BY <1>1, <1>6
  <2>2. /\ Fits(stack[i]) /\ stack[i - 1].sym \in Calls(stack[i])
        /\ stack[i].kind = "member" => i < Len(stack) /\ stack[i + 1].kind = "values"
    BY <1>3, <2>1 DEF Framed
  <2>3. stack'[j] = stack[i]
    BY <1>2, <2>1
  <2>4. i < Len(stack) => j < Len(stack') /\ stack'[j + 1] = stack[i + 1]
    <3>1. i < Len(stack) => j + 1 \in 3 .. Len(stack) + 1 /\ (j + 1) - 1 = i + 1
      BY <1>1, <2>1
    <3>2. QED
      BY <1>1, <1>2, <2>1, <3>1
  <2>5. stack'[j - 1].sym = stack[i - 1].sym
    <3>1. CASE j = 3
      BY <1>1, <3>1
    <3>2. CASE j # 3
      <4>1. j - 1 \in 3 .. Len(stack) + 1 /\ (j - 1) - 1 = i - 1
        BY <1>1, <2>1, <3>2
      <4>2. QED
        BY <1>2, <4>1
    <3>3. QED
      BY <3>1, <3>2
  <2> HIDE DEF i
  <2>6. Fits(stack[j])' /\ stack'[j - 1].sym \in Calls(stack[j])'
    BY <2>2, <2>3, <2>5 DEF Fits, Calls, DepsOf
  <2>7. QED
    BY <2>2, <2>3, <2>4, <2>6
<1>7. QED
  BY <1>4, <1>5, <1>6

LEMMA LeaveFrames ==
  ASSUME DepsInv, stack # <<>>, deps' = deps, Left
  PROVE  Framed'
<1> SUFFICES ASSUME NEW j \in 1 .. Len(stack')
             PROVE  (/\ Fits(stack[j])
                     /\ stack[j].kind = "member" => j < Len(stack) /\ stack[j + 1].kind = "values"
                     /\ j > 1 => stack[j - 1].sym \in Calls(stack[j]))'
  BY DEF Framed
<1>1. Len(stack) \in Nat \ {0} /\ Len(stack') = Len(stack) - 1
  BY TopFacts DEF Left
<1>2. \A i \in 1 .. Len(stack) - 1 : stack'[i] = stack[i + 1]
  BY DEF Left
<1> DEFINE i == j + 1
<1>3. /\ j \in 1 .. Len(stack) - 1 /\ i \in 1 .. Len(stack) /\ i > 1 /\ i - 1 = j
  BY <1>1
<1>4. /\ Fits(stack[i]) /\ stack[i - 1].sym \in Calls(stack[i])
      /\ stack[i].kind = "member" => i < Len(stack) /\ stack[i + 1].kind = "values"
  BY <1>3 DEF DepsInv, Framed
<1>5. stack'[j] = stack[i]
  BY <1>2, <1>3
<1>6. i < Len(stack) => j < Len(stack') /\ stack'[j + 1] = stack[i + 1]
  <2>1. i < Len(stack) => j + 1 \in 1 .. Len(stack) - 1
    BY <1>1, <1>3
  <2>2. QED
    BY <1>1, <1>2, <1>3, <2>1
<1>7. j > 1 => stack'[j - 1] = stack[i - 1]
  <2>1. j > 1 => j - 1 \in 1 .. Len(stack) - 1 /\ (j - 1) + 1 = i - 1
    BY <1>1, <1>3
  <2>2. QED
    BY <1>2, <2>1
<1> HIDE DEF i
<1>8. Fits(stack[j])' /\ (j > 1 => stack'[j - 1].sym \in Calls(stack[j])')
  BY <1>4, <1>5, <1>7 DEF Fits, Calls, DepsOf
<1>9. QED
  BY <1>4, <1>5, <1>6, <1>8
-----------------------------------------------------------------------------
(* What was settled stays so when paths are printed and flags taken back.  *)
LEMMA StaysSettled ==
  ASSUME Broken \subseteq Broken', \A s : Over(s) => Over(s)'
  PROVE  \A s : Settled(s) => Settled(s)'
BY DEF Settled

(* What a frame goes through, of a frame that stays.                       *)
LEMMA CallsNext ==
  ASSUME deps' = deps, NEW j, NEW k, NEW t, t \in Calls(stack[j])', stack'[j] = stack[k]
  PROVE  t \in Calls(stack[k])
<1>1. DepsOf(stack[j].sym)' = DepsOf(stack[k].sym)
  BY DEF DepsOf
<1>2. QED
  BY <1>1 DEF Calls, Deps!Values

LEMMA StaysReady ==
  ASSUME deps' = deps, Broken \subseteq Broken', \A s : Over(s) => Over(s)', NEW f, NEW t
  PROVE  Ready(f, t) => Ready(f, t)'
<1>1. \A s : Settled(s) => Settled(s)'
  BY StaysSettled
<1>2. QED
  BY <1>1 DEF Ready, DepsOf

(* The flags belong to frames, and a printed path is one of edges, by the  *)
(* variables of the next state.                                            *)
LEMMA FlagsNext ==
  ASSUME \A s \in check' : \E i \in DOMAIN stack' :
           stack'[i].kind # "value" /\ s \in Deps!Group(stack'[i].sym)
  PROVE  Deps!FlagsOnStack'
BY DEF Deps!FlagsOnStack, Deps!Group, Deps!Values

LEMMA BrokenNext ==
  (/\ \A p \in paths : \A i \in DOMAIN p : p[i] \in Broken
   /\ \A s \in Deps!Values \union {Choice} :
        s \in Broken => Deps!Values \union {Choice} \subseteq Broken)'
BY BrokenFacts, PTL

(* Recursive, Known: the caller goes on to its next dependency; this one   *)
(* was searched or is in a printed path.                                   *)
LEMMA CallerGoesOn ==
  ASSUME DepsInv, Deps!Working, Deps!Top.kind # "values", stack' = <<Deps!Caller>> \o Deps!Rest,
         UNCHANGED <<deps, pending, check, checked>>, paths \subseteq paths',
         Deps!Dep \in checked, Deps!Dep \in Broken' \/ Over(Deps!Dep)
  PROVE  /\ stack' \in Seq(Deps!Records) /\ Swapped(Deps!Caller)
         /\ Framed' /\ Flagged' /\ Deps!FlagsOnStack' /\ Valued' /\ Progress'
         /\ Closed' /\ ~Deps!Cyclic(Finished)'
<1> DEFINE g == Deps!Caller
           top == stack[1]
<1>1. stack # <<>>
  BY DEF Deps!Working
<1>2. /\ stack \in Seq(Deps!Records) /\ Len(stack) \in Nat \ {0} /\ 1 \in 1 .. Len(stack)
      /\ DOMAIN stack = 1 .. Len(stack) /\ Deps!Top = top
  BY <1>1, TopFacts
<1>3. /\ g \in Deps!Records /\ g.kind = top.kind /\ g.sym = top.sym /\ Calls(g) = Calls(top)
      /\ Elements(g.todo) \subseteq Elements(top.todo)
      /\ \A t \in Elements(top.todo) : t = Deps!Dep \/ t \in Elements(g.todo)
      /\ Deps!Dep \in Calls(top)
  BY <1>2, CallerFacts
<1>4. stack' \in Seq(Deps!Records) /\ Swapped(g)
  BY <1>1, <1>2, <1>3, SwappedTop DEF Deps!Rest
<1>5. /\ Len(stack') = Len(stack) /\ stack'[1] = g
      /\ \A j \in 2 .. Len(stack) : stack'[j] = stack[j]
  BY <1>4 DEF Swapped
<1>6. DOMAIN stack' = 1 .. Len(stack)
  BY <1>4, <1>5, LenProperties
<1> HIDE DEF g
<1>7. \A j \in 1 .. Len(stack) : stack'[j].kind = stack[j].kind /\ stack'[j].sym = stack[j].sym
  <2> SUFFICES ASSUME NEW j \in 1 .. Len(stack)
               PROVE  stack'[j].kind = stack[j].kind /\ stack'[j].sym = stack[j].sym
    OBVIOUS
  <2>1. j = 1 \/ j \in 2 .. Len(stack)
    BY <1>2
  <2>2. QED
    BY <1>3, <1>5, <2>1
<1>8. Framed'
  <2>1. Fits(top)
    BY <1>2 DEF DepsInv, Framed
  <2>2. Fits(g)
    BY <1>3, <2>1 DEF Fits
  <2>3. QED
    BY <1>1, <1>3, <1>4, <2>2, SwapFrames
<1>9. Flagged'
  <2>1. FrameFlags'
    BY <1>5, <1>7 DEF DepsInv, Flagged, FrameFlags
  <2>2. ASSUME NEW s \in Syms \ pending, s \notin checked
        PROVE  \E j \in 1 .. Len(stack') : stack'[j].kind = "value" /\ stack'[j].sym = s
    <3>1. PICK j \in 1 .. Len(stack) : stack[j].kind = "value" /\ stack[j].sym = s
      BY <2>2 DEF DepsInv, Flagged, Begun
    <3>2. QED
      BY <1>5, <1>7, <3>1
  <2>3. Begun'
    BY <2>2 DEF Begun
  <2>4. Together'
    BY DEF DepsInv, Flagged, Together, Deps!Values
  <2>5. QED
    BY <2>1, <2>3, <2>4 DEF Flagged
<1>10. Deps!FlagsOnStack'
  <2> SUFFICES ASSUME NEW s \in check'
               PROVE  \E i \in DOMAIN stack' :
                        stack'[i].kind # "value" /\ s \in Deps!Group(stack'[i].sym)
    BY FlagsNext
  <2>1. PICK i \in 1 .. Len(stack) : stack[i].kind # "value" /\ s \in Deps!Group(stack[i].sym)
    BY <1>2 DEF DepsInv, Deps!FlagsOnStack
  <2>2. stack'[i].kind # "value" /\ s \in Deps!Group(stack'[i].sym)
    BY <1>7, <2>1
  <2>3. QED
    BY <1>6, <2>2
<1>11. Valued'
  <2> SUFFICES ASSUME NEW j \in 1 .. Len(stack'), stack'[j].kind = "value"
               PROVE  (/\ stack[j].todo \in {<<>>, <<Choice>>}
                       /\ stack[j].todo = <<>> => Choice \in checked
                       /\ stack[j].todo # <<>> => j = 1 /\ ret = NoSym
                       /\ \A i \in 1 .. Len(stack) : stack[i].sym = Choice => i < j)'
    BY DEF Valued
  <2>1. /\ j \in 1 .. Len(stack) /\ stack[j].kind = "value"
    BY <1>5, <1>7
  <2>2. /\ stack[j].todo \in {<<>>, <<Choice>>}
        /\ stack[j].todo = <<>> => Choice \in checked
        /\ stack[j].todo # <<>> => j = 1
        /\ \A i \in 1 .. Len(stack) : stack[i].sym = Choice => i < j
    BY <2>1 DEF DepsInv, Valued
  <2>3. stack'[j].todo = <<>> /\ Choice \in checked
    <3>1. CASE j = 1
      <4>1. top.todo # <<>>
        BY <1>2 DEF Deps!Working
      <4>2. top.todo = <<Choice>>
        BY <2>2, <3>1, <4>1
      <4>3. g.todo = Tail(top.todo) /\ Deps!Dep = Head(top.todo)
        <5>1. top \in Deps!Records
          BY <1>2
        <5>2. QED
          BY <1>2, <5>1 DEF Deps!Caller, Deps!Dep, Deps!Records, g
      <4>4. g.todo = <<>> /\ Deps!Dep = Choice
        BY <4>2, <4>3
      <4>5. QED
        BY <1>5, <3>1, <4>4
    <3>2. CASE j # 1
      <4>1. j \in 2 .. Len(stack)
        BY <1>2, <2>1, <3>2
      <4>2. QED
        BY <1>5, <2>2, <3>2, <4>1
    <3>3. QED
      BY <3>1, <3>2
  <2>4. QED
    BY <1>5, <1>7, <2>2, <2>3
<1>12. Broken \subseteq Broken' /\ \A s : Over(s) => Over(s)'
  BY BrokenGrows DEF Over
<1>13. Progress'
  <2> SUFFICES ASSUME NEW j \in 1 .. Len(stack'), NEW t \in Calls(stack[j])'
               PROVE  (\/ t \in Elements(stack[j].todo)
                       \/ Ready(stack[j], t)
                       \/ j > 1 /\ t = stack[j - 1].sym)'
    BY DEF Progress
  <2>1. CASE j = 1
    <3>1. t \in Calls(top)
      BY <1>3, <1>5, <2>1 DEF Calls, DepsOf
    <3>2. t \in Elements(top.todo) \/ Ready(top, t)
      <4>1. \/ t \in Elements(stack[1].todo) \/ Ready(stack[1], t)
            \/ 1 > 1 /\ t = stack[1 - 1].sym
        BY <1>2, <3>1 DEF DepsInv, Progress
      <4>2. QED
        BY <4>1
    <3>3. t = Deps!Dep => Ready(stack[1], t)'
      <4>1. stack'[1].kind # "values"
        BY <1>2, <1>3, <1>5
      <4>2. QED
        BY <1>12, <4>1 DEF Ready
    <3>4. Ready(top, t) => Ready(stack[1], t)'
      <4>1. top.kind # "values" /\ stack'[1].kind # "values"
        BY <1>2, <1>3, <1>5
      <4>2. QED
        BY <1>12, <4>1 DEF Ready
    <3>5. t \in Elements(stack'[1].todo) \/ Ready(stack[1], t)'
      BY <1>3, <1>5, <3>2, <3>3, <3>4
    <3>6. QED
      BY <2>1, <3>5 DEF Elements
  <2>2. CASE j # 1
    <3>1. j \in 2 .. Len(stack) /\ j \in 1 .. Len(stack) /\ j - 1 \in 1 .. Len(stack) /\ j > 1
      BY <1>2, <1>5, <2>2
    <3>2. stack'[j] = stack[j] /\ stack'[j - 1].sym = stack[j - 1].sym
      BY <1>5, <1>7, <3>1
    <3>3. t \in Calls(stack[j])
      BY <3>2 DEF Calls, DepsOf
    <3>4. t \in Elements(stack[j].todo) \/ Ready(stack[j], t) \/ t = stack[j - 1].sym
      BY <3>1, <3>3 DEF DepsInv, Progress
    <3>5. Ready(stack[j], t) => Ready(stack[j], t)'
      BY <1>12, <3>2, StaysSettled DEF Ready, DepsOf
    <3>6. QED
      BY <3>1, <3>2, <3>4, <3>5 DEF Elements
  <2>3. QED
    BY <2>1, <2>2
<1>14. Closed' /\ ~Deps!Cyclic(Finished)'
  <2>1. \A s : Settled(s) => Settled(s)'
    BY <1>12, StaysSettled
  <2>2. \A s \in Finished' : s \in Finished
    BY <1>12 DEF Finished
  <2>3. \A s \in Finished' : \A b \in DepsOf(s) : Settled(b)
    BY <2>2 DEF DepsInv, Closed
  <2>4. QED
    BY <1>9, <1>12, <2>1, <2>3, StaysAcyclic
<1>15. QED
  BY <1>4, <1>8, <1>9, <1>10, <1>11, <1>13, <1>14 DEF g

LEMMA RecursiveKeeps ==
  ASSUME DepsInv, Deps!Recursive
  PROVE  DepsInv'
<1> DEFINE d == Deps!Dep
           p == Deps!Printed(d)
<1>1. /\ Deps!Working /\ Deps!Top.kind # "values" /\ d \in check
      /\ paths' = paths \union {p} /\ ret' = d /\ stack' = <<Deps!Caller>> \o Deps!Rest
      /\ UNCHANGED <<deps, pending, check, checked, zconfnerrs>>
  BY DEF Deps!Recursive, Deps!Stops
<1>2. PICK n \in 1 .. Len(stack) :
        /\ Deps!Returns(stack[n], d) = NoSym
        /\ Len(p) \in Nat /\ DOMAIN p = 1 .. Len(p)
        /\ \A j \in 1 .. n : \E i \in DOMAIN p : p[i] = stack[j].sym
        /\ \E i \in DOMAIN p : p[i] = d
        /\ \A i \in 1 .. Len(p) : Deps!Edge(p[i], p[IF i = Len(p) THEN 1 ELSE i + 1])
  BY PrintedPath
<1>3. d \in Syms /\ d \in checked
  BY <1>1, CallerFacts DEF DepsInv, Deps!TypeOK
<1> HIDE DEF p, d
<1>4. \A i \in DOMAIN p : p[i] \in Broken'
  BY <1>1, BrokenNext
<1>5. d \in Broken' /\ \A j \in 1 .. n : stack[j].sym \in Broken'
  BY <1>2, <1>4
<1>6. /\ stack' \in Seq(Deps!Records) /\ Swapped(Deps!Caller)
      /\ Framed' /\ Flagged' /\ Deps!FlagsOnStack' /\ Valued' /\ Progress'
      /\ Closed' /\ ~Deps!Cyclic(Finished)'
  BY <1>1, <1>3, <1>5, CallerGoesOn DEF d
<1>7. Deps!TypeOK'
  BY <1>1, <1>3, <1>6 DEF DepsInv, Deps!TypeOK
<1>8. Deps!PrintedIsCycle'
  <2>1. \A q \in paths : \A i \in 1 .. Len(q) : Deps!Edge(q[i], q[IF i = Len(q) THEN 1 ELSE i + 1])
    BY DEF DepsInv, Deps!PrintedIsCycle
  <2>2. \A s, t : Deps!Edge(s, t) => Deps!Edge(s, t)'
    BY <1>1 DEF Deps!Edge, Deps!Values
  <2>3. ASSUME NEW q \in paths', NEW i \in 1 .. Len(q)
        PROVE  Deps!Edge(q[i], q[IF i = Len(q) THEN 1 ELSE i + 1])
    BY <1>1, <1>2, <2>1, <2>3
  <2>4. QED
    BY <2>2, <2>3 DEF Deps!PrintedIsCycle
<1>9. Returning'
  <2>1. /\ Len(stack) \in Nat \ {0} /\ Len(stack') = Len(stack) /\ stack'[1] = Deps!Caller
        /\ \A j \in 2 .. Len(stack) : stack'[j] = stack[j]
        /\ Deps!Caller.kind = stack[1].kind /\ Deps!Caller.sym = stack[1].sym
    BY <1>1, <1>6, TopFacts, CallerFacts DEF Swapped, Deps!Working
  <2>2. \A j \in 1 .. Len(stack) : stack'[j].kind = stack[j].kind /\ stack'[j].sym = stack[j].sym
    BY <2>1
  <2>3. n \in 1 .. Len(stack') /\ Deps!Returns(stack'[n], ret') = NoSym
    BY <1>1, <1>2, <2>1, <2>2 DEF Deps!Returns
  <2>4. \A j \in 1 .. n : stack'[j].sym \in Broken'
    <3>1. \A j \in 1 .. n : j \in 1 .. Len(stack)
      BY <2>1
    <3>2. QED
      BY <1>5, <2>2, <3>1
  <2>5. QED
    BY <2>3, <2>4 DEF Returning, Deps!Returns, Deps!Values
<1>10. Deps!Sizes' /\ Deps!NeverCounted'
  BY <1>1 DEF DepsInv, Deps!Sizes, Deps!NeverCounted, Deps!Values
<1>11. QED
  BY <1>6, <1>7, <1>8, <1>9, <1>10 DEF DepsInv

LEMMA KnownKeeps ==
  ASSUME DepsInv, Deps!Known
  PROVE  DepsInv'
<1>1. /\ Deps!Working /\ Deps!Top.kind # "values" /\ Deps!Dep \notin check /\ Deps!Dep \in checked
      /\ stack' = <<Deps!Caller>> \o Deps!Rest
      /\ UNCHANGED <<deps, pending, ret, check, checked, paths, zconfnerrs>>
  BY DEF Deps!Known, Deps!Stops
<1>2. Over(Deps!Dep)
  BY <1>1 DEF Over
<1>3. /\ stack' \in Seq(Deps!Records) /\ Swapped(Deps!Caller)
      /\ Framed' /\ Flagged' /\ Deps!FlagsOnStack' /\ Valued' /\ Progress'
      /\ Closed' /\ ~Deps!Cyclic(Finished)'
  BY <1>1, <1>2, CallerGoesOn
<1>4. Deps!TypeOK' /\ Deps!Sizes' /\ Deps!NeverCounted' /\ Deps!PrintedIsCycle'
  BY <1>1, <1>3 DEF DepsInv, Deps!TypeOK, Deps!Sizes, Deps!NeverCounted, Deps!PrintedIsCycle,
                    Deps!Values, Deps!Edge
<1>5. Returning'
  BY <1>1 DEF Returning, Deps!Working
<1>6. QED
  BY <1>3, <1>4, <1>5 DEF DepsInv
-----------------------------------------------------------------------------
(* Descend, Member: a call of the caller's next dependency, with all it    *)
(* goes through still to do.  It flags symbols that had no flag, a choice  *)
(* with its values, so what was searched already stays as it was.          *)
LEMMA CallKeeps ==
  ASSUME DepsInv, Deps!Working, NEW f \in Deps!Records, NEW M \in SUBSET Syms,
         stack' = <<f>> \o (<<Deps!Caller>> \o Deps!Rest),
         UNCHANGED <<deps, pending, ret, paths, zconfnerrs>>,
         check' = check \union M, checked' = checked \union M, M \intersect checked = {},
         \A s \in M : f.kind # "value" /\ s \in Deps!Group(f.sym),
         \A s \in M \intersect (Deps!Values \union {Choice}) : Deps!Values \union {Choice} \subseteq M,
         f.sym = Deps!Dep, Fits(f), Calls(f) \subseteq Elements(f.todo), f.kind # "values",
         f.kind = "member" => Deps!Top.kind = "values",
         f.kind # "value" => f.sym \in checked \union M,
         f.kind = "value" => f.todo = <<Choice>> /\ Choice \notin checked
  PROVE  DepsInv'
<1> DEFINE g == Deps!Caller
           top == stack[1]
<1>1. stack # <<>> /\ ret = NoSym /\ top.todo # <<>>
  BY DEF Deps!Working, Deps!Top
<1>2. /\ stack \in Seq(Deps!Records) /\ Len(stack) \in Nat \ {0} /\ 1 \in 1 .. Len(stack)
      /\ DOMAIN stack = 1 .. Len(stack) /\ Deps!Top = top /\ top \in Deps!Records
  BY <1>1, TopFacts
<1>3. /\ g \in Deps!Records /\ g.kind = top.kind /\ g.sym = top.sym /\ Calls(g) = Calls(top)
      /\ Elements(g.todo) \subseteq Elements(top.todo)
      /\ \A t \in Elements(top.todo) : t = f.sym \/ t \in Elements(g.todo)
      /\ f.sym \in Calls(top)
  BY <1>2, CallerFacts
<1>4. g.todo = Tail(top.todo) /\ f.sym = Head(top.todo)
  BY <1>2 DEF Deps!Caller, Deps!Dep, Deps!Records
<1>5. stack' \in Seq(Deps!Records) /\ Stacked(f, g)
  BY <1>1, <1>2, <1>3, StackedTop DEF Deps!Rest
<1>6. /\ Len(stack') = Len(stack) + 1 /\ stack'[1] = f /\ stack'[2] = g
      /\ \A j \in 3 .. Len(stack) + 1 : stack'[j] = stack[j - 1]
  BY <1>5 DEF Stacked
<1>7. DOMAIN stack' = 1 .. Len(stack) + 1
  BY <1>5, <1>6, LenProperties
<1> HIDE DEF g
<1>8. \A j \in 1 .. Len(stack) : /\ stack'[j + 1].kind = stack[j].kind
                                 /\ stack'[j + 1].sym = stack[j].sym
  <2> SUFFICES ASSUME NEW j \in 1 .. Len(stack)
               PROVE  stack'[j + 1].kind = stack[j].kind /\ stack'[j + 1].sym = stack[j].sym
    OBVIOUS
  <2>1. CASE j = 1
    BY <1>3, <1>6, <2>1
  <2>2. CASE j # 1
    <3>1. j + 1 \in 3 .. Len(stack) + 1 /\ (j + 1) - 1 = j
      BY <1>2, <2>2
    <3>2. QED
      BY <1>6, <3>1
  <2>3. QED
    BY <2>1, <2>2
<1>9. ASSUME NEW j \in 2 .. Len(stack) + 1
      PROVE  j - 1 \in 1 .. Len(stack) /\ (j - 1) + 1 = j
  BY <1>2
<1>10. Framed'
  <2>1. Fits(top)
    BY <1>2 DEF DepsInv, Framed
  <2>2. Fits(g)
    BY <1>3, <2>1 DEF Fits
  <2>3. QED
    BY <1>1, <1>2, <1>3, <1>5, <2>2, StackFrames
<1>11. \A s : Over(s)' <=> Over(s)
  BY DEF Over, DepsInv, Deps!TypeOK
<1>12. Broken' = Broken /\ \A s : Settled(s)' <=> Settled(s)
  BY <1>11 DEF Broken, Settled, Deps!Whole, Deps!Values
<1>13. Together'
  <2>1. Together
    BY DEF DepsInv, Flagged
  <2>2. QED
    BY <2>1 DEF Together, Deps!Values
<1>14. \A j \in 1 .. Len(stack) : stack[j].kind = "values" => Choice \in checked /\ Choice \notin check
  BY DEF DepsInv, Flagged, FrameFlags, Framed, Fits
<1>15. FrameFlags'
  <2> SUFFICES ASSUME NEW j \in 1 .. Len(stack')
               PROVE  (/\ stack[j].kind # "value" => stack[j].sym \in checked
                       /\ stack[j].kind = "values" => Choice \notin check)'
    BY DEF FrameFlags
  <2>1. CASE j = 1
    BY <1>6, <2>1
  <2>2. CASE j # 1
    <3>1. j \in 2 .. Len(stack) + 1
      BY <1>2, <1>6, <2>2
    <3>2. stack[j - 1].kind # "value" => stack[j - 1].sym \in checked
      BY <1>9, <3>1 DEF DepsInv, Flagged, FrameFlags
    <3>3. stack'[j].kind = stack[j - 1].kind /\ stack'[j].sym = stack[j - 1].sym
      BY <1>8, <1>9, <3>1
    <3>4. stack[j - 1].kind = "values" => Choice \in checked /\ Choice \notin check
      BY <1>9, <1>14, <3>1
    <3>5. Choice \in checked => Choice \notin M
      OBVIOUS
    <3>6. QED
      BY <3>2, <3>3, <3>4, <3>5
  <2>3. QED
    BY <2>1, <2>2
<1>16. Begun'
  <2>1. ASSUME NEW s \in Syms \ pending, s \notin checked'
        PROVE  \E j \in 1 .. Len(stack') : stack'[j].kind = "value" /\ stack'[j].sym = s
    <3>1. PICK j \in 1 .. Len(stack) : stack[j].kind = "value" /\ stack[j].sym = s
      BY <2>1 DEF DepsInv, Flagged, Begun
    <3>2. j + 1 \in 1 .. Len(stack')
      BY <1>2, <1>6
    <3>3. QED
      BY <1>8, <3>1, <3>2
  <2>2. QED
    BY <2>1 DEF Begun
<1>17. Flagged'
  BY <1>13, <1>15, <1>16 DEF Flagged
<1>18. Deps!FlagsOnStack'
  <2> SUFFICES ASSUME NEW s \in check'
               PROVE  \E i \in DOMAIN stack' :
                        stack'[i].kind # "value" /\ s \in Deps!Group(stack'[i].sym)
    BY FlagsNext
  <2>1. CASE s \in M
    <3>1. f.kind # "value" /\ s \in Deps!Group(f.sym)
      BY <2>1
    <3>2. 1 \in DOMAIN stack' /\ stack'[1] = f
      BY <1>2, <1>6, <1>7
    <3>3. QED
      BY <3>1, <3>2
  <2>2. CASE s \in check
    <3>1. PICK i \in 1 .. Len(stack) : stack[i].kind # "value" /\ s \in Deps!Group(stack[i].sym)
      BY <1>2, <2>2 DEF DepsInv, Deps!FlagsOnStack
    <3>2. stack'[i + 1].kind # "value" /\ s \in Deps!Group(stack'[i + 1].sym)
      BY <1>8, <3>1
    <3>3. i + 1 \in DOMAIN stack'
      BY <1>2, <1>7
    <3>4. QED
      BY <3>2, <3>3
  <2>3. QED
    BY <2>1, <2>2
<1>19. \A j \in 1 .. Len(stack) :
         /\ stack[j].kind = "value" => stack[j].sym \in Deps!Values
         /\ stack[j].sym = Choice => stack[j].kind \in {"choice", "values"} /\ Choice \in checked
  BY DEF DepsInv, Flagged, FrameFlags, Framed, Fits
<1>20. Valued'
  <2> SUFFICES ASSUME NEW j \in 1 .. Len(stack'), stack'[j].kind = "value"
               PROVE  (/\ stack[j].todo \in {<<>>, <<Choice>>}
                       /\ stack[j].todo = <<>> => Choice \in checked
                       /\ stack[j].todo # <<>> => j = 1 /\ ret = NoSym
                       /\ \A i \in 1 .. Len(stack) : stack[i].sym = Choice => i < j)'
    BY DEF Valued
  <2>1. CASE j = 1
    <3>1. f.kind = "value" /\ f.todo = <<Choice>> /\ Choice \notin checked
      BY <1>6, <2>1
    <3>2. f.sym # Choice
      BY <3>1 DEF Fits, DepsInv, Deps!Sizes
    <3>3. \A i \in 1 .. Len(stack') : stack'[i].sym = Choice => i < 1
      <4> SUFFICES ASSUME NEW i \in 1 .. Len(stack'), stack'[i].sym = Choice PROVE FALSE
        OBVIOUS
      <4>1. i \in 2 .. Len(stack) + 1
        BY <1>2, <1>6, <3>2
      <4>2. stack[i - 1].sym = Choice
        BY <1>8, <1>9, <4>1
      <4>3. QED
        BY <1>9, <1>19, <3>1, <4>1, <4>2
    <3>4. stack'[j].todo = <<Choice>> /\ <<Choice>> # <<>> /\ ret' = NoSym
      BY <1>1, <1>6, <2>1, <3>1
    <3>5. QED
      BY <2>1, <3>3, <3>4
  <2>2. CASE j # 1
    <3> DEFINE k == j - 1
    <3>1. k \in 1 .. Len(stack) /\ k + 1 = j
      BY <1>2, <1>6, <2>2
    <3>2. stack[k].kind = "value"
      BY <1>8, <3>1
    <3>3. /\ stack[k].todo \in {<<>>, <<Choice>>}
          /\ stack[k].todo = <<>> => Choice \in checked
          /\ stack[k].todo # <<>> => k = 1
          /\ \A i \in 1 .. Len(stack) : stack[i].sym = Choice => i < k
      BY <3>1, <3>2 DEF DepsInv, Valued
    <3> HIDE DEF k
    <3>4. stack'[j].todo = <<>> /\ Choice \in checked'
      <4>1. CASE k = 1
        <5>1. top.todo = <<Choice>>
          BY <1>1, <3>3, <4>1
        <5>2. g.todo = <<>> /\ f.sym = Choice
          BY <1>4, <5>1
        <5>3. f.kind # "value"
          BY <5>2 DEF Fits, DepsInv, Deps!Sizes
        <5>4. QED
          BY <1>6, <3>1, <4>1, <5>2, <5>3
      <4>2. CASE k # 1
        <5>1. j \in 3 .. Len(stack) + 1 /\ j - 1 = k
          BY <1>2, <3>1, <4>2
        <5>2. QED
          BY <1>6, <3>3, <4>2, <5>1
      <4>3. QED
        BY <4>1, <4>2
    <3>5. \A i \in 1 .. Len(stack') : stack'[i].sym = Choice => i < j
      <4> SUFFICES ASSUME NEW i \in 1 .. Len(stack'), stack'[i].sym = Choice PROVE i < j
        OBVIOUS
      <4>1. CASE i = 1
        BY <1>2, <1>6, <2>2, <4>1
      <4>2. CASE i # 1
        <5>1. i \in 2 .. Len(stack) + 1
          BY <1>2, <1>6, <4>2
        <5>2. i - 1 < k
          BY <1>8, <1>9, <3>3, <5>1
        <5>3. QED
          BY <1>2, <3>1, <5>1, <5>2
      <4>3. QED
        BY <4>1, <4>2
    <3>6. QED
      BY <3>4, <3>5
  <2>3. QED
    BY <2>1, <2>2
<1>21. Progress'
  <2> SUFFICES ASSUME NEW j \in 1 .. Len(stack'), NEW t \in Calls(stack[j])'
               PROVE  (\/ t \in Elements(stack[j].todo)
                       \/ Ready(stack[j], t)
                       \/ j > 1 /\ t = stack[j - 1].sym)'
    BY DEF Progress
  <2>1. CASE j = 1
    <3>1. t \in Calls(f)
      BY <1>6, <2>1 DEF Calls, DepsOf, Deps!Values
    <3>2. QED
      BY <1>6, <2>1, <3>1 DEF Elements
  <2>2. CASE j = 2
    <3>1. t \in Calls(top)
      BY <1>3, <1>6, <2>2 DEF Calls, DepsOf, Deps!Values
    <3>2. t \in Elements(top.todo) \/ Ready(top, t)
      <4>1. \/ t \in Elements(stack[1].todo) \/ Ready(stack[1], t)
            \/ 1 > 1 /\ t = stack[1 - 1].sym
        BY <1>2, <3>1 DEF DepsInv, Progress
      <4>2. QED
        BY <4>1
    <3>3. Ready(top, t) => Ready(stack[j], t)'
      <4>1. stack'[j].kind = top.kind
        BY <1>3, <1>6, <2>2
      <4>2. QED
        BY <1>11, <1>12, <4>1 DEF Ready, DepsOf
    <3>4. t = f.sym => j > 1 /\ t = stack'[j - 1].sym
      <4>1. j > 1 /\ j - 1 = 1
        BY <2>2
      <4>2. QED
        BY <1>6, <4>1
    <3>5. t \in Elements(g.todo) => t \in Elements(stack[j].todo)'
      BY <1>6, <2>2 DEF Elements
    <3>6. QED
      BY <1>3, <3>2, <3>3, <3>4, <3>5
  <2>3. CASE j # 1 /\ j # 2
    <3> DEFINE k == j - 1
    <3>1. /\ j \in 3 .. Len(stack) + 1 /\ k \in 1 .. Len(stack) /\ k > 1 /\ j > 1
          /\ k - 1 \in 1 .. Len(stack) /\ (k - 1) + 1 = j - 1
      BY <1>2, <1>6, <2>3
    <3>2. stack'[j] = stack[k] /\ stack'[j - 1].sym = stack[k - 1].sym
      BY <1>6, <1>8, <3>1
    <3> HIDE DEF k
    <3>3. t \in Calls(stack[k])
      BY <3>2 DEF Calls, DepsOf, Deps!Values
    <3>4. t \in Elements(stack[k].todo) \/ Ready(stack[k], t) \/ t = stack[k - 1].sym
      BY <3>1, <3>3 DEF DepsInv, Progress
    <3>5. Ready(stack[k], t) => Ready(stack[j], t)'
      BY <1>11, <1>12, <3>2 DEF Ready, DepsOf
    <3>6. QED
      BY <3>1, <3>2, <3>4, <3>5 DEF Elements
  <2>4. QED
    BY <2>1, <2>2, <2>3
<1>22. Closed' /\ ~Deps!Cyclic(Finished)'
  <2>1. \A s \in Finished' : s \in Finished
    BY <1>11, <1>12 DEF Finished, Over
  <2>2. \A s \in Finished' : \A b \in DepsOf(s) : Settled(b)
    BY <2>1 DEF DepsInv, Closed
  <2>3. QED
    BY <1>12, <1>17, <2>2, StaysAcyclic
<1>23. Deps!TypeOK' /\ Deps!Sizes' /\ Deps!NeverCounted' /\ Deps!PrintedIsCycle'
  BY <1>5 DEF DepsInv, Deps!TypeOK, Deps!Sizes, Deps!NeverCounted, Deps!PrintedIsCycle,
              Deps!Values, Deps!Edge
<1>24. Returning'
  BY <1>1 DEF Returning
<1>25. QED
  BY <1>10, <1>17, <1>18, <1>20, <1>21, <1>22, <1>23, <1>24 DEF DepsInv

(* sym_check_deps of a symbol without flags: the frame it begins with.     *)
Called(s) == Deps!Frame(Deps!Kind(s), s, IF s \in Deps!Values THEN <<Choice>> ELSE deps[s])

LEMMA CalledFrame ==
  ASSUME DepsInv, NEW s \in Syms, s \notin checked
  PROVE  /\ Called(s) \in Deps!Records /\ Called(s).sym = s
         /\ Fits(Called(s)) /\ Calls(Called(s)) \subseteq Elements(Called(s).todo)
         /\ Called(s).kind \notin {"values", "member"}
         /\ Called(s).kind # "value" => s \in Deps!Marks(s)
         /\ Called(s).kind = "value" => Called(s).todo = <<Choice>> /\ Choice \notin checked
         /\ Deps!Marks(s) \subseteq Syms /\ Deps!Marks(s) \intersect checked = {}
         /\ \A t \in Deps!Marks(s) : Called(s).kind # "value" /\ t \in Deps!Group(s)
         /\ \A t \in Deps!Marks(s) \intersect (Deps!Values \union {Choice}) :
              Deps!Values \union {Choice} \subseteq Deps!Marks(s)
<1> DEFINE f == Called(s)
           w == IF s \in Deps!Values THEN <<Choice>> ELSE deps[s]
<1>1. /\ Choice \in Syms /\ Choice \notin Deps!Values /\ Deps!Values \subseteq Syms
      /\ deps[s] \in Seq(Syms) /\ \A v \in Deps!Values : v \in checked <=> Choice \in checked
  BY DEF DepsInv, Deps!TypeOK, Deps!Sizes, Deps!Values, Flagged, Together
<1>2. <<Choice>> \in Seq(Syms) /\ Elements(<<Choice>>) = {Choice}
  BY <1>1 DEF Elements
<1>3. w \in Seq(Syms) /\ Deps!Kind(s) \in Deps!Kinds
  BY <1>1, <1>2 DEF Deps!Kind, Deps!Kinds
<1> HIDE DEF w
<1>4. f \in Deps!Records /\ f.kind = Deps!Kind(s) /\ f.sym = s /\ f.todo = w
  BY <1>3 DEF Called, Deps!Frame, Deps!Records, w
<1> HIDE DEF f
<1>5. CASE s \in Deps!Values
  <2>1. f.kind = "value" /\ w = <<Choice>> /\ Deps!Marks(s) = {} /\ Choice \notin checked
    BY <1>1, <1>4, <1>5 DEF Deps!Kind, Deps!Marks, Deps!Group, w
  <2>2. Calls(f) = {Choice}
    BY <2>1 DEF Calls
  <2>3. QED
    BY <1>1, <1>2, <1>4, <1>5, <2>1, <2>2 DEF f, Fits
<1>6. CASE s \notin Deps!Values
  <2>1. /\ f.kind = IF s = Choice THEN "choice" ELSE "symbol"
        /\ w = deps[s] /\ Deps!Marks(s) = Deps!Group(s)
    BY <1>4, <1>6 DEF Deps!Kind, Deps!Marks, w
  <2>2. Calls(f) = DepsOf(s) /\ Elements(w) = DepsOf(s)
    BY <1>4, <2>1 DEF Calls, Elements, DepsOf
  <2>3. Fits(f) /\ Calls(f) \subseteq Elements(f.todo)
    BY <1>1, <1>4, <1>6, <2>1, <2>2 DEF Fits
  <2>4. /\ s \in Deps!Marks(s) /\ Deps!Marks(s) \subseteq Syms
        /\ Deps!Marks(s) \intersect checked = {}
        /\ \A t \in Deps!Marks(s) \intersect (Deps!Values \union {Choice}) :
             Deps!Values \union {Choice} \subseteq Deps!Marks(s)
    BY <1>1, <1>6, <2>1 DEF Deps!Group
  <2>5. QED
    BY <1>4, <2>1, <2>3, <2>4 DEF f
<1>7. QED
  BY <1>5, <1>6

LEMMA DescendKeeps ==
  ASSUME DepsInv, Deps!Descend
  PROVE  DepsInv'
<1> DEFINE d == Deps!Dep
           f == Called(d)
<1>1. /\ Deps!Working /\ Deps!Top.kind # "values" /\ d \notin checked
      /\ stack' = <<f>> \o (<<Deps!Caller>> \o Deps!Rest)
      /\ check' = check \union Deps!Marks(d) /\ checked' = checked \union Deps!Marks(d)
      /\ UNCHANGED <<deps, pending, ret, paths, zconfnerrs>>
  BY DEF Deps!Descend, Deps!Call, Called
<1>2. d \in Syms
  BY <1>1, CallerFacts
<1>3. /\ f \in Deps!Records /\ f.sym = d
      /\ Fits(f) /\ Calls(f) \subseteq Elements(f.todo)
      /\ f.kind \notin {"values", "member"}
      /\ f.kind # "value" => d \in Deps!Marks(d)
      /\ f.kind = "value" => f.todo = <<Choice>> /\ Choice \notin checked
      /\ Deps!Marks(d) \subseteq Syms /\ Deps!Marks(d) \intersect checked = {}
      /\ \A t \in Deps!Marks(d) : f.kind # "value" /\ t \in Deps!Group(d)
      /\ \A t \in Deps!Marks(d) \intersect (Deps!Values \union {Choice}) :
           Deps!Values \union {Choice} \subseteq Deps!Marks(d)
  BY <1>1, <1>2, CalledFrame
<1> HIDE DEF f
<1>4. QED
  BY <1>1, <1>3, CallKeeps

LEMMA MemberKeeps ==
  ASSUME DepsInv, Deps!Member
  PROVE  DepsInv'
<1> DEFINE d == Deps!Dep
           f == Deps!Frame("member", d, deps[d])
           g == Deps!Caller
<1>1. /\ Deps!Working /\ Deps!Top.kind = "values"
      /\ stack' = <<f, g>> \o Deps!Rest
      /\ UNCHANGED <<deps, pending, ret, check, checked, paths, zconfnerrs>>
  BY DEF Deps!Member
<1>2. d \in Syms /\ d \in Calls(Deps!Top) /\ g \in Deps!Records
  BY <1>1, CallerFacts
<1>3. /\ stack # <<>> /\ stack \in Seq(Deps!Records) /\ 1 \in 1 .. Len(stack)
      /\ Deps!Top = stack[1]
  BY <1>1, TopFacts DEF Deps!Working
<1>4. d \in Deps!Values /\ d \in checked
  <2>1. stack[1].sym \in checked /\ stack[1].sym = Choice
    BY <1>1, <1>3 DEF DepsInv, Flagged, FrameFlags, Framed, Fits
  <2>2. d \in Deps!Values
    BY <1>1, <1>2 DEF Calls
  <2>3. QED
    BY <2>1, <2>2 DEF DepsInv, Flagged, Together
<1>5. deps[d] \in Seq(Syms)
  BY <1>2 DEF DepsInv, Deps!TypeOK
<1>6. f \in Deps!Records /\ f.sym = d /\ f.kind = "member" /\ f.todo = deps[d]
  BY <1>2, <1>5 DEF Deps!Frame, Deps!Records, Deps!Kinds
<1> HIDE DEF f, g
<1>7. Calls(f) = DepsOf(d) /\ Elements(f.todo) = DepsOf(d)
  BY <1>6 DEF Calls, Elements, DepsOf
<1>8. Fits(f)
  BY <1>4, <1>6, <1>7 DEF Fits, DepsInv, Deps!Sizes
<1>9. stack' = <<f>> \o (<<g>> \o Deps!Rest)
  BY <1>1, <1>2, <1>3, <1>6, Popped, Both DEF Deps!Rest
<1> DEFINE M == {}
<1>10. /\ M \in SUBSET Syms /\ check' = check \union M /\ checked' = checked \union M
       /\ \A s \in M : f.kind # "value" /\ s \in Deps!Group(f.sym)
       /\ \A s \in M \intersect (Deps!Values \union {Choice}) : Deps!Values \union {Choice} \subseteq M
       /\ M \intersect checked = {}
  BY <1>1
<1>11. f.sym \in checked \union M
  BY <1>4, <1>6
<1> HIDE DEF M
<1>12. QED
  BY <1>1, <1>6, <1>7, <1>8, <1>9, <1>10, <1>11, CallKeeps DEF g

(* The choice's dependencies are searched: it is, and its values are next. *)
LEMMA ProceedKeeps ==
  ASSUME DepsInv, Deps!Proceed
  PROVE  DepsInv'
<1> DEFINE top == stack[1]
           g == Deps!Frame("values", Deps!Top.sym, ValueList)
<1>1. /\ stack # <<>> /\ Deps!Top.kind = "choice" /\ ret = NoSym /\ Deps!Top.todo = <<>>
      /\ stack' = <<g>> \o Tail(stack)
      /\ check' = check \ {Deps!Top.sym}
      /\ UNCHANGED <<deps, pending, ret, checked, paths, zconfnerrs>>
  BY DEF Deps!Proceed, Deps!Leaving, Deps!Rest, Deps!Clears
<1>2. /\ stack \in Seq(Deps!Records) /\ Len(stack) \in Nat \ {0} /\ 1 \in 1 .. Len(stack)
      /\ DOMAIN stack = 1 .. Len(stack) /\ Deps!Top = top
  BY <1>1, TopFacts
<1>3. /\ Choice \in Syms /\ Choice \notin Deps!Values /\ ValueList \in Seq(Syms)
      /\ Elements(ValueList) = Deps!Values
  BY DEF DepsInv, Deps!Sizes, Elements, Deps!Values
<1>4. top.sym = Choice /\ Choice \in checked
  BY <1>1, <1>2 DEF DepsInv, Framed, Fits, Flagged, FrameFlags
<1>5. g \in Deps!Records /\ g.kind = "values" /\ g.sym = Choice /\ g.todo = ValueList
  BY <1>2, <1>3, <1>4 DEF Deps!Frame, Deps!Records, Deps!Kinds
<1>6. stack' \in Seq(Deps!Records) /\ Swapped(g)
  BY <1>1, <1>2, <1>5, SwappedTop
<1>7. /\ Len(stack') = Len(stack) /\ stack'[1] = g
      /\ \A j \in 2 .. Len(stack) : stack'[j] = stack[j]
  BY <1>6 DEF Swapped
<1>8. DOMAIN stack' = 1 .. Len(stack)
  BY <1>6, <1>7, LenProperties
<1> HIDE DEF g
<1>9. \A j \in 1 .. Len(stack) :
        /\ stack'[j].sym = stack[j].sym
        /\ stack'[j].kind = "value" <=> stack[j].kind = "value"
        /\ stack'[j].kind = "value" => j \in 2 .. Len(stack)
  <2> SUFFICES ASSUME NEW j \in 1 .. Len(stack)
               PROVE  /\ stack'[j].sym = stack[j].sym
                      /\ stack'[j].kind = "value" <=> stack[j].kind = "value"
                      /\ stack'[j].kind = "value" => j \in 2 .. Len(stack)
    OBVIOUS
  <2>1. j = 1 \/ j \in 2 .. Len(stack)
    BY <1>2
  <2>2. QED
    BY <1>1, <1>2, <1>4, <1>5, <1>7, <2>1
<1>10. Calls(g) = Deps!Values
  BY <1>5 DEF Calls
<1>11. Framed'
  <2>1. Fits(g)
    BY <1>3, <1>5, <1>10 DEF Fits
  <2>2. QED
    BY <1>1, <1>4, <1>5, <1>6, <2>1, SwapFrames
<1>12. Flagged'
  <2>1. Together'
    BY <1>1, <1>2, <1>3, <1>4 DEF DepsInv, Flagged, Together, Deps!Values
  <2>2. ASSUME NEW j \in 1 .. Len(stack'), stack'[j].kind # "value"
        PROVE  stack'[j].sym \in checked'
    BY <1>1, <1>7, <1>9, <2>2 DEF DepsInv, Flagged, FrameFlags
  <2>3. FrameFlags'
    BY <1>1, <1>2, <1>4, <2>2 DEF FrameFlags
  <2>4. ASSUME NEW s \in Syms \ pending, s \notin checked
        PROVE  \E j \in 1 .. Len(stack') : stack'[j].kind = "value" /\ stack'[j].sym = s
    BY <1>7, <1>9, <2>4 DEF DepsInv, Flagged, Begun
  <2>5. Begun'
    BY <1>1, <2>4 DEF Begun
  <2>6. QED
    BY <2>1, <2>3, <2>5 DEF Flagged
<1>13. Deps!FlagsOnStack'
  <2> SUFFICES ASSUME NEW s \in check'
               PROVE  \E i \in DOMAIN stack' :
                        stack'[i].kind # "value" /\ s \in Deps!Group(stack'[i].sym)
    BY FlagsNext
  <2>1. PICK i \in 1 .. Len(stack) : stack[i].kind # "value" /\ s \in Deps!Group(stack[i].sym)
    BY <1>1, <1>2 DEF DepsInv, Deps!FlagsOnStack
  <2>2. stack'[i].kind # "value" /\ s \in Deps!Group(stack'[i].sym)
    BY <1>9, <2>1
  <2>3. QED
    BY <1>8, <2>2
<1>14. Valued'
  <2> SUFFICES ASSUME NEW j \in 1 .. Len(stack'), stack'[j].kind = "value"
               PROVE  (/\ stack[j].todo \in {<<>>, <<Choice>>}
                       /\ stack[j].todo = <<>> => Choice \in checked
                       /\ stack[j].todo # <<>> => j = 1 /\ ret = NoSym
                       /\ \A i \in 1 .. Len(stack) : stack[i].sym = Choice => i < j)'
    BY DEF Valued
  <2>1. /\ j \in 2 .. Len(stack) /\ j \in 1 .. Len(stack) /\ stack[j].kind = "value"
        /\ stack'[j] = stack[j]
    BY <1>7, <1>9
  <2>2. \A i \in 1 .. Len(stack) : stack[i].sym = Choice => i < j
    BY <2>1 DEF DepsInv, Valued
  <2>3. /\ stack[j].todo \in {<<>>, <<Choice>>}
        /\ stack[j].todo = <<>> => Choice \in checked
        /\ stack[j].todo # <<>> => j = 1
    BY <2>1 DEF DepsInv, Valued
  <2>4. \A i \in 1 .. Len(stack') : stack'[i].sym = Choice => i < j
    BY <1>7, <1>9, <2>2
  <2>5. QED
    BY <1>1, <2>1, <2>3, <2>4
<1>15. Broken' = Broken /\ \A s : Over(s) => Over(s)'
  BY <1>1 DEF Over, Broken, Deps!Whole, Deps!Values
<1>16. \A s : Settled(s) => Settled(s)'
  BY <1>15, StaysSettled
<1>17. Progress'
  <2> SUFFICES ASSUME NEW j \in 1 .. Len(stack'), NEW t \in Calls(stack[j])'
               PROVE  (\/ t \in Elements(stack[j].todo)
                       \/ Ready(stack[j], t)
                       \/ j > 1 /\ t = stack[j - 1].sym)'
    BY DEF Progress
  <2>1. CASE j = 1
    <3>1. t \in Deps!Values
      BY <1>5, <1>7, <2>1 DEF Calls, Deps!Values
    <3>2. QED
      BY <1>3, <1>5, <1>7, <2>1, <3>1 DEF Elements
  <2>2. CASE j # 1
    <3>1. j \in 2 .. Len(stack) /\ j \in 1 .. Len(stack) /\ j - 1 \in 1 .. Len(stack) /\ j > 1
      BY <1>2, <1>7, <2>2
    <3>2. stack'[j] = stack[j] /\ stack'[j - 1].sym = stack[j - 1].sym
      BY <1>7, <1>9, <3>1
    <3>3. t \in Calls(stack[j])
      BY <1>1, <3>2, CallsNext
    <3>4. t \in Elements(stack[j].todo) \/ Ready(stack[j], t) \/ t = stack[j - 1].sym
      BY <3>1, <3>3 DEF DepsInv, Progress
    <3>5. Ready(stack[j], t) => Ready(stack[j], t)'
      BY <1>1, <1>15, <1>16, <3>2 DEF Ready, DepsOf
    <3>6. QED
      BY <3>1, <3>2, <3>4, <3>5 DEF Elements
  <2>3. QED
    BY <2>1, <2>2
<1>18. Closed' /\ ~Deps!Cyclic(Finished)'
  <2>1. \A b \in DepsOf(Choice) : Settled(b)
    <3>1. Calls(top) = DepsOf(Choice) /\ Elements(top.todo) = {}
      BY <1>1, <1>2, <1>4 DEF Calls, Elements
    <3>2. \A b \in Calls(top) : b \in Elements(top.todo) \/ Ready(top, b)
      BY <1>2 DEF DepsInv, Progress
    <3>3. QED
      BY <1>1, <1>2, <3>1, <3>2 DEF Ready, Settled
  <2>2. \A s \in Finished' : s \in Finished \/ s = Choice
    BY <1>1, <1>2, <1>4, <1>15 DEF Finished
  <2>3. \A s \in Finished' : \A b \in DepsOf(s) : Settled(b)
    BY <2>1, <2>2 DEF DepsInv, Closed
  <2>4. QED
    BY <1>1, <1>12, <1>15, <1>16, <2>3, StaysAcyclic
<1>19. Deps!TypeOK' /\ Deps!Sizes' /\ Deps!NeverCounted' /\ Deps!PrintedIsCycle'
  BY <1>1, <1>6 DEF DepsInv, Deps!TypeOK, Deps!Sizes, Deps!NeverCounted, Deps!PrintedIsCycle,
                    Deps!Values, Deps!Edge
<1>20. Returning'
  BY <1>1 DEF Returning
<1>21. QED
  BY <1>11, <1>12, <1>13, <1>14, <1>17, <1>18, <1>19, <1>20 DEF DepsInv

-----------------------------------------------------------------------------
(* A call ends, its flags K are taken back: what the frames below need to  *)
(* know of it.                                                             *)
LEMMA EndKeeps ==
  ASSUME DepsInv, stack # <<>>, stack' = Tail(stack), NEW K, check' = check \ K,
         UNCHANGED <<deps, pending, checked, paths>>,
         K \intersect Deps!Values = {} \/ Deps!Values \subseteq K,
         stack[1].kind = "value" => stack[1].todo = <<>>,
         \A s \in check : stack[1].kind \notin {"value", "member"} /\ s \in Deps!Group(stack[1].sym)
                            => s \in K,
         \A s \in K : s \in Broken \/ \A b \in DepsOf(s) : Settled(b),
         Len(stack) > 1 =>
           \/ stack[1].sym \in Broken
           \/ stack[2].kind = "values" /\ \A b \in DepsOf(stack[1].sym) : Settled(b)
           \/ stack[2].kind # "values" /\ stack[1].sym \in checked /\ stack[1].sym \notin check'
  PROVE  /\ stack' \in Seq(Deps!Records) /\ Left
         /\ Framed' /\ Flagged' /\ Deps!FlagsOnStack' /\ Valued' /\ Progress'
         /\ Closed' /\ ~Deps!Cyclic(Finished)' /\ Deps!PrintedIsCycle' /\ Deps!Sizes'
<1> DEFINE top == stack[1]
<1>1. /\ stack \in Seq(Deps!Records) /\ Len(stack) \in Nat \ {0} /\ 1 \in 1 .. Len(stack)
      /\ DOMAIN stack = 1 .. Len(stack)
  BY TopFacts
<1>2. stack' \in Seq(Deps!Records) /\ Left
  BY <1>1, LeftTop
<1>3. /\ Len(stack') = Len(stack) - 1
      /\ \A j \in 1 .. Len(stack') : stack'[j] = stack[j + 1] /\ j + 1 \in 2 .. Len(stack)
  BY <1>1, <1>2 DEF Left
<1>4. \A j \in 2 .. Len(stack) : /\ j \in 1 .. Len(stack) /\ j - 1 \in 1 .. Len(stack')
                                 /\ stack'[j - 1] = stack[j]
  BY <1>1, <1>3
<1>5. DOMAIN stack' = 1 .. Len(stack')
  BY <1>2, LenProperties
<1>6. \A j \in 1 .. Len(stack) : j = 1 \/ j \in 2 .. Len(stack)
  BY <1>1
<1>7. Framed'
  BY <1>2, LeaveFrames
<1>8. Flagged'
  <2>1. Together'
    BY DEF DepsInv, Flagged, Together, Deps!Values
  <2>2. ASSUME NEW j \in 1 .. Len(stack')
        PROVE  /\ stack'[j].kind # "value" => stack'[j].sym \in checked'
               /\ stack'[j].kind = "values" => Choice \notin check'
    <3>1. stack'[j] = stack[j + 1] /\ j + 1 \in 1 .. Len(stack)
      BY <1>3, <1>4
    <3>2. QED
      BY <3>1 DEF DepsInv, Flagged, FrameFlags
  <2>3. FrameFlags'
    BY <2>2 DEF FrameFlags
  <2>4. ASSUME NEW s \in Syms \ pending, s \notin checked
        PROVE  \E j \in 1 .. Len(stack') : stack'[j].kind = "value" /\ stack'[j].sym = s
    <3>1. PICK j \in 1 .. Len(stack) : stack[j].kind = "value" /\ stack[j].sym = s
      BY <2>4 DEF DepsInv, Flagged, Begun
    <3>2. j # 1
      <4>1. ASSUME j = 1 PROVE FALSE
        <5>1. Choice \in checked
          BY <1>1, <3>1, <4>1 DEF DepsInv, Valued
        <5>2. s \in Deps!Values
          BY <3>1 DEF DepsInv, Framed, Fits
        <5>3. QED
          BY <2>4, <5>1, <5>2 DEF DepsInv, Flagged, Together
      <4>2. QED
        BY <4>1
    <3>3. QED
      BY <1>4, <1>6, <3>1, <3>2
  <2>5. Begun'
    BY <2>4 DEF Begun
  <2>6. QED
    BY <2>1, <2>3, <2>5 DEF Flagged
<1>9. Deps!FlagsOnStack'
  <2> SUFFICES ASSUME NEW s \in check'
               PROVE  \E i \in DOMAIN stack' :
                        stack'[i].kind # "value" /\ s \in Deps!Group(stack'[i].sym)
    BY FlagsNext
  <2>1. PICK i \in 1 .. Len(stack) : stack[i].kind # "value" /\ s \in Deps!Group(stack[i].sym)
    BY <1>1 DEF DepsInv, Deps!FlagsOnStack
  <2>2. CASE i # 1
    BY <1>4, <1>5, <1>6, <2>1, <2>2
  <2>3. CASE i = 1
    <3>1. stack[1].kind = "member"
      BY <2>1, <2>3
    <3>2. /\ 1 < Len(stack) /\ stack[2].kind = "values" /\ stack[1].sym \in Deps!Values
      <4>1. 1 + 1 = 2
        OBVIOUS
      <4>2. QED
        BY <1>1, <3>1, <4>1 DEF DepsInv, Framed, Fits
    <3>3. 2 \in 2 .. Len(stack) /\ 2 - 1 = 1
      BY <1>1, <3>2
    <3>4. stack[2].sym = Choice
      BY <1>4, <3>2, <3>3 DEF DepsInv, Framed, Fits
    <3>5. s \in Deps!Group(Choice)
      BY <2>1, <2>3, <3>2 DEF Deps!Group
    <3>6. QED
      BY <1>4, <1>5, <3>2, <3>3, <3>4, <3>5
  <2>4. QED
    BY <2>2, <2>3
<1>10. Valued'
  <2> SUFFICES ASSUME NEW j \in 1 .. Len(stack'), stack'[j].kind = "value"
               PROVE  (/\ stack[j].todo \in {<<>>, <<Choice>>}
                       /\ stack[j].todo = <<>> => Choice \in checked
                       /\ stack[j].todo # <<>> => j = 1 /\ ret = NoSym
                       /\ \A i \in 1 .. Len(stack) : stack[i].sym = Choice => i < j)'
    BY DEF Valued
  <2> DEFINE k == j + 1
  <2>1. k \in 2 .. Len(stack) /\ k \in 1 .. Len(stack) /\ stack'[j] = stack[k] /\ k # 1
    BY <1>1, <1>3, <1>4
  <2>2. \A i \in 1 .. Len(stack) : stack[i].sym = Choice => i < k
    BY <2>1 DEF DepsInv, Valued
  <2>3. stack[k].todo = <<>> /\ Choice \in checked
    BY <2>1 DEF DepsInv, Valued
  <2>4. \A i \in 1 .. Len(stack') : stack'[i].sym = Choice => i < j
    <3> SUFFICES ASSUME NEW i \in 1 .. Len(stack'), stack'[i].sym = Choice PROVE i < j
      OBVIOUS
    <3>1. i + 1 < k
      BY <1>3, <1>4, <2>2
    <3>2. QED
      BY <1>1, <1>3, <3>1
  <2>5. QED
    BY <2>1, <2>3, <2>4
<1>11. Broken' = Broken /\ \A s : Over(s) => Over(s)'
  BY DEF Over, Broken, Deps!Whole, Deps!Values
<1>12. \A s : Settled(s) => Settled(s)'
  BY <1>11, StaysSettled
<1>13. Progress'
  <2> SUFFICES ASSUME NEW j \in 1 .. Len(stack'), NEW t \in Calls(stack[j])'
               PROVE  (\/ t \in Elements(stack[j].todo)
                       \/ Ready(stack[j], t)
                       \/ j > 1 /\ t = stack[j - 1].sym)'
    BY DEF Progress
  <2> DEFINE k == j + 1
  <2>1. k \in 2 .. Len(stack) /\ k \in 1 .. Len(stack) /\ stack'[j] = stack[k] /\ k - 1 = j
    BY <1>1, <1>3, <1>4
  <2>2. j > 1 => stack'[j - 1] = stack[j]
    BY <1>1, <1>3, <1>4
  <2>3. j # 1 => j > 1
    BY <1>1, <1>3
  <2> HIDE DEF k
  <2>4. t \in Calls(stack[k])
    BY <2>1, CallsNext
  <2>5. t \in Elements(stack[k].todo) \/ Ready(stack[k], t) \/ t = stack[j].sym
    BY <2>1, <2>4 DEF DepsInv, Progress
  <2>6. Ready(stack[k], t) => Ready(stack[j], t)'
    BY <1>11, <1>12, <2>1 DEF Ready, DepsOf
  <2>7. t \in Elements(stack[k].todo) => t \in Elements(stack[j].todo)'
    BY <2>1 DEF Elements
  <2>8. j = 1 /\ t = stack[1].sym => Ready(stack[j], t)'
    <3> SUFFICES ASSUME j = 1, t = stack[1].sym PROVE Ready(stack[j], t)'
      OBVIOUS
    <3>1. k = 2 /\ Len(stack) > 1
      BY <1>1, <2>1
    <3>2. CASE t \in Broken
      BY <1>11, <3>2 DEF Ready
    <3>3. CASE stack[2].kind = "values" /\ \A b \in DepsOf(t) : Settled(b)
      BY <1>12, <2>1, <3>1, <3>3 DEF Ready, DepsOf
    <3>4. CASE stack[2].kind # "values" /\ t \in checked /\ t \notin check'
      BY <2>1, <3>1, <3>4 DEF Ready, Over
    <3>5. QED
      BY <3>1, <3>2, <3>3, <3>4
  <2>9. QED
    BY <2>2, <2>3, <2>5, <2>6, <2>7, <2>8
<1>14. Closed' /\ ~Deps!Cyclic(Finished)'
  <2>1. \A s \in Finished' : s \in Finished \/ (s \in K /\ s \notin Broken)
    BY <1>11 DEF Finished
  <2>2. \A s \in Finished' : \A b \in DepsOf(s) : Settled(b)
    BY <2>1 DEF DepsInv, Closed
  <2>3. QED
    BY <1>8, <1>11, <1>12, <2>2, StaysAcyclic
<1>15. Deps!PrintedIsCycle' /\ Deps!Sizes'
  BY DEF DepsInv, Deps!Sizes, Deps!PrintedIsCycle, Deps!Values, Deps!Edge
<1>16. QED
  BY <1>2, <1>7, <1>8, <1>9, <1>10, <1>13, <1>14, <1>15

(* The flags a call takes back are those of its own symbol, or of the      *)
(* choice and its values.                                                  *)
LEMMA ClearsFacts ==
  ASSUME DepsInv, stack # <<>>, ~(stack[1].kind = "choice" /\ ret = NoSym)
  PROVE  /\ \A s \in Deps!Clears(stack[1]) :
              s = stack[1].sym \/ (stack[1].sym = Choice /\ s \in Deps!Values)
         /\ \/ Deps!Clears(stack[1]) \intersect Deps!Values = {}
            \/ Deps!Values \subseteq Deps!Clears(stack[1])
         /\ \A s \in check :
              stack[1].kind \notin {"value", "member"} /\ s \in Deps!Group(stack[1].sym)
                => s \in Deps!Clears(stack[1])
<1> DEFINE f == stack[1]
<1>1. 1 \in 1 .. Len(stack) /\ f.kind \in Deps!Kinds
  BY TopFacts DEF Deps!Top
<1>2. /\ f.kind \in {"value", "member"} <=> f.sym \in Deps!Values
      /\ f.kind \in {"choice", "values"} <=> f.sym = Choice
      /\ f.kind = "values" => Choice \notin check
  BY <1>1 DEF DepsInv, Framed, Fits, Flagged, FrameFlags
<1> HIDE DEF f
<1>3. CASE f.kind = "symbol"
  <2>1. Deps!Clears(f) = {f.sym} /\ f.sym # Choice /\ f.sym \notin Deps!Values
    BY <1>2, <1>3 DEF Deps!Clears
  <2>2. QED
    BY <2>1 DEF Deps!Group, f
<1>4. CASE f.kind = "choice"
  <2>1. Deps!Clears(f) = {f.sym} \union Deps!Values /\ f.sym = Choice
    BY <1>2, <1>4 DEF Deps!Clears, f
  <2>2. QED
    BY <2>1 DEF Deps!Group, f
<1>5. CASE f.kind = "values"
  <2>1. Deps!Clears(f) = Deps!Values /\ f.sym = Choice /\ Choice \notin check
    BY <1>2, <1>5 DEF Deps!Clears, f
  <2>2. QED
    BY <2>1 DEF Deps!Group, f
<1>6. CASE f.kind \in {"value", "member"}
  <2>1. Deps!Clears(f) = {}
    BY <1>6 DEF Deps!Clears
  <2>2. QED
    BY <1>6, <2>1 DEF f
<1>7. QED
  BY <1>1, <1>3, <1>4, <1>5, <1>6 DEF Deps!Kinds

(* A call that returns a symbol ends: its own symbol is in a printed path. *)
LEMMA ReturnKeeps ==
  ASSUME DepsInv, Deps!Leave, ret # NoSym
  PROVE  DepsInv'
<1> DEFINE f == stack[1]
           r == Deps!Returns(f, ret)
           K == Deps!Clears(f)
<1>1. /\ stack # <<>> /\ stack' = Tail(stack) /\ check' = check \ Deps!Clears(Deps!Top)
      /\ IF Tail(stack) # <<>> THEN ret' = Deps!Returns(Deps!Top, ret) /\ UNCHANGED zconfnerrs
         ELSE /\ ret' = NoSym
              /\ zconfnerrs' = zconfnerrs + IF Deps!Returns(Deps!Top, ret) = NoSym THEN 0 ELSE 1
      /\ UNCHANGED <<deps, pending, checked, paths>>
  BY DEF Deps!Leave, Deps!Leaving, Deps!Rest
<1>2. /\ stack \in Seq(Deps!Records) /\ Len(stack) \in Nat \ {0} /\ 1 \in 1 .. Len(stack)
      /\ Deps!Top = f
      /\ Tail(stack) = <<>> <=> Len(stack) = 1
  BY <1>1, TopFacts, Popped
<1>3. PICK m \in 1 .. Len(stack) : /\ Deps!Returns(stack[m], ret) = NoSym
                                   /\ \A j \in 1 .. m : stack[j].sym \in Broken
  BY DEF DepsInv, Returning
<1>4. f.sym \in Broken
  BY <1>2, <1>3
<1>5. r = NoSym \/ r = ret
  BY DEF Deps!Returns
<1>6. Len(stack) = 1 => r = NoSym
  BY <1>2, <1>3
<1> HIDE DEF r
<1>7. check' = check \ K /\ (r = NoSym => ret' = NoSym) /\ (r # NoSym => ret' = ret) /\ zconfnerrs' = 0
  BY <1>1, <1>2, <1>5, <1>6 DEF r, DepsInv, Deps!NeverCounted
<1>8. /\ \A s \in K : s = f.sym \/ (f.sym = Choice /\ s \in Deps!Values)
      /\ K \intersect Deps!Values = {} \/ Deps!Values \subseteq K
      /\ \A s \in check : f.kind \notin {"value", "member"} /\ s \in Deps!Group(f.sym) => s \in K
  BY <1>1, ClearsFacts
<1>9. \A s \in K : s \in Broken
  BY <1>4, <1>8, BrokenFacts
<1>10. f.kind = "value" => f.todo = <<>>
  BY <1>2 DEF DepsInv, Valued
<1> HIDE DEF K
<1>11. /\ stack' \in Seq(Deps!Records) /\ Left
       /\ Framed' /\ Flagged' /\ Deps!FlagsOnStack' /\ Valued' /\ Progress'
       /\ Closed' /\ ~Deps!Cyclic(Finished)' /\ Deps!PrintedIsCycle' /\ Deps!Sizes'
  BY <1>1, <1>4, <1>7, <1>8, <1>9, <1>10, EndKeeps
<1>12. Deps!TypeOK' /\ Deps!NeverCounted'
  BY <1>1, <1>7, <1>11 DEF DepsInv, Deps!TypeOK, Deps!NeverCounted
<1>13. Returning'
  <2> SUFFICES ASSUME ret' # NoSym
               PROVE  \E n \in 1 .. Len(stack') :
                        /\ Deps!Returns(stack'[n], ret') = NoSym
                        /\ \A j \in 1 .. n : stack'[j].sym \in Broken'
    BY DEF Returning, Deps!Returns, Deps!Values
  <2>1. ret' = ret /\ m # 1
    BY <1>3, <1>7 DEF r
  <2> DEFINE n == m - 1
  <2>2. n \in 1 .. Len(stack) - 1 /\ n + 1 = m
    BY <1>2, <2>1
  <2>3. Len(stack') = Len(stack) - 1 /\ \A j \in 1 .. Len(stack) - 1 : stack'[j] = stack[j + 1]
    BY <1>11 DEF Left
  <2>4. \A j \in 1 .. n : j \in 1 .. Len(stack) - 1 /\ j + 1 \in 1 .. m
    BY <1>2, <2>2
  <2>5. Broken' = Broken
    BY <1>1 DEF Broken, Deps!Whole, Deps!Values
  <2> HIDE DEF n
  <2>6. n \in 1 .. Len(stack') /\ Deps!Returns(stack'[n], ret') = NoSym
    BY <1>3, <2>1, <2>2, <2>3
  <2>7. \A j \in 1 .. n : stack'[j].sym \in Broken'
    BY <1>3, <2>3, <2>4, <2>5
  <2>8. QED
    BY <2>6, <2>7
<1>14. QED
  BY <1>11, <1>12, <1>13 DEF DepsInv

(* A call that found no recursion ends: all it goes through is settled.    *)
LEMMA FinishKeeps ==
  ASSUME DepsInv, Deps!Leave, ret = NoSym
  PROVE  DepsInv'
<1> DEFINE f == stack[1]
           K == Deps!Clears(f)
<1>1. /\ stack # <<>> /\ stack' = Tail(stack) /\ check' = check \ Deps!Clears(Deps!Top)
      /\ IF Tail(stack) # <<>> THEN ret' = Deps!Returns(Deps!Top, ret) /\ UNCHANGED zconfnerrs
         ELSE /\ ret' = NoSym
              /\ zconfnerrs' = zconfnerrs + IF Deps!Returns(Deps!Top, ret) = NoSym THEN 0 ELSE 1
      /\ UNCHANGED <<deps, pending, checked, paths>>
      /\ Deps!Top.todo = <<>> /\ Deps!Top.kind # "choice"
  BY DEF Deps!Leave, Deps!Leaving, Deps!Rest
<1>2. /\ stack \in Seq(Deps!Records) /\ Len(stack) \in Nat \ {0} /\ 1 \in 1 .. Len(stack)
      /\ DOMAIN stack = 1 .. Len(stack) /\ Deps!Top = f /\ f.kind \in Deps!Kinds /\ f.sym \in Syms
  BY <1>1, TopFacts
<1>3. Deps!Returns(f, ret) = NoSym
  BY DEF Deps!Returns
<1>4. check' = check \ K /\ ret' = NoSym /\ zconfnerrs' = 0
  BY <1>1, <1>2, <1>3 DEF DepsInv, Deps!NeverCounted
<1>5. /\ \A s \in K : s = f.sym \/ (f.sym = Choice /\ s \in Deps!Values)
      /\ K \intersect Deps!Values = {} \/ Deps!Values \subseteq K
      /\ \A s \in check : f.kind \notin {"value", "member"} /\ s \in Deps!Group(f.sym) => s \in K
  BY <1>1, <1>2, ClearsFacts
<1>6. /\ f.kind \in {"value", "member"} <=> f.sym \in Deps!Values
      /\ f.kind \in {"choice", "values"} <=> f.sym = Choice
      /\ f.kind # "value" => f.sym \in checked
      /\ f.kind = "values" => Choice \notin check
  BY <1>2 DEF DepsInv, Framed, Fits, Flagged, FrameFlags
<1>7. /\ f.kind = "symbol" => K = {f.sym}
      /\ f.kind = "values" => K = Deps!Values
      /\ f.kind \in {"value", "member"} => K = {}
  BY DEF Deps!Clears
<1>8. \A t \in Calls(f) : Ready(f, t)
  <2>1. Elements(f.todo) = {}
    BY <1>1, <1>2 DEF Elements
  <2>2. \A t \in Calls(f) : t \in Elements(f.todo) \/ Ready(f, t)
    BY <1>2 DEF DepsInv, Progress
  <2>3. QED
    BY <2>1, <2>2
<1>9. f.kind \in {"symbol", "member"} => \A b \in DepsOf(f.sym) : Settled(b)
  <2>1. f.kind \in {"symbol", "member"} => Calls(f) = DepsOf(f.sym)
    BY DEF Calls
  <2>2. QED
    BY <1>8, <2>1 DEF Ready, Settled
<1>10. \A s \in K : s \in Broken \/ \A b \in DepsOf(s) : Settled(b)
  <2>1. CASE f.kind = "symbol"
    BY <1>7, <1>9, <2>1
  <2>2. CASE f.kind = "values"
    <3>1. Calls(f) = Deps!Values
      BY <2>2 DEF Calls
    <3>2. QED
      BY <1>7, <1>8, <2>2, <3>1 DEF Ready
  <2>3. CASE f.kind \in {"value", "member"}
    BY <1>7, <2>3
  <2>4. QED
    BY <1>1, <1>2, <2>1, <2>2, <2>3 DEF Deps!Kinds
<1>11. f.kind = "value" => f.sym \in Broken \/ (f.sym \in checked /\ f.sym \notin check)
  <2> SUFFICES ASSUME f.kind = "value"
               PROVE  f.sym \in Broken \/ (f.sym \in checked /\ f.sym \notin check)
    OBVIOUS
  <2>1. f.sym \in Deps!Values /\ Calls(f) = {Choice}
    BY <1>6 DEF Calls
  <2>2. Choice \in Broken \/ Choice \in checked
    BY <1>8, <2>1 DEF Ready, Over
  <2>3. Choice \in Broken => f.sym \in Broken
    BY <2>1, BrokenFacts
  <2>4. Choice \in checked => f.sym \in checked
    BY <2>1 DEF DepsInv, Flagged, Together
  <2>5. \A i \in 1 .. Len(stack) : stack[i].sym = Choice => i < 1
    BY <1>2 DEF DepsInv, Valued
  <2>6. ASSUME f.sym \in check PROVE FALSE
    <3>1. PICK i \in 1 .. Len(stack) : stack[i].kind # "value" /\ f.sym \in Deps!Group(stack[i].sym)
      BY <1>2, <2>6 DEF DepsInv, Deps!FlagsOnStack
    <3>2. CASE stack[i].sym = Choice
      BY <1>2, <2>5, <3>2
    <3>3. CASE stack[i].sym # Choice
      <4>1. stack[i].sym = f.sym
        BY <3>1, <3>3 DEF Deps!Group
      <4>2. i < Len(stack) /\ stack[i + 1].kind = "values"
        BY <2>1, <3>1, <4>1 DEF DepsInv, Framed, Fits
      <4>3. i + 1 \in 1 .. Len(stack) /\ ~(i + 1 < 1)
        BY <1>2, <4>2
      <4>4. stack[i + 1].sym = Choice
        BY <4>2, <4>3 DEF DepsInv, Framed, Fits
      <4>5. QED
        BY <2>5, <4>3, <4>4
    <3>4. QED
      BY <3>2, <3>3
  <2>7. QED
    BY <2>2, <2>3, <2>4, <2>6
<1>12. Len(stack) > 1 =>
         \/ f.sym \in Broken
         \/ stack[2].kind = "values" /\ \A b \in DepsOf(f.sym) : Settled(b)
         \/ stack[2].kind # "values" /\ f.sym \in checked /\ f.sym \notin check'
  <2> SUFFICES ASSUME Len(stack) > 1
               PROVE  \/ f.sym \in Broken
                      \/ stack[2].kind = "values" /\ \A b \in DepsOf(f.sym) : Settled(b)
                      \/ stack[2].kind # "values" /\ f.sym \in checked /\ f.sym \notin check'
    OBVIOUS
  <2>1. 2 \in 1 .. Len(stack) /\ 2 > 1 /\ 2 - 1 = 1 /\ 1 + 1 = 2
    BY <1>2
  <2>2. f.sym \in Calls(stack[2]) /\ (f.kind = "member" => stack[2].kind = "values")
    BY <1>2, <2>1 DEF DepsInv, Framed
  <2>3. stack[2].kind = "values" => f.sym \in Deps!Values /\ stack[2].sym = Choice
    BY <2>1, <2>2 DEF Calls, DepsInv, Framed, Fits
  <2>4. CASE f.kind = "member"
    BY <1>9, <2>2, <2>4
  <2>5. CASE f.kind = "symbol"
    BY <1>4, <1>6, <1>7, <2>3, <2>5
  <2>6. CASE f.kind = "values"
    BY <1>4, <1>6, <2>3, <2>6 DEF DepsInv, Deps!Sizes
  <2>7. CASE f.kind = "value"
    <3>1. \A i \in 1 .. Len(stack) : stack[i].sym = Choice => i < 1
      BY <1>2, <2>7 DEF DepsInv, Valued
    <3>2. stack[2].sym # Choice
      BY <2>1, <3>1
    <3>3. QED
      BY <1>4, <1>11, <2>3, <2>7, <3>2
  <2>8. QED
    BY <1>1, <1>2, <2>4, <2>5, <2>6, <2>7 DEF Deps!Kinds
<1> HIDE DEF K
<1>13. /\ stack' \in Seq(Deps!Records) /\ Left
       /\ Framed' /\ Flagged' /\ Deps!FlagsOnStack' /\ Valued' /\ Progress'
       /\ Closed' /\ ~Deps!Cyclic(Finished)' /\ Deps!PrintedIsCycle' /\ Deps!Sizes'
  BY <1>1, <1>2, <1>4, <1>5, <1>10, <1>12, EndKeeps
<1>14. Deps!TypeOK' /\ Deps!NeverCounted' /\ Returning'
  BY <1>1, <1>4, <1>13 DEF DepsInv, Deps!TypeOK, Deps!NeverCounted, Returning
<1>15. QED
  BY <1>13, <1>14 DEF DepsInv

-----------------------------------------------------------------------------
(* conf_parse goes on to its next symbol, with no call in progress.        *)
LEMMA ParseKeeps ==
  ASSUME DepsInv, Deps!Parse
  PROVE  DepsInv'
<1>1. PICK s \in pending :
        /\ pending' = pending \ {s}
        /\ IF s \in checked THEN UNCHANGED <<stack, check, checked>> ELSE Deps!Call(s, <<>>)
  BY DEF Deps!Parse
<1>2. stack = <<>> /\ UNCHANGED <<deps, ret, paths, zconfnerrs>>
  BY DEF Deps!Parse
<1>3. s \in Syms /\ pending' \subseteq Syms /\ Len(stack) = 0 /\ DOMAIN stack = {}
  BY <1>1, <1>2 DEF DepsInv, Deps!TypeOK
<1>4. check = {} /\ ret = NoSym
  BY <1>3 DEF DepsInv, Deps!FlagsOnStack, Returning
<1>5. \A t \in Syms \ pending : t \in checked
  BY <1>3 DEF DepsInv, Flagged, Begun
<1>6. CASE s \in checked
  <2>1. UNCHANGED <<stack, check, checked>>
    BY <1>1, <1>6
  <2>2. Begun'
    BY <1>1, <1>5, <1>6, <2>1 DEF Begun
  <2>3. Together' /\ FrameFlags'
    BY <2>1 DEF DepsInv, Flagged, Together, FrameFlags, Deps!Values
  <2>4. Deps!TypeOK' /\ Deps!Sizes' /\ Deps!NeverCounted' /\ Deps!PrintedIsCycle'
    BY <1>2, <1>3, <2>1 DEF DepsInv, Deps!TypeOK, Deps!Sizes, Deps!NeverCounted,
                            Deps!PrintedIsCycle, Deps!Values, Deps!Edge
  <2>5. Deps!FlagsOnStack' /\ Framed' /\ Valued' /\ Progress' /\ Returning'
    BY <1>2, <1>3, <1>4, <2>1 DEF Deps!FlagsOnStack, Framed, Valued, Progress, Returning
  <2>6. Broken' = Broken /\ \A t : Over(t) => Over(t)'
    BY <1>2, <2>1 DEF Over, Broken, Deps!Whole, Deps!Values
  <2>7. \A t \in Finished' : \A b \in DepsOf(t) : Settled(b)
    <3>1. \A t \in Finished' : t \in Finished
      BY <2>1, <2>6 DEF Finished
    <3>2. QED
      BY <3>1 DEF DepsInv, Closed
  <2>8. Closed' /\ ~Deps!Cyclic(Finished)'
    BY <1>2, <2>2, <2>3, <2>6, <2>7, StaysSettled, StaysAcyclic DEF Flagged
  <2>9. QED
    BY <2>2, <2>3, <2>4, <2>5, <2>8 DEF DepsInv, Flagged
<1>7. CASE s \notin checked
  <2> DEFINE f == Called(s)
             M == Deps!Marks(s)
  <2>1. stack' = <<f>> \o <<>> /\ check' = check \union M /\ checked' = checked \union M
    BY <1>1, <1>7 DEF Deps!Call, Called
  <2>2. /\ f \in Deps!Records /\ f.sym = s
        /\ Fits(f) /\ Calls(f) \subseteq Elements(f.todo)
        /\ f.kind \notin {"values", "member"}
        /\ f.kind # "value" => s \in M
        /\ f.kind = "value" => f.todo = <<Choice>> /\ Choice \notin checked
        /\ M \subseteq Syms /\ M \intersect checked = {}
        /\ \A t \in M : f.kind # "value" /\ t \in Deps!Group(s)
        /\ \A t \in M \intersect (Deps!Values \union {Choice}) :
             Deps!Values \union {Choice} \subseteq M
    BY <1>3, <1>7, CalledFrame
  <2> HIDE DEF f, M
  <2>3. stack' \in Seq(Deps!Records) /\ Len(stack') = 1 /\ stack'[1] = f
    <3> DEFINE e == <<>>
    <3>1. e \in Seq(Deps!Records) /\ Len(e) = 0
      OBVIOUS
    <3> HIDE DEF e
    <3>2. <<f>> \o e \in Seq(Deps!Records) /\ Len(<<f>> \o e) = Len(e) + 1 /\ (<<f>> \o e)[1] = f
      BY <2>2, <3>1, OnTop
    <3>3. stack' = <<f>> \o e
      BY <2>1 DEF e
    <3>4. QED
      BY <3>1, <3>2, <3>3
  <2>4. DOMAIN stack' = 1 .. 1 /\ \A j \in 1 .. 1 : j = 1
    BY <2>3, LenProperties
  <2>5. Framed'
    <3>1. Fits(stack[1])'
      BY <1>2, <2>2, <2>3 DEF Fits, Calls, DepsOf, Deps!Values
    <3>2. QED
      BY <2>2, <2>3, <3>1 DEF Framed
  <2>6. Together'
    BY <1>4, <2>1, <2>2 DEF DepsInv, Flagged, Together, Deps!Values
  <2>7. FrameFlags'
    BY <2>1, <2>2, <2>3 DEF FrameFlags
  <2>8. Begun'
    <3>1. ASSUME NEW t \in Syms \ pending', t \notin checked'
          PROVE  stack'[1].kind = "value" /\ stack'[1].sym = t
      BY <1>1, <1>5, <2>1, <2>2, <2>3, <3>1
    <3>2. 1 \in 1 .. Len(stack')
      BY <2>3
    <3>3. QED
      BY <3>1, <3>2 DEF Begun
  <2>9. Flagged'
    BY <2>6, <2>7, <2>8 DEF Flagged
  <2>10. Deps!FlagsOnStack'
    <3>1. \A t \in check' : stack'[1].kind # "value" /\ t \in Deps!Group(stack'[1].sym)
      BY <1>4, <2>1, <2>2, <2>3
    <3>2. QED
      BY <2>4, <3>1, FlagsNext
  <2>11. Valued'
    <3>1. f.kind = "value" => f.sym # Choice
      BY <2>2 DEF Fits, DepsInv, Deps!Sizes
    <3>2. f.kind = "value" => f.todo = <<Choice>>
      BY <2>2
    <3>3. \A j \in 1 .. Len(stack') : j = 1 /\ stack'[j] = f
      BY <2>3, <2>4
    <3>4. ret' = NoSym
      BY <1>2, <1>4
    <3>5. SUFFICES ASSUME NEW j \in 1 .. Len(stack'), stack'[j].kind = "value"
                   PROVE  (/\ stack[j].todo \in {<<>>, <<Choice>>}
                           /\ stack[j].todo = <<>> => Choice \in checked
                           /\ stack[j].todo # <<>> => j = 1 /\ ret = NoSym
                           /\ \A i \in 1 .. Len(stack) : stack[i].sym = Choice => i < j)'
      BY DEF Valued
    <3>6. j = 1 /\ stack'[j].todo = <<Choice>> /\ f.sym # Choice
      BY <3>1, <3>2, <3>3, <3>5
    <3>7. \A i \in 1 .. Len(stack') : stack'[i].sym # Choice
      BY <3>3, <3>6
    <3>8. <<Choice>> # <<>>
      OBVIOUS
    <3>9. QED
      BY <3>4, <3>6, <3>7, <3>8
  <2>12. Progress'
    <3>1. \A t \in Calls(stack[1])' : t \in Elements(stack[1].todo)'
      BY <1>2, <2>2, <2>3 DEF Calls, DepsOf, Elements, Deps!Values
    <3>2. QED
      BY <2>3, <2>4, <3>1 DEF Progress
  <2>13. Broken' = Broken /\ \A t : Over(t)' <=> Over(t)
    BY <1>2, <2>1, <2>2, <1>4 DEF Over, Broken, Deps!Whole, Deps!Values
  <2>14. Closed' /\ ~Deps!Cyclic(Finished)'
    <3>1. \A t \in Finished' : t \in Finished
      BY <2>13 DEF Finished, Over
    <3>2. \A t \in Finished' : \A b \in DepsOf(t) : Settled(b)
      BY <3>1 DEF DepsInv, Closed
    <3>3. QED
      BY <1>2, <2>9, <2>13, <3>2, StaysSettled, StaysAcyclic
  <2>15. Deps!TypeOK' /\ Deps!Sizes' /\ Deps!NeverCounted' /\ Deps!PrintedIsCycle'
    <3>1. check' \subseteq checked' /\ checked' \subseteq Syms
      BY <1>4, <2>1, <2>2 DEF DepsInv, Deps!TypeOK
    <3>2. Deps!TypeOK'
      BY <1>2, <1>3, <2>3, <3>1 DEF DepsInv, Deps!TypeOK
    <3>3. Deps!Sizes' /\ Deps!NeverCounted'
      BY <1>2 DEF DepsInv, Deps!Sizes, Deps!NeverCounted, Deps!Values
    <3>4. Deps!PrintedIsCycle'
      BY <1>2 DEF DepsInv, Deps!PrintedIsCycle, Deps!Values, Deps!Edge
    <3>5. QED
      BY <3>2, <3>3, <3>4
  <2>16. Returning'
    BY <1>2, <1>4 DEF Returning
  <2>17. QED
    BY <2>5, <2>9, <2>10, <2>11, <2>12, <2>14, <2>15, <2>16 DEF DepsInv
<1>8. QED
  BY <1>6, <1>7

LEMMA DepsInvStart ==
  ASSUME Deps!Sizes, Deps!Init
  PROVE  DepsInv
<1>1. /\ pending = Syms /\ stack = <<>> /\ ret = NoSym /\ check = {} /\ checked = {}
      /\ paths = {} /\ zconfnerrs = 0 /\ deps \in [Syms -> Deps!Lists]
  BY DEF Deps!Init
<1>2. Len(stack) = 0 /\ DOMAIN stack = {} /\ stack \in Seq(Deps!Records)
  BY <1>1
<1>3. deps \in [Syms -> Seq(Syms)]
  <2>1. ASSUME NEW l \in Deps!Lists PROVE l \in Seq(Syms)
    <3>1. PICK n \in 0 .. MaxDeps : l \in [1 .. n -> Syms]
      BY <2>1 DEF Deps!Lists
    <3>2. n \in Nat
      BY <3>1
    <3>3. QED
      BY <3>1, <3>2
  <2>2. QED
    BY <1>1, <2>1
<1>4. Deps!TypeOK /\ Deps!PrintedIsCycle /\ Deps!NeverCounted /\ Deps!FlagsOnStack
  BY <1>1, <1>2, <1>3 DEF Deps!TypeOK, Deps!PrintedIsCycle, Deps!NeverCounted, Deps!FlagsOnStack
<1>5. Framed /\ Valued /\ Returning /\ Progress
  BY <1>1, <1>2 DEF Framed, Valued, Returning, Progress
<1>6. Flagged
  BY <1>1, <1>2 DEF Flagged, Together, FrameFlags, Begun
<1>7. Finished = {}
  BY <1>1 DEF Finished
<1>8. Closed /\ ~Deps!Cyclic(Finished)
  BY <1>7 DEF Closed, Deps!Cyclic
<1>9. QED
  BY <1>4, <1>5, <1>6, <1>8 DEF DepsInv

LEMMA DepsInvStep ==
  DepsInv /\ [Deps!Next]_Deps!vars => DepsInv'
<1> SUFFICES ASSUME DepsInv, [Deps!Next]_Deps!vars PROVE DepsInv'
  OBVIOUS
<1>1. CASE Deps!Parse
  BY <1>1, ParseKeeps
<1>2. CASE Deps!Recursive
  BY <1>2, RecursiveKeeps
<1>3. CASE Deps!Known
  BY <1>3, KnownKeeps
<1>4. CASE Deps!Descend
  BY <1>4, DescendKeeps
<1>5. CASE Deps!Member
  BY <1>5, MemberKeeps
<1>6. CASE Deps!Proceed
  BY <1>6, ProceedKeeps
<1>7. CASE Deps!Leave
  BY <1>7, ReturnKeeps, FinishKeeps
<1>8. CASE UNCHANGED Deps!vars
  <2>1. UNCHANGED <<deps, pending, stack, ret, check, checked, paths, zconfnerrs>>
    BY <1>8 DEF Deps!vars
  <2>2. /\ Deps!Sizes' /\ Deps!TypeOK' /\ Deps!FlagsOnStack' /\ Deps!PrintedIsCycle'
        /\ Deps!NeverCounted'
    BY <2>1 DEF DepsInv, Deps!Sizes, Deps!TypeOK, Deps!FlagsOnStack, Deps!PrintedIsCycle,
                Deps!NeverCounted, Deps!Values, Deps!Group, Deps!Edge
  <2>3. Broken' = Broken /\ \A t : Over(t)' <=> Over(t)
    BY <2>1 DEF Over, Broken, Deps!Whole, Deps!Values
  <2>4. Framed' /\ Flagged' /\ Valued'
    <3>1. Framed'
      <4>1. ASSUME NEW j \in 1 .. Len(stack)
            PROVE  Fits(stack[j])' /\ (j > 1 => (stack[j - 1].sym \in Calls(stack[j]))')
        <5>1. Fits(stack[j]) /\ (j > 1 => stack[j - 1].sym \in Calls(stack[j]))
          BY DEF DepsInv, Framed
        <5>2. QED
          BY <2>1, <5>1 DEF Fits, Calls, DepsOf
      <4>2. QED
        BY <2>1, <4>1 DEF DepsInv, Framed
    <3>2. Flagged'
      BY <2>1 DEF DepsInv, Flagged, Together, FrameFlags, Begun, Deps!Values
    <3>3. Valued'
      BY <2>1 DEF DepsInv, Valued
    <3>4. QED
      BY <3>1, <3>2, <3>3
  <2>5. Returning'
    BY <2>1, <2>3 DEF DepsInv, Returning, Deps!Returns, Deps!Values
  <2>6. Progress'
    BY <2>1, <2>3 DEF DepsInv, Progress, Ready, Settled, Calls, DepsOf, Elements, Deps!Values
  <2>7. \A t \in Finished' : \A b \in DepsOf(t) : Settled(b)
    BY <2>1, <2>3 DEF DepsInv, Closed, Finished
  <2>8. Closed' /\ ~Deps!Cyclic(Finished)'
    BY <2>1, <2>3, <2>4, <2>7, StaysSettled, StaysAcyclic
  <2>9. QED
    BY <2>2, <2>4, <2>5, <2>6, <2>8 DEF DepsInv
<1>9. QED
  BY <1>1, <1>2, <1>3, <1>4, <1>5, <1>6, <1>7, <1>8 DEF Deps!Next, Deps!Stay

(* When conf_parse has seen every symbol, every symbol not in a printed    *)
(* path is finished.                                                       *)
LEMMA AllFinished ==
  ASSUME DepsInv
  PROVE  Deps!BreakingIsEnough
<1> SUFFICES ASSUME Deps!Done PROVE ~Deps!Cyclic(Syms \ Broken)
  BY DEF Deps!BreakingIsEnough, Broken
<1>1. stack = <<>> /\ pending = {} /\ Len(stack) = 0 /\ DOMAIN stack = {}
  BY DEF Deps!Done
<1>2. Syms \subseteq checked /\ check = {}
  BY <1>1 DEF DepsInv, Flagged, Begun, Deps!FlagsOnStack
<1>3. Syms \ Broken \subseteq Finished
  BY <1>2 DEF Finished
<1>4. QED
  BY <1>3 DEF DepsInv, Deps!Cyclic

(* sym_check_deps, for any symbols, lists of dependencies and choice: when *)
(* it is over, taking away what it printed leaves no recursive dependency, *)
(* whatever order it took and however many it met; what it prints are      *)
(* cycles of dependencies, and its flags are those of calls in progress.   *)
THEOREM NoRecursionIsLeft == AllSpec => []BreakingIsEnough
<1> DEFINE Inv == part = "deps" => DepsInv
<1>1. AllInit => Inv
  BY DepsAssumption, DepsInvStart DEF AllInit
<1>2. Inv /\ [AllNext]_allVars => Inv'
  <2> SUFFICES ASSUME Inv, [AllNext]_allVars, part' = "deps" PROVE DepsInv'
    OBVIOUS
  <2>1. part = "deps" /\ [Deps!Next]_Deps!vars
    BY DEF AllNext, FrameStep, TxStep, FileStep, SaveStep, DepsStep, allVars, depsVars, Deps!vars
  <2>2. QED
    BY <2>1, DepsInvStep
<1>3. Inv => BreakingIsEnough
  BY AllFinished DEF DepsInv, BreakingIsEnough
<1>4. QED
  BY <1>1, <1>2, <1>3, PTL DEF AllSpec

(* The same search never counts an error: every symbol that is returned is *)
(* dropped by a call on its way, so conf_parse gets NULL for all of them.  *)
THEOREM RecursionIsNeverCounted == Deps!Spec => []Deps!NeverCounted
<1>1. Deps!Init => DepsInv
  BY DepsAssumption, DepsInvStart
<1>2. DepsInv => Deps!NeverCounted
  BY DEF DepsInv
<1>3. QED
  BY <1>1, <1>2, DepsInvStep, PTL DEF Deps!Spec
=============================================================================
