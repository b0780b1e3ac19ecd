------------------------------ MODULE FrameBuf ------------------------------
(***************************************************************************)
(* struct frame of tools/include/frame.h, the buffer in which carlu and    *)
(* its tests build and receive frames: bytes are appended at tail, headers *)
(* are pushed in front of data into space reserved for them, and pulled    *)
(* again.  Pointers are offsets from payload, which is also head.  A       *)
(* failed BUG_ON ends the program, before the caller writes a byte.        *)
(* frame_reserve does not look at the pointers: once it has moved tail out *)
(* of the buffer only frame_trim is modelled, not what a caller that goes  *)
(* on destroys behind it.                                                  *)
(***************************************************************************)
EXTENDS Integers, Sequences

CONSTANTS
  Bytes,      \* what a byte may be
  Alloced,    \* frame->alloced
  MaxSize,    \* bound: size in a call
  Word        \* the counters are unsigned and this wide (2^32)

ASSUME FrameAssumption ==
  /\ Bytes # {}
  /\ Alloced \in Nat /\ MaxSize \in Nat \ {0}
  /\ Word \in Nat /\ Word > Alloced + MaxSize

VARIABLES
  mem,                  \* the payload, and what lies behind it
  data, tail,
  len, total_len,
  bug,                  \* a BUG_ON has fired
  late,                 \* history: space was reserved after a pull
  pushed                \* history: the frame before the last call, if that was a push, and its size

frame == <<data, tail, len, total_len>>
vars == <<mem, frame, bug, late, pushed>>

Fresh == CHOOSE b \in Bytes : TRUE
Sizes == 1 .. MaxSize
Blocks == UNION {[1 .. n -> Bytes] : n \in Sizes}
NoPush == [frame |-> <<>>, size |-> 0]
AtEnd == Alloced + MaxSize

(* frame_alloc.                                                            *)
Init ==
  /\ mem = [i \in 0 .. AtEnd |-> Fresh]
  /\ data = 0 /\ tail = 0 /\ len = 0 /\ total_len = 0
  /\ bug = FALSE /\ late = FALSE /\ pushed = NoPush

Plus(n, size) == (n + size) % Word
Minus(n, size) == (n - size) % Word

\* The caller copies block b to where the call pointed.
Write(b, at) ==
  mem' = [i \in DOMAIN mem |-> IF i \in at .. at + Len(b) - 1 THEN b[i - at + 1] ELSE mem[i]]

Abort == bug' = TRUE /\ UNCHANGED <<mem, frame, late, pushed>>

Unless(wrong, step) ==
  /\ ~bug /\ tail <= Alloced
  /\ IF wrong THEN Abort ELSE step /\ UNCHANGED bug

\* The two BUG_ONs of frame_put: by the counter, and by where tail ends up.
NoRoom(size) == Plus(total_len, size) > Alloced \/ tail + size > Alloced

Put(b) ==
  LET size == Len(b)
  IN  Unless(NoRoom(size),
        /\ len' = Plus(len, size) /\ total_len' = Plus(total_len, size)
        /\ tail' = tail + size
        /\ Write(b, tail)
        /\ pushed' = NoPush /\ UNCHANGED <<data, late>>)

Push(b) ==
  LET size == Len(b)
  IN  Unless(data - size < 0,
        /\ len' = Plus(len, size) /\ data' = data - size
        /\ Write(b, data - size)
        /\ pushed' = [frame |-> frame, size |-> size]
        /\ UNCHANGED <<tail, total_len, late>>)

\* Slip: the data are taken from the end.
PulledTail(size) == data' = data /\ tail' = tail - size

Pulled(size) == data' = data + size /\ tail' = tail

Pull(size) ==
  Unless(len < size,
    /\ len' = Minus(len, size) /\ total_len' = Minus(total_len, size)
    /\ Pulled(size)
    /\ pushed' = NoPush /\ UNCHANGED <<mem, late>>)

(* After a pull total_len is too small to keep tail inside the buffer.     *)
Reserve(size) ==
  Unless(Plus(total_len, size) > Alloced \/ len # 0,
    /\ total_len' = Plus(total_len, size)
    /\ data' = data + size /\ tail' = tail + size
    /\ IF total_len = tail THEN UNCHANGED late ELSE late' = TRUE
    /\ pushed' = NoPush /\ UNCHANGED <<mem, len>>)

(* frame_trim(frame, 0), the only size it is called with: a receive buffer *)
(* is used again.                                                          *)
Trim ==
  /\ ~bug
  /\ len' = 0 /\ total_len' = 0 /\ data' = 0 /\ tail' = 0 /\ late' = FALSE
  /\ pushed' = NoPush /\ UNCHANGED <<mem, bug>>

Next ==
  \/ \E b \in Blocks : Put(b) \/ Push(b)
  \/ \E size \in Sizes : Pull(size) \/ Reserve(size)
  \/ Trim

Spec == Init /\ [][Next]_vars
-----------------------------------------------------------------------------
(* The data are as long as the frame says.                                 *)
Shape == 0 <= data /\ data <= tail /\ tail - data = len

(* They are inside the buffer: the BUG_ONs of frame_put, frame_push and    *)
(* frame_reserve are there for it.                                         *)
InBuffer == Shape /\ tail <= Alloced

(* They leave it only by a reserve that followed a pull, which no caller   *)
(* does, whatever the other calls and whatever total_len has become.       *)
KeptInBuffer == Shape /\ (tail <= Alloced \/ late)

Content == [i \in 1 .. tail - data |-> mem[data + i - 1]]
Deque == INSTANCE ByteDeque WITH content <- Content

(* What is between data and tail is what the callers put there, in order:  *)
(* no push or put writes over bytes that are still in the frame.           *)
ActsAsDeque == Deque!Spec

(* Pulling what was pushed gives back the frame as it was before.          *)
PullUndoesPush ==
  [][\A size \in Sizes :
       Pull(size) /\ ~bug' /\ pushed.size = size => frame' = pushed.frame]_vars
=============================================================================
