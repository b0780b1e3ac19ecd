--------------------------- MODULE PacketCircuit ---------------------------
(***************************************************************************)
(* What the descriptor queues of the carl9170 firmware promise, without    *)
(* descriptors: data blocks circulate.  The hardware fills a frame into    *)
(* the blocks at the front of the free ones, the firmware takes the filled *)
(* frames in order and either frees their blocks or passes them on to be   *)
(* sent, the hardware sends them in order, and the firmware takes the sent *)
(* ones, in order again.  One packet more, the firmware's own with the     *)
(* payload Reserved, travels through the sending half only.                *)
(***************************************************************************)
EXTENDS Naturals, Sequences

CONSTANTS
  Blocks,    \* the data blocks, in their first order
  Reserved,  \* the payload of the firmware's own descriptor
  MaxLen     \* the most blocks of a frame

VARIABLES
  free,     \* blocks the hardware may fill
  filled,   \* packets received, not yet taken
  held,     \* the packet in the firmware's hands, or <<>>
  sending,  \* packets to be sent
  sent,     \* packets sent, not yet taken
  spare     \* the firmware's own descriptor is available

vars == <<free, filled, held, sending, sent, spare>>

Init ==
  /\ free = Blocks
  /\ filled = <<>>
  /\ held = <<>>
  /\ sending = <<>>
  /\ sent = <<>>
  /\ spare = TRUE

Fill(n) ==
  /\ n <= Len(free)
  /\ filled' = Append(filled, SubSeq(free, 1, n))
  /\ free' = SubSeq(free, n + 1, Len(free))
  /\ UNCHANGED <<held, sending, sent, spare>>

TakeFilled ==
  /\ held = <<>>
  /\ filled # <<>>
  /\ held' = Head(filled)
  /\ filled' = Tail(filled)
  /\ UNCHANGED <<free, sending, sent, spare>>

(* The firmware's own packet is never freed: its payload is not a block.   *)
Free ==
  /\ held \notin {<<>>, <<Reserved>>}
  /\ free' = free \o held
  /\ held' = <<>>
  /\ UNCHANGED <<filled, sending, sent, spare>>

Pass ==
  /\ held # <<>>
  /\ sending' = Append(sending, held)
  /\ held' = <<>>
  /\ UNCHANGED <<free, filled, sent, spare>>

TakeSpare ==
  /\ held = <<>>
  /\ spare
  /\ spare' = FALSE
  /\ held' = <<Reserved>>
  /\ UNCHANGED <<free, filled, sending, sent>>

Send ==
  /\ sending # <<>>
  /\ sent' = Append(sent, Head(sending))
  /\ sending' = Tail(sending)
  /\ UNCHANGED <<free, filled, held, spare>>

TakeSent ==
  /\ held = <<>>
  /\ sent # <<>>
  /\ sent' = Tail(sent)
  /\ IF Head(sent) = <<Reserved>>
     THEN spare' = TRUE /\ UNCHANGED held
     ELSE held' = Head(sent) /\ UNCHANGED spare
  /\ UNCHANGED <<free, filled, sending>>

Next ==
  \/ \E n \in 1 .. MaxLen : Fill(n)
  \/ TakeFilled
  \/ Free
  \/ Pass
  \/ TakeSpare
  \/ Send
  \/ TakeSent

Spec == Init /\ [][Next]_vars
=============================================================================
