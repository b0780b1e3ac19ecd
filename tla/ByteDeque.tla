----------------------------- MODULE ByteDeque -----------------------------
(***************************************************************************)
(* What struct frame of tools/include/frame.h promises its users: the      *)
(* bytes from data to tail are a sequence that grows and shrinks at the    *)
(* front, grows at the back, and can be emptied.                           *)
(***************************************************************************)
EXTENDS Naturals, Sequences

CONSTANTS
  Bytes,     \* what a byte may be
  MaxSize    \* bound: bytes added or taken in a step

VARIABLE content

Blocks == UNION {[1 .. n -> Bytes] : n \in 1 .. MaxSize}

Init == content = <<>>

Append1(b) == content' = content \o b
Prepend(b) == content' = b \o content
Drop(n) == n <= Len(content) /\ content' = SubSeq(content, n + 1, Len(content))
Clear == content' = <<>>

Next ==
  \/ \E b \in Blocks : Append1(b) \/ Prepend(b)
  \/ \E n \in 1 .. MaxSize : Drop(n)
  \/ Clear

Spec == Init /\ [][Next]_content
=============================================================================
