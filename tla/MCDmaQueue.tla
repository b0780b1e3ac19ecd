----------------------------- MODULE MCDmaQueue -----------------------------
(* Values for model checking DmaQueue: three terminators, three blocks.    *)
EXTENDS DmaQueue, TLC

CONSTANTS b1, b2, b3, t1, t2, t3

MCTerminators == <<t1, t2, t3>>
MCBlocks == <<b1, b2, b3>>
MCData(b) == <<b>>

(* Descriptors differ in nothing but their place in the initial rings,     *)
(* which no step and no property looks at.                                 *)
Symmetry == Permutations({t1, t2, t3}) \cup Permutations({b1, b2, b3})
-----------------------------------------------------------------------------
(* dma_put, dma_reclaim, dma_unlink_head: the queues implement the circuit *)
(* of blocks, no block is lost or shared, the engines see no half-written  *)
(* descriptor, and the firmware's own payload is never filled.             *)
CircuitKept ==
  ImplementsCircuit /\ [](OwnedIsComplete /\ NoBlockLost /\ ReservedNotFilled)
=============================================================================
