------------------------------ MODULE MCTxHang ------------------------------
(* A MAC that hangs (TxHang) and an engine that stops while a packet is    *)
(* being linked (DmaQueue): in either case the firmware gets its packets   *)
(* back in the end.  The parts share no state, so only one of them moves   *)
(* in a behaviour, and the other stays as it begins.                       *)
EXTENDS TxHang

CONSTANT MaxLen

VARIABLES
  part,  \* the part that moves: "hang" or "dma"
  own, nextAddr, lastAddr, dataAddr, head, terminator, cur, running, spare,
  dma_available, pc, desc, dest, tdesc

Block(b) == <<b>>
Dma == INSTANCE DmaQueue WITH
         FillQ <- "fill", DrainQ <- "drain", Terminators <- <<"t1", "t2", "t3">>,
         Blocks <- <<"b1">>, Data <- Block, Reserved <- <<"reserved">>,
         available <- dma_available

dmaVars == <<own, nextAddr, lastAddr, dataAddr, head, terminator, cur, running, spare,
             dma_available, pc, desc, dest, tdesc>>

FallsBack == [queue |-> 0, tries |-> <<1, 1>>, ampdu |-> <<TRUE, FALSE>>,
              bar |-> FALSE, tid |-> 2, hdr |-> 2]
BlockAckReq == [queue |-> 1, tries |-> <<1>>, ampdu |-> <<FALSE>>,
                bar |-> TRUE, tid |-> 3, hdr |-> 3]
MCKinds == {FallsBack, BlockAckReq}
-----------------------------------------------------------------------------
AllInit == part \in {"hang", "dma"} /\ HangInit /\ Dma!Init

HangStep == part = "hang" /\ HangNext /\ UNCHANGED <<part, dmaVars>>
DmaStep == part = "dma" /\ Dma!Next /\ UNCHANGED <<part, allVars>>

AllNext == HangStep \/ DmaStep

(* The fairness of the parts, each while it is the one that moves.         *)
HangFair ==
  /\ WF_allVars(part = "hang" /\ HangFirmware)
  /\ SF_allVars(part = "hang" /\ Tick(0))
  /\ \A q \in Queues :
       WF_allVars(part = "hang" /\ (MacHang(q) \/ (~hung[q] /\ HangMac(q))))
DmaFair ==
  /\ WF_dmaVars(part = "dma" /\ (Dma!Prepare \/ Dma!CopyStatus \/ Dma!CopyRest
                                   \/ Dma!Publish \/ Dma!Trigger))
  /\ SF_dmaVars(part = "dma" /\ Dma!TakeSent)
  /\ WF_dmaVars(part = "dma" /\ Dma!HWDrain)

AllSpec == AllInit /\ [][AllNext]_<<part, allVars, dmaVars>> /\ HangFair /\ DmaFair
-----------------------------------------------------------------------------
(* The MAC may hang on any frame: every frame is reported all the same.    *)
AllReported == part = "hang" => ReportedDespiteHangs

(* dma_put and the trigger behind it: the firmware's own packet is sent    *)
(* and comes back, wherever the engine stopped.                            *)
SpareComesBack == part = "dma" => Dma!SpareComesBack
=============================================================================
