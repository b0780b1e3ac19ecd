------------------------------ MODULE MCTxPath ------------------------------
(* Values for model checking TxPath: two queues, and the kinds of frames   *)
(* that meet in them.                                                      *)
EXTENDS TxPath

(* Aggregated at both of its rates, of which the second is used once, or   *)
(* at the first only.                                                      *)
Aggregated == [queue |-> 0, tries |-> <<1, 1>>, ampdu |-> <<TRUE, TRUE>>,
               bar |-> FALSE, tid |-> 1, hdr |-> 1]
FallsBack == [queue |-> 0, tries |-> <<1, 1>>, ampdu |-> <<TRUE, FALSE>>,
              bar |-> FALSE, tid |-> 2, hdr |-> 2]
(* A BlockAckReq with two tries at one rate, in the queue of the firmware's*)
(* own frames.                                                             *)
BlockAckReq == [queue |-> 1, tries |-> <<2>>, ampdu |-> <<FALSE>>,
                bar |-> TRUE, tid |-> 3, hdr |-> 3]

MCTwoKinds == {FallsBack, BlockAckReq}
MCAggregated == {Aggregated}
=============================================================================
