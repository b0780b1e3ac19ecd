------------------------------- MODULE MCHost -------------------------------
(* carlu, the driver on the host: a command and its answer, frames on      *)
(* their way to the device and back, and the life of the devices from the  *)
(* probe to the end of the program.  The parts share no state, so only one *)
(* of them moves in a behaviour, and the others stay as they begin.        *)
EXTENDS HostCmd, TLC

CONSTANTS
  f1, f2, f3, DmaChunks, MaxUrbs, Cookies, MayFail, MaxLeaks,   \* HostTx
  Devs, MaxCtx, NRx, MaxFails, CanBeLate, Cmd                   \* HostLife

VARIABLES
  part,     \* the part that moves: "cmd", "tx" or "life"
  ref, cookie, frame_cookie, used_dma_chunks, tx_pending, tx_sent_queue, tx_queue,
  tx_queue_len, urbs, firmware, statuses, tx_pc, tx_cur, evpc, evframe, tx_failed, lost,
  unowned, confused,
  life_pc, cur, n, ctx, active, fw, booting, failed, bad

(* Three buffers of two sizes.                                             *)
Tx == INSTANCE HostTx WITH
        Frames <- {f1, f2, f3}, chunks <- f1 :> 1 @@ f2 :> 1 @@ f3 :> 2,
        pc <- tx_pc, cur <- tx_cur, failed <- tx_failed
Life == INSTANCE HostLife WITH pc <- life_pc

ASSUME LifeAssumption == Life!Sizes

txVars == <<ref, cookie, frame_cookie, used_dma_chunks, tx_pending, tx_sent_queue, tx_queue,
            tx_queue_len, urbs, firmware, statuses, tx_pc, tx_cur, evpc, evframe, tx_failed,
            lost, unowned, confused>>
lifeVars == <<life_pc, cur, n, ctx, active, fw, booting, failed, bad>>

(* The commands of cmd.c: an echo, a read of RW = 2 words, a write, whose  *)
(* answer is empty, and the last block of a dump.                          *)
MCKinds ==
  {[rlen |-> 1, alen |-> 1], [rlen |-> 2, alen |-> 2],
   [rlen |-> 1, alen |-> 0], [rlen |-> 2, alen |-> 1]}
-----------------------------------------------------------------------------
AllInit == part \in {"cmd", "tx", "life"} /\ Init /\ Tx!Init /\ Life!Init

CmdStep == part = "cmd" /\ Next /\ UNCHANGED <<part, txVars, lifeVars>>
TxStep == part = "tx" /\ Tx!Next /\ UNCHANGED <<part, vars, lifeVars>>
LifeStep == part = "life" /\ Life!Next /\ UNCHANGED <<part, vars, txVars>>

AllNext == CmdStep \/ TxStep \/ LifeStep

(* The fairness of the parts, each while it is the one that moves.         *)
CmdFair ==
  /\ WF_vars(part = "cmd" /\ Caller) /\ WF_vars(part = "cmd" /\ EventThread)
  /\ WF_vars(part = "cmd" /\ (Deliver \/ Fail))
TxFair ==
  /\ WF_txVars(part = "tx" /\ Tx!Sender)
  /\ WF_txVars(part = "tx" /\ Tx!Receive) /\ WF_txVars(part = "tx" /\ Tx!Report)
  /\ WF_txVars(part = "tx" /\ (Tx!BulkFree \/ Tx!EventPending \/ Tx!Feedback))
  /\ SF_txVars(part = "tx" /\ Tx!BulkCb) /\ SF_txVars(part = "tx" /\ Tx!FindFrame)
LifeFair ==
  /\ WF_lifeVars(part = "life" /\ Life!Main)
  /\ \A d \in Devs : WF_lifeVars(part = "life" /\ Life!Back(d))
  /\ \A c \in 1 .. MaxCtx : /\ WF_lifeVars(part = "life" /\ Life!Look(c))
                            /\ WF_lifeVars(part = "life" /\ Life!Returns(c))

AllSpec == /\ AllInit /\ [][AllNext]_<<part, vars, txVars, lifeVars>>
           /\ CmdFair /\ TxFair /\ LifeFair
-----------------------------------------------------------------------------
(* The properties of the parts, as HostTx and HostLife state them.         *)
(* What carlu_tx has accepted is freed in the end, found by its own        *)
(* cookie, and waits only behind as many transfers as may be in flight, or *)
(* behind a thread on its way to submit it.                                *)
FramesComeBack ==
  (part = "tx" => Tx!EventuallyFreed) /\ [](Tx!NoStall /\ Tx!RightFrame)

(* carlu_probe_all and main: until it is closed, a context that was        *)
(* reported runs the firmware, and a thread serves all its transfers but   *)
(* those that a callback failed to submit again; no two have the same      *)
(* device, and at the end of the program none has one; without a failure   *)
(* no context is used after it is freed.                                   *)
ContextsServed ==
  Life!ActiveRuns /\ Life!OwnsOne /\ Life!AllReleased /\ Life!CrashNeedsFailure

(* carlusb_cmd, carlusb_destroy: a call returns when no answer came too    *)
(* late, and closing ends, or ends the program.                            *)
CallsEnd == (part = "cmd" => CleanCallReturns) /\ (part = "life" => Life!CloseEnds)
=============================================================================
