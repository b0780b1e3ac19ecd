------------------------------- MODULE TxHang -------------------------------
(***************************************************************************)
(* The hang detection of the carl9170 firmware (carlfw/src/wlan.c): a MAC  *)
(* that hangs on a frame is noticed by wlan_check_hang, which compares the *)
(* frame at the MAC with the one of the last timer tick, and wlan_mac_reset*)
(* resets the MAC and has the frame fail, so that wlan_tx_status reports   *)
(* it.  Composes wlan_timer with the transmit path of TxPath.              *)
(***************************************************************************)
EXTENDS TxPath

CONSTANTS
  TxMacReset,    \* CARL9170FW_TX_MAC_RESET
  MaxRateTries,  \* CARL9170_TX_MAX_RATE_TRIES
  MaxForced      \* bound: CARL9170_CMD_SWRST commands and RX overruns

(* No rate has more tries than the field holds.                            *)
ASSUME TxHangAssumption ==
  /\ TxMacReset \in Nat \ {0}
  /\ MaxForced \in Nat /\ MaxRateTries \in Nat \ {0}
  /\ \A k \in Kinds : \A r \in 1 .. Len(k.tries) : k.tries[r] <= MaxRateTries

VARIABLES
  last_super,      \* fw.wlan.last_super
  last_super_num,  \* fw.wlan.last_super_num
  mac_reset,       \* fw.wlan.mac_reset
  hung,            \* the MAC hangs on the frame in front of the queue
  forced,          \* history: resets asked for by the host or by RX overruns
  age,             \* history: timer ticks since the MAC got its frame
  killed           \* history: frames failed by wlan_mac_reset, with their age

check == <<last_super, last_super_num>>
hangVars == <<check, mac_reset, hung, forced, age, killed>>
allVars == <<vars, hangVars>>

MAC_RESET_OFF == 0
MAC_RESET_RESET == 2
MAC_RESET_FORCE == 3

HangInit ==
  /\ Init
  /\ last_super = [q \in Queues |-> NULL]
  /\ last_super_num = [q \in Queues |-> 0]
  /\ mac_reset = MAC_RESET_OFF
  /\ hung = [q \in Queues |-> FALSE]
  /\ forced = 0
  /\ age = [q \in Queues |-> 0]
  /\ killed = {}

(* DESC_PAYLOAD of a queue's current descriptor; the terminator's is NULL. *)
Payload(q) ==
  IF Current(q) = {} THEN NULL
  ELSE LET n == CHOOSE n \in Current(q) : TRUE IN tx_queue[q][n].id

(* The MAC stops working on the queue.                                     *)
MacHang(q) ==
  /\ engine[q] = "busy"
  /\ Current(q) # {}
  /\ ~hung[q]
  /\ hung' = [hung EXCEPT ![q] = TRUE]
  /\ UNCHANGED <<vars, check, mac_reset, forced, age, killed>>

(* wlan_tx_status: "update hangcheck".                                     *)
StatusSeen == [last_super_num EXCEPT ![i] = 0]

(* The steps of TxPath, except the end of the round, which brings the      *)
(* timer.                                                                  *)
HangStatus ==
  /\ StatusRearm \/ StatusRetry \/ StatusDone
  /\ last_super_num' = StatusSeen
  /\ UNCHANGED <<last_super, mac_reset, hung, forced, age, killed>>

HangMac(q) ==
  /\ ~hung[q]
  /\ MacIdle(q) \/ \E fail \in {"no", "tx", "ba"} : MacSend(q, fail)
  /\ age' = [age EXCEPT ![q] = 0]
  /\ UNCHANGED <<check, mac_reset, hung, forced, killed>>

HangOther ==
  /\ \/ \E n \in 0 .. MaxBars - bars : HandleWlan(n)
     \/ Janitor
     \/ \E k \in Kinds : Download(k)
     \/ DownloadClipped
     \/ StatusEnd
     \/ RetryNext
     \/ RetryEnd
  /\ UNCHANGED hangVars
-----------------------------------------------------------------------------
(* wlan_check_hang, as functions of the queues: a queue that is not empty  *)
(* and shows the frame it showed at the last tick.                         *)
Same(q) == tx_queue[q] # <<>> /\ Payload(q) = last_super[q]
NewCount(q) ==
  IF tx_queue[q] = <<>> THEN last_super_num[q]
  ELSE IF Same(q) THEN last_super_num[q] + 1 ELSE 0
(* Slip: the frame that is seen is not remembered.                         *)
NewSeenNone(q) == last_super[q]
NewSeen(q) == IF tx_queue[q] = <<>> THEN last_super[q] ELSE Payload(q)
(* The history, up to the age that matters.                                *)
NewAge(q) ==
  IF Payload(q) = NULL THEN 0
  ELSE IF age[q] < TxMacReset THEN age[q] + 1 ELSE TxMacReset
HungQueues == {q \in Queues : Same(q) /\ NewCount(q) >= TxMacReset}

(* Slip: the frame at the MAC is failed without a look at the count.       *)
VictimAny(q) == tx_queue[q] # <<>> /\ Payload(q) # NULL /\ NewSeen(q) = Payload(q)
(* The frame wlan_mac_reset kills: the first one the MAC still owns, when  *)
(* it is the one that has been seen too often.                             *)
Victim(q) == Payload(q) # NULL /\ NewCount(q) >= TxMacReset /\ NewSeen(q) = Payload(q)

(* Slip: the killed frame has retries left.                                *)
KilledSuperRetries(s) == s
(* The killed frame has used up its tries.                                 *)
KilledSuper(s) == [s EXCEPT !.cnt = MaxRateTries, !.rix = MaxRix]

(* Its descriptor is the firmware's again, with the BlockAck failure flag. *)
KilledEntry(e) == [e EXCEPT !.own = "SW", !.fail = "ba"]

(* wlan_mac_reset: the MAC starts again behind the killed frames, and      *)
(* handle_tx_completion will look at the queues (soft_int).                *)
MacReset ==
  LET victims == {Payload(q) : q \in {p \in Queues : Victim(p)}}
      entry(e) == IF e.id \in victims THEN KilledEntry(e) ELSE e
  IN  /\ tx_queue' = [q \in Queues |-> [n \in DOMAIN tx_queue[q] |-> entry(tx_queue[q][n])]]
      /\ super' = [id \in Ids |-> IF id \in victims THEN KilledSuper(super[id]) ELSE super[id]]
      /\ last_super' = [q \in Queues |-> IF Victim(q) THEN NULL ELSE NewSeen(q)]
      /\ last_super_num' = [q \in Queues |-> IF Victim(q) THEN 0 ELSE NewCount(q)]
      /\ engine' = [q \in Queues |->
           IF \E n \in DOMAIN tx_queue[q] :
                tx_queue[q][n].own = "HW" /\ tx_queue[q][n].id \notin victims
           THEN "busy" ELSE "idle"]
      /\ hung' = [q \in Queues |-> FALSE]
      /\ killed' = killed \cup {<<id, NewAge(super[id].kind.queue)>> : id \in victims}
      /\ age' = [q \in Queues |-> IF Victim(q) THEN 0 ELSE NewAge(q)]
      /\ mac_reset' = MAC_RESET_OFF
      /\ txc' = TRUE

(* wlan_timer when it does not reset the MAC: a request that was not       *)
(* repeated fades.                                                         *)
NoReset(requests) ==
  /\ last_super' = [q \in Queues |-> NewSeen(q)]
  /\ last_super_num' = [q \in Queues |-> NewCount(q)]
  /\ mac_reset' = IF requests = mac_reset /\ mac_reset # 0 THEN mac_reset - 1 ELSE requests
  /\ age' = [q \in Queues |-> NewAge(q)]
  /\ UNCHANGED <<super, tx_queue, engine, txc, hung, killed>>

(* The end of the round with a tick: n is 1 when wlan_check_rx_overrun     *)
(* asks for a reset, too.                                                  *)
Tick(n) ==
  LET requests == mac_reset + Cardinality(HungQueues) + n
  IN  /\ stage[1] = "host"
      /\ stage' = <<"wlan", 0>>
      /\ forced' = forced + n
      /\ IF requests >= MAC_RESET_RESET THEN MacReset ELSE NoReset(requests)
      /\ UNCHANGED <<tx_retry, ampdu_prev, queued_bar, ba, hist>>

NoTick ==
  /\ DownloadEnd
  /\ UNCHANGED hangVars

(* handle_cmd of CARL9170_CMD_SWRST.                                       *)
SoftReset ==
  /\ stage[1] = "host"
  /\ forced < MaxForced
  /\ forced' = forced + 1
  /\ mac_reset' = MAC_RESET_FORCE
  /\ UNCHANGED <<vars, check, hung, age, killed>>

HangFirmware ==
  \/ HangStatus
  \/ HangOther
  \/ \E n \in {0, 1} : n <= MaxForced - forced /\ Tick(n)
  \/ NoTick
  \/ SoftReset

HangNext == HangFirmware \/ \E q \in Queues : HangMac(q) \/ MacHang(q)

(* The timer ticks again and again, and the MAC sends or hangs.            *)
HangFairness ==
  /\ WF_allVars(HangFirmware)
  /\ SF_allVars(Tick(0))
  /\ \A q \in Queues :
       WF_allVars(MacHang(q) \/ (~hung[q] /\ HangMac(q)))

HangSpec == HangInit /\ [][HangNext]_allVars
HangFairSpec == HangSpec /\ HangFairness
-----------------------------------------------------------------------------
(* Types of the hang check.                                                *)
HangTypeOK ==
  /\ TypeOK
  /\ last_super \in [Queues -> Ids \cup {NULL}]
  /\ last_super_num \in [Queues -> Nat]
  /\ mac_reset \in 0 .. MAC_RESET_FORCE
  /\ hung \in [Queues -> BOOLEAN]
  /\ forced \in 0 .. MaxForced
  /\ age \in [Queues -> 0 .. TxMacReset]
  /\ killed \subseteq Ids \X (0 .. TxMacReset)

(* No frame is killed before it has been with the MAC for TxMacReset       *)
(* ticks, even when the host or an overrun asks for a reset while frames   *)
(* come and go in the same memory.                                         *)
KilledOnlyWhenHung == \A k \in killed : k[2] = TxMacReset

(* A killed frame never gets another try: it is in its queue, done, or     *)
(* reported as a failure (wlan.c:1152-1162).                               *)
KilledFails ==
  \A k \in killed : LET id == k[1] IN
    id # BA => /\ InRetry(id) = {}
               /\ reports[id] \in {<<>>, <<FALSE>>}
               /\ \A n \in InQueue(super[id].kind.queue, id) :
                    tx_queue[super[id].kind.queue][n].own = "SW"

(* The MAC may hang on any frame: every frame is reported all the same.    *)
ReportedDespiteHangs == \A id \in 1 .. MaxFrames : (posted >= id) ~> (reports[id] # <<>>)
=============================================================================
