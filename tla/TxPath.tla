------------------------------- MODULE TxPath -------------------------------
(***************************************************************************)
(* The transmit path of the carl9170 firmware (carlfw/src/wlan.c): frames  *)
(* from the host pass from the down queue (handle_download) into one of    *)
(* the wireless queues, the MAC sends them, and handle_tx_completion frees *)
(* them and reports to the host, or has them sent again, at the next rate  *)
(* when the tries of a rate are used up.  The BlockAck frames of the       *)
(* firmware itself (frame 0) use fw_desc and the same queues.              *)
(*                                                                         *)
(* A queue is a sequence of frames with their OWN bits and their failure   *)
(* flags (DmaQueue justifies that).  The firmware is one thread, but the   *)
(* MAC completes frames between its steps, so each round of a loop of      *)
(* handle_tx_completion is a step.                                         *)
(***************************************************************************)
EXTENDS Naturals, Sequences, FiniteSets

CONSTANTS
  NumQueues,   \* __AR9170_NUM_TX_QUEUES; AR9170_TXQ_SPECIAL is the last
  VO,          \* AR9170_TXQ_VO
  MaxRix,      \* CARL9170_TX_MAX_RETRY_RATES
  MaxBas,      \* CONFIG_CARL9170FW_BACK_REQS_NUM
  Kinds,       \* what the host sends: see Kind
  MaxFrames,   \* bound: frames from the host in a behaviour
  MaxBars,     \* bound: BARs received in a behaviour
  NULL

Queues == 0 .. NumQueues - 1
Ids == 0 .. MaxFrames
BA == 0

(* tries and ampdu are per rate (super->s.ri); the rates that are set come *)
(* first.  aggr and hdr stand for the TID and the first 20 bytes of the    *)
(* header.                                                                 *)
IsKind(k) ==
  /\ k.queue \in Queues
  /\ Len(k.tries) \in 1 .. MaxRix + 1
  /\ \A r \in 1 .. Len(k.tries) : k.tries[r] \in Nat
  /\ Len(k.ampdu) = Len(k.tries)
  /\ \A r \in 1 .. Len(k.ampdu) : k.ampdu[r] \in BOOLEAN
  /\ k.bar \in BOOLEAN

(* The BlockAck of wlan_send_buffered_ba: one try.                         *)
BaKind == [queue |-> VO, tries |-> <<1>>, ampdu |-> <<FALSE>>, bar |-> FALSE,
           tid |-> NULL, hdr |-> NULL]

ASSUME TxPathAssumption ==
  /\ NumQueues \in Nat \ {0}
  /\ VO \in Queues
  /\ MaxRix \in Nat /\ MaxBas \in Nat \ {0}
  /\ MaxFrames \in Nat /\ MaxBars \in Nat
  /\ \A k \in Kinds : IsKind(k)
  /\ NULL \notin Ids

VARIABLES
  super,       \* the superframes: kind, rate index, tries, flags
  tx_queue,    \* fw.wlan.tx_queue
  tx_retry,    \* fw.wlan.tx_retry
  ampdu_prev,  \* fw.wlan.ampdu_prev
  queued_bar,  \* fw.wlan.queued_bar
  queued_ba,   \* fw.wlan.queued_ba
  available,   \* fw.wlan.fw_desc_available
  txc,         \* AR9170_MAC_INT_TXC is pending
  engine,      \* the MAC is "busy" with the queue, "idle" or, after a failure, "halted"
  stage,       \* where main_loop is, and in which queue
  posted,      \* history: frames the host has sent
  bars,        \* history: BARs received
  air,         \* history: how often a frame was on the air at each of its rates
  reports      \* history: per frame, the results wlan_tx_complete reported

fw == <<super, tx_queue, tx_retry, ampdu_prev>>
ba == <<queued_ba, available>>
hist == <<posted, bars, air, reports>>
vars == <<fw, queued_bar, ba, txc, engine, stage, hist>>

NewSuper(k) == [kind |-> k, rix |-> 0, cnt |-> 1, ampdu |-> k.ampdu[1], ba_end |-> FALSE]
Entry(id) == [id |-> id, own |-> "HW", fail |-> "no"]

Init ==
  /\ super = [id \in Ids |-> NewSuper(BaKind)]
  /\ tx_queue = [q \in Queues |-> <<>>]
  /\ tx_retry = <<>>
  /\ ampdu_prev = [q \in Queues |-> NULL]
  /\ queued_bar = 0
  /\ queued_ba = 0
  /\ available = TRUE
  /\ txc = FALSE
  /\ engine = [q \in Queues |-> "idle"]
  /\ stage = <<"wlan", 0>>
  /\ posted = 0
  /\ bars = 0
  /\ air = [id \in Ids |-> [r \in 0 .. MaxRix |-> 0]]
  /\ reports = [id \in Ids |-> <<>>]
-----------------------------------------------------------------------------
(* Operators on the superframes s.                                         *)
same_aggr(a, b) == a.kind.tid = b.kind.tid \/ a.kind.hdr = b.kind.hdr

EndAggregate(s, prev) ==
  IF prev = NULL THEN s ELSE [s EXCEPT ![prev].ba_end = TRUE]

(* wlan_tx_ampdu: the frame joins the aggregate of its predecessor, or     *)
(* ends it.                                                                *)
Aggregate(s, id) ==
  LET prev == ampdu_prev[s[id].kind.queue]
  IN  IF ~s[id].ampdu THEN EndAggregate(s, prev)
      ELSE IF prev # NULL /\ ~same_aggr(s[id], s[prev])
           THEN EndAggregate(s, prev)
           ELSE [s EXCEPT ![id].ba_end = FALSE]

(* __wlan_tx: the frame, with superframes s, goes behind its queue.        *)
Put(s, id) ==
  LET q == s[id].kind.queue
  IN  /\ super' = Aggregate(s, id)
      /\ ampdu_prev' = [ampdu_prev EXCEPT ![q] = IF s[id].ampdu THEN id ELSE NULL]
      /\ tx_queue' = [tx_queue EXCEPT ![q] = Append(@, Entry(id))]

(* wlan_trigger starts an idle queue; a queue that halted on a failure     *)
(* needs wlan_txunstuck.                                                   *)
Triggered(q) == IF engine[q] = "idle" THEN [engine EXCEPT ![q] = "busy"] ELSE engine
Unstuck(q) == [engine EXCEPT ![q] = "busy"]

(* wlan_tx, and the trigger behind it.                                     *)
WlanTx(id, k) ==
  /\ Put([super EXCEPT ![id] = NewSuper(k)], id)
  /\ queued_bar' = queued_bar + (IF k.bar THEN 1 ELSE 0)
  /\ engine' = Triggered(k.queue)

(* super->s.ri[rix].tries: a rate that is not set has no tries.            *)
Tries(s) == IF s.rix < Len(s.kind.tries) THEN s.kind.tries[s.rix + 1] ELSE 0

(* wlan_tx_consume_retry: one more try at this rate, or the next rate.     *)
OneMore(s) == s.cnt < Tries(s)
NextRate(s) == s.rix # MaxRix /\ s.rix + 1 < Len(s.kind.tries)
CanRetry(s) == OneMore(s) \/ NextRate(s)
ConsumeRetry(s) ==
  IF OneMore(s) THEN [s EXCEPT !.cnt = @ + 1]
  ELSE [s EXCEPT !.rix = @ + 1, !.cnt = 1, !.ampdu = s.kind.ampdu[s.rix + 2]]
-----------------------------------------------------------------------------
(* One round of main_loop: handle_wlan with its interrupts and its janitor,*)
(* then handle_host_interface.                                             *)

(* wlan_get_bar_cache_buffer: an overrun of the cache is not counted.      *)
QueuedBa(n) == IF queued_ba + n <= MaxBas THEN queued_ba + n ELSE MaxBas

(* handle_wlan acknowledges the interrupts; handle_rx comes first and may  *)
(* find n BARs (handle_bar), then handle_tx_completion begins with the      *)
(* queue AR9170_TXQ_SPECIAL.                                               *)
HandleWlan(n) ==
  /\ stage[1] = "wlan"
  /\ bars' = bars + n
  /\ queued_ba' = QueuedBa(n)
  /\ txc' = FALSE
  /\ stage' = IF txc THEN <<"status", NumQueues - 1>> ELSE <<"janitor", 0>>
  /\ UNCHANGED <<fw, queued_bar, available, engine, posted, air, reports>>

(* The check before the firmware's own frame is formatted.                 *)
FwDescFree == available

(* wlan_send_buffered_ba and wlan_tx_fw in wlan_janitor.                   *)
Janitor ==
  /\ stage[1] = "janitor"
  /\ stage' = <<"host", 0>>
  /\ IF queued_ba > 0 /\ FwDescFree
     THEN /\ queued_ba' = queued_ba - 1
          /\ available' = FALSE
          /\ WlanTx(BA, BaKind)
     ELSE UNCHANGED <<super, tx_queue, ampdu_prev, queued_bar, ba, engine>>
  /\ UNCHANGED <<tx_retry, txc, hist>>

(* handle_download of a whole frame.                                       *)
Download(k) ==
  /\ stage[1] = "host"
  /\ posted < MaxFrames
  /\ posted' = posted + 1
  /\ WlanTx(posted + 1, k)
  /\ UNCHANGED <<tx_retry, ba, txc, stage, bars, air, reports>>

(* handle_download of a clipped frame: it is reported and dropped.         *)
DownloadClipped ==
  /\ stage[1] = "host"
  /\ posted < MaxFrames
  /\ posted' = posted + 1
  /\ reports' = [reports EXCEPT ![posted + 1] = Append(@, FALSE)]
  /\ UNCHANGED <<fw, queued_bar, ba, txc, engine, stage, bars, air>>

(* The down queue is empty, and the next round of main_loop begins.        *)
DownloadEnd ==
  /\ stage[1] = "host"
  /\ stage' = <<"wlan", 0>>
  /\ UNCHANGED <<fw, queued_bar, ba, txc, engine, hist>>
-----------------------------------------------------------------------------
(* wlan_tx_status of the first frame of the queue, when the MAC is done    *)
(* with it.                                                                *)
i == stage[2]
first == tx_queue[i][1]
Finished == stage[1] = "status" /\ tx_queue[i] # <<>> /\ first.own = "SW"
Unlinked == [tx_queue EXCEPT ![i] = Tail(@)]

(* A failure with tries left: the frame stays where it is, the MAC gets it *)
(* again, and the round through this queue is over.                        *)
StatusRearm ==
  /\ Finished
  /\ first.fail = "tx"
  /\ CanRetry(super[first.id])
  /\ super' = [super EXCEPT ![first.id] = ConsumeRetry(@)]
  /\ tx_queue' = [tx_queue EXCEPT ![i][1] = Entry(first.id)]
  /\ engine' = Unstuck(i)
  /\ ampdu_prev' = [ampdu_prev EXCEPT ![i] = NULL]
  /\ stage' = <<"retry", i>>
  /\ UNCHANGED <<tx_retry, queued_bar, ba, txc, hist>>

(* Slip: the frame stays linked in its queue.                              *)
StatusRetryLinked ==
  /\ Finished
  /\ first.fail = "ba"
  /\ CanRetry(super[first.id])
  /\ super' = [super EXCEPT ![first.id] = ConsumeRetry(@)]
  /\ tx_retry' = Append(tx_retry, first.id)
  /\ UNCHANGED <<tx_queue, ampdu_prev, queued_bar, ba, txc, engine, stage, hist>>

(* A BlockAck failure with tries left: the frame goes to the retry queue.  *)
StatusRetry ==
  /\ Finished
  /\ first.fail = "ba"
  /\ CanRetry(super[first.id])
  /\ super' = [super EXCEPT ![first.id] = ConsumeRetry(@)]
  /\ tx_queue' = Unlinked
  /\ tx_retry' = Append(tx_retry, first.id)
  /\ UNCHANGED <<ampdu_prev, queued_bar, ba, txc, engine, stage, hist>>

(* The BARs on their way, without this frame.                              *)
BarsLeft(id, success) == IF super[id].kind.bar THEN queued_bar - 1 ELSE queued_bar

(* A last failure halted the queue, which has to go on with the next frame.*)
AfterDone == IF first.fail = "tx" THEN Unstuck(i) ELSE engine

(* A success, or the last failure: fw_desc is available again, a frame of  *)
(* the host is reported and its descriptors are reclaimed.                 *)
StatusDone ==
  LET success == first.fail = "no"
  IN  /\ Finished
      /\ success \/ ~CanRetry(super[first.id])
      /\ tx_queue' = Unlinked
      /\ engine' = AfterDone
      /\ IF first.id = BA
         THEN available' = TRUE /\ UNCHANGED <<queued_bar, reports>>
         ELSE /\ reports' = [reports EXCEPT ![first.id] = Append(@, success)]
              /\ queued_bar' = BarsLeft(first.id, success)
              /\ UNCHANGED available
      /\ UNCHANGED <<super, tx_retry, ampdu_prev, queued_ba, txc, stage, posted, bars, air>>

(* Slip: a frame that has been freed remains the end of the aggregate.     *)
StatusEndNoReset ==
  /\ stage[1] = "status"
  /\ ~Finished
  /\ stage' = <<"retry", i>>
  /\ UNCHANGED <<super, tx_queue, tx_retry, ampdu_prev, queued_bar, ba, txc, engine, hist>>

(* The queue has no finished frame in front: wlan_tx_ampdu_reset.          *)
StatusEnd ==
  /\ stage[1] = "status"
  /\ ~Finished
  /\ ampdu_prev' = [ampdu_prev EXCEPT ![i] = NULL]
  /\ stage' = <<"retry", i>>
  /\ UNCHANGED <<super, tx_queue, tx_retry, queued_bar, ba, txc, engine, hist>>

(* Each frame of the retry queue is sent again.                            *)
RetryNext ==
  /\ stage[1] = "retry"
  /\ tx_retry # <<>>
  /\ Put(super, Head(tx_retry))
  /\ tx_retry' = Tail(tx_retry)
  /\ UNCHANGED <<queued_bar, ba, txc, engine, stage, hist>>

(* wlan_tx_ampdu_end, the trigger, and on to the next queue.               *)
RetryEnd ==
  /\ stage[1] = "retry"
  /\ tx_retry = <<>>
  /\ super' = EndAggregate(super, ampdu_prev[i])
  /\ ampdu_prev' = [ampdu_prev EXCEPT ![i] = NULL]
  /\ engine' = IF tx_queue[i] # <<>> THEN Triggered(i) ELSE engine
  /\ stage' = IF i = 0 THEN <<"janitor", 0>> ELSE <<"status", i - 1>>
  /\ UNCHANGED <<tx_queue, tx_retry, queued_bar, ba, txc, hist>>
-----------------------------------------------------------------------------
(* The MAC: the first frame of a queue that it owns.                       *)
Current(q) ==
  {n \in 1 .. Len(tx_queue[q]) :
     /\ tx_queue[q][n].own = "HW"
     /\ \A m \in 1 .. n - 1 : tx_queue[q][m].own = "SW"}

(* The frame was on the air: it was acknowledged or needs no               *)
(* acknowledgement, its acknowledgement is missing, and the queue halts,   *)
(* or the BlockAck does not cover it.                                      *)
MacSend(q, fail) ==
  /\ engine[q] = "busy"
  /\ \E n \in Current(q) :
       LET id == tx_queue[q][n].id
       IN  /\ fail = "ba" => super[id].ampdu
           /\ tx_queue' = [tx_queue EXCEPT ![q][n].own = "SW", ![q][n].fail = fail]
           /\ air' = [air EXCEPT ![id][super[id].rix] = @ + 1]
  /\ engine' = IF fail = "tx" THEN [engine EXCEPT ![q] = "halted"] ELSE engine
  /\ txc' = TRUE
  /\ UNCHANGED <<super, tx_retry, ampdu_prev, queued_bar, ba, stage, posted, bars, reports>>

MacIdle(q) ==
  /\ engine[q] = "busy"
  /\ Current(q) = {}
  /\ engine' = [engine EXCEPT ![q] = "idle"]
  /\ UNCHANGED <<fw, queued_bar, ba, txc, stage, hist>>

MainLoop ==
  \/ \E n \in 0 .. MaxBars - bars : HandleWlan(n)
  \/ Janitor
  \/ \E k \in Kinds : Download(k)
  \/ DownloadClipped
  \/ DownloadEnd

TxCompletion ==
  \/ StatusRearm
  \/ StatusRetry
  \/ StatusDone
  \/ StatusEnd
  \/ RetryNext
  \/ RetryEnd

Mac == \E q \in Queues : MacIdle(q) \/ \E fail \in {"no", "tx", "ba"} : MacSend(q, fail)

Next == MainLoop \/ TxCompletion \/ Mac

(* The firmware never waits, and the MAC works on the queues it has been   *)
(* triggered for.                                                          *)
Fairness ==
  /\ WF_vars(MainLoop \/ TxCompletion)
  /\ \A q \in Queues : WF_vars(\E fail \in {"no", "tx", "ba"} : MacSend(q, fail))

Spec == Init /\ [][Next]_vars
FairSpec == Spec /\ Fairness
-----------------------------------------------------------------------------
InQueue(q, id) == {n \in 1 .. Len(tx_queue[q]) : tx_queue[q][n].id = id}
InRetry(id) == {n \in 1 .. Len(tx_retry) : tx_retry[n] = id}

(* Types of the super frames, the queues and the engines.                  *)
TypeOK ==
  /\ super \in [Ids -> [kind : Kinds \cup {BaKind}, rix : 0 .. MaxRix, cnt : Nat \ {0},
                        ampdu : BOOLEAN, ba_end : BOOLEAN]]
  /\ tx_queue \in [Queues -> Seq([id : Ids, own : {"SW", "HW"}, fail : {"no", "tx", "ba"}])]
  /\ tx_retry \in Seq(Ids)
  /\ ampdu_prev \in [Queues -> Ids \cup {NULL}]
  /\ queued_bar \in 0 .. MaxFrames
  /\ queued_ba \in 0 .. MaxBas
  /\ available \in BOOLEAN /\ txc \in BOOLEAN
  /\ engine \in [Queues -> {"idle", "busy", "halted"}]
  /\ stage \in ({"status", "retry"} \X Queues)
                 \cup ({"wlan", "janitor", "host"} \X {0})
  /\ posted \in 0 .. MaxFrames /\ bars \in 0 .. MaxBars
  /\ air \in [Ids -> [0 .. MaxRix -> Nat]]
  /\ reports \in [Ids -> Seq(BOOLEAN)]

(* Every frame of the host is at one place: in the queue the host chose,   *)
(* waiting for its retry, or reported, once (wlan_tx_status: "the frames   *)
(* don't get lost").                                                       *)
FrameAtOnePlace ==
  \A id \in 1 .. posted :
    Len(reports[id]) + Cardinality(InRetry(id))
      + Cardinality(InQueue(super[id].kind.queue, id)) = 1

(* The firmware's own frame is in a queue exactly as long as fw_desc is    *)
(* not available, and never twice.                                         *)
FwDescExclusive ==
  Cardinality(UNION {{<<q, n>> : n \in InQueue(q, BA)} : q \in Queues})
    + Cardinality(InRetry(BA)) = IF available THEN 0 ELSE 1

(* ampdu_prev, through which the next frame of a queue writes, leads to a  *)
(* frame in that queue, unless handle_tx_completion is just freeing        *)
(* frames there, and then it does not look (wlan.c:480-488).               *)
AmpduPrevLive ==
  \A q \in Queues :
    \/ ampdu_prev[q] = NULL
    \/ stage = <<"status", q>>
    \/ InQueue(q, ampdu_prev[q]) # {}

(* The frames waiting in tx_retry belong to the queue being handled, and   *)
(* none is left behind when its round is over.                             *)
RetryDrained ==
  \A n \in 1 .. Len(tx_retry) :
    stage[1] \in {"status", "retry"} /\ super[tx_retry[n]].kind.queue = i

(* queued_bar counts the BlockAckReqs of the host that are on their way,   *)
(* whatever becomes of them.                                               *)
BarsCounted ==
  queued_bar = Cardinality({id \in 1 .. posted : super[id].kind.bar /\ reports[id] = <<>>})

(* The tries of a rate; it is tried once before they are looked at.        *)
Allowed(k, r) ==
  IF r >= Len(k.tries) THEN 0 ELSE IF k.tries[r + 1] = 0 THEN 1 ELSE k.tries[r + 1]

(* No frame is on the air more often than its rates allow, and one         *)
(* reported as failed used them all, unless it was clipped on its way from *)
(* the host (wlan_tx_consume_retry).                                       *)
AttemptsAllowed ==
  \A id \in 1 .. posted :
    /\ \A r \in 0 .. MaxRix : air[id][r] <= Allowed(super[id].kind, r)
    /\ reports[id] = <<FALSE>> =>
         \/ \A r \in 0 .. MaxRix : air[id][r] = 0
         \/ \A r \in 0 .. MaxRix : air[id][r] = Allowed(super[id].kind, r)

(* wlan_tx, wlan_tx_consume_retry, __wlan_tx: every frame is at one place, *)
(* none stays in tx_retry, the BlockAckReqs are counted, and none is sent  *)
(* more often than its rates allow.                                        *)
FramesAccounted == FrameAtOnePlace /\ RetryDrained /\ BarsCounted /\ AttemptsAllowed

(* wlan_tx_ampdu, wlan_send_tx_ba: what is kept across rounds, ampdu_prev  *)
(* and the firmware's own descriptor, is neither freed nor written to      *)
(* while a frame still uses it.                                            *)
KeptIsLive == AmpduPrevLive /\ FwDescExclusive

(* "We must not mess up the original frame order" (wlan.c:374-375, of the  *)
(* retries of simple and aggregated frames), which is also why main_loop   *)
(* calls the wlan subroutines first (main.c:194-197): the frames of the    *)
(* host stand in their queue in the order in which the host sent them.     *)
FrameOrder ==
  \A q \in Queues : \A m, n \in 1 .. Len(tx_queue[q]) :
    m < n /\ tx_queue[q][m].id # BA /\ tx_queue[q][n].id # BA
      => tx_queue[q][m].id < tx_queue[q][n].id

(* Every frame is reported: no failure, retry or halt of the MAC leaves a  *)
(* queue standing.                                                         *)
EventuallyReported ==
  \A id \in 1 .. MaxFrames : (posted >= id) ~> (reports[id] # <<>>)
=============================================================================
