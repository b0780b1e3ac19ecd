------------------------------ MODULE DmaQueue ------------------------------
(***************************************************************************)
(* The descriptor queues of the carl9170 firmware (carlfw/src/dma.c,       *)
(* carlfw/include/dma.h) at the level of their pointers, with the DMA      *)
(* engines reading and writing the descriptors while the firmware links    *)
(* them.                                                                   *)
(*                                                                         *)
(* Two queues form a circuit.  FillQ holds free descriptors into which an  *)
(* engine stores frames; DrainQ holds frames which an engine sends.  The   *)
(* circuit is instantiated twice in the firmware: down_queue and tx_queue  *)
(* with fw_desc, rx_queue and up_queue with int_desc.  A packet is a chain *)
(* of descriptors from its first over nextAddr to the first's lastAddr.    *)
(* The terminator is the descriptor behind the last packet; a packet is    *)
(* appended by exchanging it with the packet's first descriptor, because   *)
(* the engine may already be waiting at it.                                *)
(*                                                                         *)
(* The firmware is one thread: pc and the locals desc, dest and tdesc are  *)
(* those of the one dma_put or dma_reclaim in progress, NULL when there is *)
(* none.  The engines are hardware: they work on the descriptor at cur     *)
(* while its OWN bits say HW, and stop there otherwise until they are      *)
(* triggered.                                                              *)
(***************************************************************************)
EXTENDS Naturals, Sequences, FiniteSets

CONSTANTS
  FillQ, DrainQ,  \* the two queues
  Terminators,    \* dma_mem.terminator, as a sequence: FillQ's, DrainQ's, spare
  Blocks,         \* dma_mem.block, as a sequence
  Data(_),        \* the data block a block descriptor starts with
  Reserved,       \* dma_mem.reserved: the payload of the spare descriptor
  NULL,
  MaxLen          \* the most descriptors of a frame

Queues == {FillQ, DrainQ}
Descs == {Terminators[i] : i \in DOMAIN Terminators}
           \cup {Blocks[i] : i \in DOMAIN Blocks}
Payloads == {Data(Blocks[i]) : i \in DOMAIN Blocks} \cup {Reserved}
Owners == {"SW", "HW", "SE"}

ASSUME DmaQueueAssumption ==
  /\ FillQ # DrainQ
  /\ Terminators \in [1 .. 3 -> Descs]
  /\ Len(Blocks) \in Nat \ {0}
  /\ Blocks \in [1 .. Len(Blocks) -> Descs]
  /\ MaxLen \in Nat \ {0}
  /\ NULL \notin Payloads \cup Descs \cup Queues
  /\ \A i, j \in 1 .. 3 : i # j => Terminators[i] # Terminators[j]
  /\ \A i \in 1 .. 3, j \in 1 .. Len(Blocks) : Terminators[i] # Blocks[j]
  /\ \A i, j \in 1 .. Len(Blocks) :
       i # j => Blocks[i] # Blocks[j] /\ Data(Blocks[i]) # Data(Blocks[j])
  /\ \A i \in 1 .. Len(Blocks) : Data(Blocks[i]) # Reserved

VARIABLES
  own, nextAddr, lastAddr, dataAddr,  \* the descriptors, field by field
  head, terminator,  \* struct dma_queue
  cur,       \* where the engine of a queue is
  running,   \* the engine of a queue has been triggered and has not stopped
  spare,     \* fw.usb.int_desc, fw.wlan.fw_desc
  available, \* int_desc_available, fw_desc_available
  pc,        \* the step of dma_put or dma_reclaim
  desc,      \* the packet in the firmware's hands
  dest,      \* the queue it goes to
  tdesc      \* the copy of its first descriptor, or NULL

memory == <<own, nextAddr, lastAddr, dataAddr>>
engines == <<cur, running>>
locals == <<pc, desc, dest, tdesc>>
vars == <<memory, head, terminator, engines, spare, available, locals>>

TDesc == [own : Owners, nextAddr : Descs, lastAddr : Descs,
          dataAddr : Payloads \cup {NULL}]

(* Where n steps lead from d, and how many lead to e.                      *)
Along(step, d, n) ==
  LET f[m \in 0 .. n] == IF m = 0 THEN d ELSE step[f[m - 1]] IN f[n]
Steps(step, d, e) ==
  CHOOSE n \in 0 .. Len(Blocks) + 2 :
    /\ Along(step, d, n) = e
    /\ \A m \in 0 .. n - 1 : Along(step, d, m) # e

(* The descriptors from d along nextAddr up to last.                       *)
Hop(d, n) == Along(nextAddr, d, n)
Distance(d, last) == Steps(nextAddr, d, last)
InChain(d, last) == {Hop(d, n) : n \in 0 .. Distance(d, last)}

queue_empty(q) == head[q] = terminator[q]

(* dma_init_descriptors: every block is reclaimed into FillQ, one by one,  *)
(* so block i ends up behind block i - 1, with the payload of block i + 1, *)
(* and the last block is the terminator.                                   *)
Ring(i) == IF i = 1 THEN Terminators[1] ELSE Blocks[i - 1]
InRing(d) == \E i \in 1 .. Len(Blocks) : Ring(i) = d
Index(d) == CHOOSE i \in 1 .. Len(Blocks) : Ring(i) = d
Init ==
  /\ own = [d \in Descs |-> IF InRing(d) THEN "HW" ELSE "SW"]
  /\ nextAddr = [d \in Descs |-> IF InRing(d) THEN Ring(Index(d) + 1) ELSE d]
  /\ lastAddr = [d \in Descs |-> d]
  /\ dataAddr = [d \in Descs |-> IF InRing(d) THEN Data(Blocks[Index(d)])
                                 ELSE IF d = Terminators[3] THEN Reserved ELSE NULL]
  /\ head = [q \in Queues |-> IF q = FillQ THEN Terminators[1] ELSE Terminators[2]]
  /\ terminator = [q \in Queues |->
              IF q = FillQ THEN Blocks[Len(Blocks)] ELSE Terminators[2]]
  /\ cur = head
  /\ running = [q \in Queues |-> TRUE]
  /\ spare = Terminators[3]
  /\ available = TRUE
  /\ pc = "idle"
  /\ desc = NULL
  /\ dest = NULL
  /\ tdesc = NULL
-----------------------------------------------------------------------------
(* dma_unlink_head: the packet leaves the queue, and its last descriptor   *)
(* points nowhere.                                                         *)
Unlink(q) ==
  LET first == head[q]
      last == lastAddr[first]
  IN  /\ head' = [head EXCEPT ![q] = nextAddr[last]]
      /\ nextAddr' = [nextAddr EXCEPT ![last] = last]
      /\ lastAddr' = [lastAddr EXCEPT ![last] = last]
      /\ UNCHANGED <<own, dataAddr>>

(* dma_dequeue_not_bits(q, AR9170_OWN_BITS_HW) finds a packet.             *)
Completed(q) == own[head[q]] # "HW" /\ ~queue_empty(q)

(* handle_download and handle_rx: the firmware takes a frame and passes it *)
(* on, or drops it.                                                        *)
TakeFilled ==
  /\ pc = "idle"
  /\ Completed(FillQ)
  /\ Unlink(FillQ)
  /\ desc' = head[FillQ]
  /\ dest' \in Queues
  /\ pc' = "put"
  /\ UNCHANGED <<terminator, engines, spare, available, tdesc>>

(* handle_upload and handle_tx_completion: the firmware's own packet is    *)
(* recognised by its payload; any other is freed, or sent again.           *)
TakeSent ==
  /\ pc = "idle"
  /\ Completed(DrainQ)
  /\ Unlink(DrainQ)
  /\ IF dataAddr[head[DrainQ]] = Reserved
     THEN spare' = head[DrainQ] /\ available' = TRUE /\ UNCHANGED locals
     ELSE /\ desc' = head[DrainQ]
          /\ dest' \in Queues
          /\ pc' = "put"
          /\ UNCHANGED <<spare, available, tdesc>>
  /\ UNCHANGED <<terminator, engines>>

(* usb_status_in, wlan_send_buffered_ba: the firmware sends its own packet.*)
TakeSpare ==
  /\ pc = "idle"
  /\ available
  /\ available' = FALSE
  /\ desc' = spare
  /\ dest' = DrainQ
  /\ pc' = "put"
  /\ UNCHANGED <<memory, head, terminator, engines, spare, tdesc>>
-----------------------------------------------------------------------------
(* dma_put and dma_reclaim up to the copy: the packet is prepared, where   *)
(* the hardware does not look yet, and its first descriptor becomes the    *)
(* new terminator (clear_descriptor).  A packet to send keeps its last     *)
(* descriptor; reclaimed descriptors stand alone.                          *)
Prepare ==
  LET last == lastAddr[desc]
      rest == InChain(desc, last) \ {desc}
      single == last = desc
  IN  /\ pc = "put"
      /\ own' = [d \in Descs |-> IF d = desc THEN "SW"
                                 ELSE IF d \in rest THEN "HW" ELSE own[d]]
      /\ nextAddr' = [nextAddr EXCEPT ![last] = desc, ![desc] = desc]
      /\ lastAddr' = [d \in Descs |-> IF d = desc THEN desc
                                      ELSE IF d \notin rest THEN lastAddr[d]
                                      ELSE IF dest = DrainQ THEN last ELSE d]
      /\ dataAddr' = [dataAddr EXCEPT ![desc] = NULL]
      /\ tdesc' = [own |-> "SW",
                   nextAddr |-> IF single THEN desc ELSE nextAddr[desc],
                   lastAddr |-> IF single \/ dest = FillQ
                                THEN terminator[dest] ELSE last,
                   dataAddr |-> dataAddr[desc]]
      /\ pc' = "status"
      /\ UNCHANGED <<head, terminator, engines, spare, available, desc, dest>>

(* copy_dma_desc over the old terminator: the status comes first, without  *)
(* the ownership, and then the other words; the copy is not read again.    *)
CopyStatus ==
  /\ pc = "status"
  /\ own' = [own EXCEPT ![terminator[dest]] = tdesc.own]
  /\ pc' = "copy"
  /\ UNCHANGED <<nextAddr, lastAddr, dataAddr, head, terminator, engines,
                 spare, available, desc, dest, tdesc>>

CopyRest ==
  /\ pc = "copy"
  /\ nextAddr' = [nextAddr EXCEPT ![terminator[dest]] = tdesc.nextAddr]
  /\ lastAddr' = [lastAddr EXCEPT ![terminator[dest]] = tdesc.lastAddr]
  /\ dataAddr' = [dataAddr EXCEPT ![terminator[dest]] = tdesc.dataAddr]
  /\ tdesc' = NULL
  /\ pc' = "publish"
  /\ UNCHANGED <<own, head, terminator, engines, spare, available, desc, dest>>

(* Slip: the terminator pointer stays behind.                              *)
PublishStuck ==
  /\ pc = "publish"
  /\ own' = [own EXCEPT ![terminator[dest]] = "HW"]
  /\ pc' = "trigger"
  /\ UNCHANGED <<nextAddr, lastAddr, dataAddr, head, terminator, engines, spare,
                 available, desc, dest, tdesc>>

(* The old terminator is handed to the hardware; the terminator pointer,   *)
(* which only the firmware reads, moves on.                                *)
Publish ==
  /\ pc = "publish"
  /\ own' = [own EXCEPT ![terminator[dest]] = "HW"]
  /\ terminator' = [terminator EXCEPT ![dest] = desc]
  /\ pc' = "trigger"
  /\ UNCHANGED <<nextAddr, lastAddr, dataAddr, head, engines, spare,
                 available, desc, dest, tdesc>>

(* Slip: only an empty queue's engine is triggered, judged too late.       *)
TriggerIfEmpty ==
  /\ pc = "trigger"
  /\ running' = [running EXCEPT ![dest] = running[dest] \/ queue_empty(dest)]
  /\ pc' = "idle" /\ desc' = NULL /\ dest' = NULL
  /\ UNCHANGED <<memory, head, terminator, cur, spare, available, tdesc>>

(* down_trigger, up_trigger, wlan_trigger after dma_put or dma_reclaim.    *)
Trigger ==
  /\ pc = "trigger"
  /\ running' = [running EXCEPT ![dest] = TRUE]
  /\ pc' = "idle" /\ desc' = NULL /\ dest' = NULL
  /\ UNCHANGED <<memory, head, terminator, cur, spare, available, tdesc>>
-----------------------------------------------------------------------------
(* The engine of FillQ stores a frame into n descriptors it owns.          *)
HWFill(n) ==
  \E frame \in [1 .. n -> Descs] :
    /\ running[FillQ]
    /\ frame[1] = cur[FillQ]
    /\ \A i \in 1 .. n - 1 : frame[i + 1] = nextAddr[frame[i]]
    /\ \A i \in 1 .. n : own[frame[i]] = "HW"
    /\ own' = [d \in Descs |-> IF \E i \in 1 .. n : frame[i] = d
                               THEN "SE" ELSE own[d]]
    /\ lastAddr' = [lastAddr EXCEPT ![frame[1]] = frame[n]]
    /\ cur' = [cur EXCEPT ![FillQ] = nextAddr[frame[n]]]
    /\ UNCHANGED <<nextAddr, dataAddr, head, terminator, running, spare,
                   available, locals>>

(* The engine of DrainQ sends the packet it stands at.                     *)
HWDrain ==
  LET first == cur[DrainQ]
      last == lastAddr[first]
  IN  /\ running[DrainQ]
      /\ own[first] = "HW"
      /\ own' = [d \in Descs |-> IF d \in InChain(first, last) THEN "SE" ELSE own[d]]
      /\ cur' = [cur EXCEPT ![DrainQ] = nextAddr[last]]
      /\ UNCHANGED <<nextAddr, lastAddr, dataAddr, head, terminator, running,
                     spare, available, locals>>

(* An engine meets a descriptor that is not its own and stops.             *)
HWStop(q) ==
  /\ running[q]
  /\ own[cur[q]] # "HW"
  /\ running' = [running EXCEPT ![q] = FALSE]
  /\ UNCHANGED <<memory, head, terminator, cur, spare, available, locals>>

Firmware ==
  \/ TakeFilled
  \/ TakeSent
  \/ TakeSpare
  \/ Prepare
  \/ CopyStatus
  \/ CopyRest
  \/ Publish
  \/ Trigger

Engines ==
  \/ \E n \in 1 .. MaxLen : HWFill(n)
  \/ HWDrain
  \/ \E q \in Queues : HWStop(q)

Next == Firmware \/ Engines

(* The main loop polls the queues and a call once begun runs to its end; a *)
(* triggered engine works.                                                 *)
Fairness ==
  /\ WF_vars(Prepare \/ CopyStatus \/ CopyRest \/ Publish \/ Trigger)
  /\ SF_vars(TakeSent)
  /\ WF_vars(HWDrain)

Spec == Init /\ [][Next]_vars
FairSpec == Spec /\ Fairness
-----------------------------------------------------------------------------
(* Types; an exchange of terminators has its descriptor and queue while it *)
(* runs, and the copy of a terminator only between reading and writing it. *)
TypeOK ==
  /\ own \in [Descs -> Owners]
  /\ nextAddr \in [Descs -> Descs]
  /\ lastAddr \in [Descs -> Descs]
  /\ dataAddr \in [Descs -> Payloads \cup {NULL}]
  /\ head \in [Queues -> Descs]
  /\ terminator \in [Queues -> Descs]
  /\ cur \in [Queues -> Descs]
  /\ running \in [Queues -> BOOLEAN]
  /\ spare \in Descs
  /\ available \in BOOLEAN
  /\ pc \in {"idle", "put", "status", "copy", "publish", "trigger"}
  /\ IF pc = "idle" THEN desc = NULL /\ dest = NULL
     ELSE desc \in Descs /\ dest \in Queues
  /\ tdesc \in IF pc \in {"status", "copy"} THEN TDesc ELSE {NULL}

(* What the hardware owns in a queue is a descriptor with a payload: a     *)
(* half copied terminator is never offered to an engine (dma.c:224-233).   *)
OwnedIsComplete ==
  \A q \in Queues : running[q] /\ own[cur[q]] = "HW" => dataAddr[cur[q]] # NULL

Carried(x) == {d \in Descs : dataAddr[d] = x}
(* Every payload is in one descriptor, or in the copy between the old and  *)
(* the new terminator: no exchange of terminators loses a data block or    *)
(* has two descriptors share one.                                          *)
NoBlockLost ==
  \A x \in Payloads :
    LET inFlight == pc \in {"status", "copy"} /\ tdesc.dataAddr = x
    IN  Cardinality(Carried(x)) + (IF inFlight THEN 1 ELSE 0) = 1

(* The firmware's own packet, whose payload lies outside the data blocks,  *)
(* is never given to the fill engine, although the descriptor that carries *)
(* it changes with every use ("DO NOT compare the descriptor addresses",   *)
(* hostif.c:93).                                                           *)
ReservedNotFilled ==
  LET ring == IF queue_empty(FillQ) THEN {}
              ELSE InChain(head[FillQ], terminator[FillQ]) \ {terminator[FillQ]}
  IN  \A d \in ring : dataAddr[d] # Reserved

(* The queues, read from their pointers.  The payloads of n descriptors    *)
(* from d on; the packets from the one at d up to the one at e, a packet   *)
(* being the descriptors from its first to the first's lastAddr; and the   *)
(* packet in the firmware's hands while it is being linked.  The engine of *)
(* a queue stands between the packets it is done with and those to come.   *)
DataFrom(d, n) == [i \in 1 .. n |-> dataAddr[Hop(d, i - 1)]]
PacketAt(d) == DataFrom(d, Distance(d, lastAddr[d]) + 1)
behind == [d \in Descs |-> nextAddr[lastAddr[d]]]
Packets(d, e) == [k \in 1 .. Steps(behind, d, e) |-> PacketAt(Along(behind, d, k - 1))]
Held ==
  CASE pc = "put" -> PacketAt(desc)
    [] pc \in {"status", "copy"} ->
         <<tdesc.dataAddr>> \o DataFrom(tdesc.nextAddr, Distance(tdesc.nextAddr, desc))
    [] pc = "publish" -> DataFrom(terminator[dest], Distance(terminator[dest], desc))
    [] OTHER -> <<>>

Circuit == INSTANCE PacketCircuit WITH
  Blocks <- [i \in DOMAIN Blocks |-> Data(Blocks[i])],
  free <- DataFrom(cur[FillQ], Distance(cur[FillQ], terminator[FillQ])),
  filled <- Packets(head[FillQ], cur[FillQ]),
  held <- Held,
  sending <- Packets(cur[DrainQ], terminator[DrainQ]),
  sent <- Packets(head[DrainQ], cur[DrainQ]),
  spare <- available

(* The queues implement the circuit of packets: in order, none lost, none  *)
(* seen twice, whatever the engines do while a packet is being linked.     *)
ImplementsCircuit == Circuit!Spec

(* A packet that has been linked is sent, even if the engine stopped at    *)
(* the old terminator while the firmware was writing it, and the firmware  *)
(* gets its own packet back.                                               *)
SpareComesBack == ~available ~> available
=============================================================================
