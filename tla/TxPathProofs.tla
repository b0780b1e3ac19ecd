---------------------------- MODULE TxPathProofs ----------------------------
(***************************************************************************)
(* Proofs about TxPath and TxHang, for any number of queues, kinds of      *)
(* frames, rates, frames and BlockAcks, and for every bound of the hang    *)
(* check.                                                                  *)
(***************************************************************************)
EXTENDS TxHang, QueueLemmas, FiniteSetTheorems, TLAPS

Entries == [id : Ids, own : {"SW", "HW"}, fail : {"no", "tx", "ba"}]
Supers == [kind : Kinds \cup {BaKind}, rix : 0 .. MaxRix, cnt : Nat \ {0},
           ampdu : BOOLEAN, ba_end : BOOLEAN]

(* A frame is in one of the queues, or waits for its retry.                *)
Has(q, id) == \E n \in 1 .. Len(tx_queue[q]) : tx_queue[q][n].id = id
Queued(id) == \E q \in Queues : Has(q, id)
Waits(id) == \E n \in 1 .. Len(tx_retry) : tx_retry[n] = id

(* The frames of a queue belong to it, and no frame is in it twice.        *)
QueuesApart ==
  \A q \in Queues : \A n \in 1 .. Len(tx_queue[q]) :
    /\ super[tx_queue[q][n].id].kind.queue = q
    /\ \A m \in 1 .. Len(tx_queue[q]) : tx_queue[q][m].id = tx_queue[q][n].id => m = n

(* No frame waits twice, or waits and is in a queue.                       *)
RetryApart ==
  \A n \in 1 .. Len(tx_retry) :
    /\ ~Queued(tx_retry[n])
    /\ \A m \in 1 .. Len(tx_retry) : tx_retry[m] = tx_retry[n] => m = n

(* The frames that are on their way are those of the host that are not     *)
(* reported, and the firmware's own while its descriptor is taken.         *)
OnItsWay ==
  /\ Queued(BA) \/ Waits(BA) <=> ~available
  /\ \A id \in Ids \ {BA} :
       Queued(id) \/ Waits(id) <=> id <= posted /\ reports[id] = <<>>

(* Nothing is reported twice, or before it was sent.                       *)
ReportedOnce ==
  \A id \in Ids : Len(reports[id]) <= 1 /\ (id > posted => reports[id] = <<>>)

PlaceInv ==
  /\ TypeOK
  /\ QueuesApart
  /\ RetryApart /\ RetryDrained
  /\ OnItsWay /\ ReportedOnce
-----------------------------------------------------------------------------
(* The types of what the host sends and of what the firmware sends.        *)
LEMMA KindFacts ==
  ASSUME NEW k \in Kinds \cup {BaKind}
  PROVE  /\ k.queue \in Queues
         /\ Len(k.tries) \in 1 .. MaxRix + 1
         /\ \A r \in 1 .. Len(k.tries) : k.tries[r] \in Nat
         /\ Len(k.ampdu) = Len(k.tries)
         /\ \A r \in 1 .. Len(k.ampdu) : k.ampdu[r] \in BOOLEAN
         /\ k.bar \in BOOLEAN
<1>1. CASE k \in Kinds
  BY <1>1, TxPathAssumption DEF IsKind
<1>2. CASE k = BaKind
  <2>1. k.queue = VO /\ k.tries = <<1>> /\ k.ampdu = <<FALSE>> /\ k.bar = FALSE
    BY <1>2 DEF BaKind
  <2>2. Len(<<1>>) = 1 /\ Len(<<FALSE>>) = 1 /\ <<1>>[1] = 1 /\ <<FALSE>>[1] = FALSE
    OBVIOUS
  <2>3. MaxRix \in Nat /\ VO \in Queues
    BY TxPathAssumption
  <2>4. 1 \in 1 .. MaxRix + 1
    BY <2>3
  <2>5. Len(k.tries) = 1 /\ Len(k.ampdu) = 1 /\ k.tries[1] = 1 /\ k.ampdu[1] = FALSE
    BY <2>1, <2>2
  <2>6. k.queue \in Queues /\ k.bar \in BOOLEAN
    BY <2>1, <2>3
  <2>7. Len(k.tries) \in 1 .. MaxRix + 1 /\ Len(k.ampdu) = Len(k.tries)
    BY <2>4, <2>5
  <2>8. \A r \in 1 .. Len(k.tries) : k.tries[r] \in Nat
    BY <2>5
  <2>9. \A r \in 1 .. Len(k.ampdu) : k.ampdu[r] \in BOOLEAN
    <3>1. \A r \in 1 .. Len(k.ampdu) : r = 1
      BY <2>5
    <3> QED
      BY <2>5, <3>1, Zenon
  <2> QED
    BY <2>6, <2>7, <2>8, <2>9
<1> QED
  BY <1>1, <1>2

(* What the type invariant says of queues, frames and the stage.           *)
LEMMA QueueTypes ==
  ASSUME TypeOK, NEW q \in Queues
  PROVE  /\ tx_queue[q] \in Seq(Entries)
         /\ Len(tx_queue[q]) \in Nat
         /\ tx_queue[q] = <<>> <=> Len(tx_queue[q]) = 0
         /\ \A n \in 1 .. Len(tx_queue[q]) : tx_queue[q][n] \in Entries /\ tx_queue[q][n].id \in Ids
<1>1. tx_queue[q] \in Seq(Entries)
  BY DEF TypeOK, Entries
<1>2. \A n \in 1 .. Len(tx_queue[q]) : tx_queue[q][n] \in Entries
  BY <1>1, ElementOfSeq
<1>3. \A e \in Entries : e.id \in Ids
  BY DEF Entries
<1>4. Len(tx_queue[q]) \in Nat /\ (tx_queue[q] = <<>> <=> Len(tx_queue[q]) = 0)
  BY <1>1, EmptySeq, LenProperties
<1> QED
  BY <1>1, <1>2, <1>3, <1>4

LEMMA RetryTypes ==
  ASSUME TypeOK
  PROVE  /\ tx_retry \in Seq(Ids) /\ Len(tx_retry) \in Nat
         /\ tx_retry = <<>> <=> Len(tx_retry) = 0
         /\ \A n \in 1 .. Len(tx_retry) : tx_retry[n] \in Ids
<1>1. tx_retry \in Seq(Ids)
  BY DEF TypeOK
<1> QED
  BY <1>1, ElementOfSeq, EmptySeq, LenProperties

LEMMA SuperTypes ==
  ASSUME TypeOK
  PROVE  /\ super \in [Ids -> Supers]
         /\ \A id \in Ids :
              /\ super[id].kind \in Kinds \cup {BaKind} /\ super[id].kind.queue \in Queues
              /\ super[id].rix \in 0 .. MaxRix /\ super[id].cnt \in Nat \ {0}
              /\ super[id].ampdu \in BOOLEAN
<1>1. super \in [Ids -> Supers]
  BY DEF TypeOK, Supers
<1>2. \A id \in Ids : super[id].kind \in Kinds \cup {BaKind}
                        /\ super[id].rix \in 0 .. MaxRix /\ super[id].cnt \in Nat \ {0}
                        /\ super[id].ampdu \in BOOLEAN
  BY <1>1 DEF Supers
<1>3. \A id \in Ids : super[id].kind.queue \in Queues
  BY <1>2, KindFacts
<1> QED
  BY <1>1, <1>2, <1>3

LEMMA StageTypes ==
  ASSUME TypeOK
  PROVE  /\ stage[1] \in {"status", "retry"} => i \in Queues /\ stage = <<stage[1], i>>
         /\ BA \in Ids /\ posted \in Nat /\ posted <= MaxFrames /\ MaxFrames \in Nat
         /\ NULL \notin Ids
<1>1. stage[1] \in {"status", "retry"} => i \in Queues /\ stage = <<stage[1], i>>
  BY DEF TypeOK, i
<1>2. posted \in Nat /\ posted <= MaxFrames /\ MaxFrames \in Nat
  BY TxPathAssumption DEF TypeOK
<1>3. BA \in Ids
  BY <1>2 DEF BA, Ids
<1>4. NULL \notin Ids
  BY TxPathAssumption
<1> QED
  BY <1>1, <1>2, <1>3, <1>4
-----------------------------------------------------------------------------
(* What steps do to the queues: a frame goes behind one of them, leaves    *)
(* the front of one, or no frame moves.                                    *)
Added(id, q) ==
  /\ Len(tx_queue'[q]) = Len(tx_queue[q]) + 1
  /\ \A n \in 1 .. Len(tx_queue[q]) : tx_queue'[q][n] = tx_queue[q][n]
  /\ tx_queue'[q][Len(tx_queue[q]) + 1] = Entry(id)
  /\ \A p \in Queues \ {q} : tx_queue'[p] = tx_queue[p]
Removed(q) ==
  /\ Len(tx_queue[q]) >= 1
  /\ Len(tx_queue'[q]) = Len(tx_queue[q]) - 1
  /\ \A n \in 1 .. Len(tx_queue'[q]) : tx_queue'[q][n] = tx_queue[q][n + 1]
  /\ \A p \in Queues \ {q} : tx_queue'[p] = tx_queue[p]
SameIds ==
  \A q \in Queues :
    /\ Len(tx_queue'[q]) = Len(tx_queue[q])
    /\ \A n \in 1 .. Len(tx_queue[q]) : tx_queue'[q][n].id = tx_queue[q][n].id

(* What linking leaves of a superframe: everything but the aggregate's end.*)
Kept(s, t) ==
  \A id \in Ids : /\ t[id].kind = s[id].kind /\ t[id].rix = s[id].rix
                  /\ t[id].cnt = s[id].cnt /\ t[id].ampdu = s[id].ampdu

LEMMA SetEnd ==
  ASSUME NEW s \in [Ids -> Supers], NEW x \in Ids, NEW b \in BOOLEAN
  PROVE  /\ [s EXCEPT ![x].ba_end = b] \in [Ids -> Supers]
         /\ Kept(s, [s EXCEPT ![x].ba_end = b])
<1> DEFINE t == [s EXCEPT ![x].ba_end = b]
<1>1. s[x] \in Supers
  OBVIOUS
<1>2. [s[x] EXCEPT !.ba_end = b] \in Supers
  BY <1>1 DEF Supers
<1>3. t = [s EXCEPT ![x] = [s[x] EXCEPT !.ba_end = b]]
  OBVIOUS
<1>4. t \in [Ids -> Supers]
  BY <1>2, <1>3
<1>5. \A id \in Ids : id # x => t[id] = s[id]
  BY <1>3
<1>6. t[x] = [s[x] EXCEPT !.ba_end = b]
  BY <1>3
<1>7. /\ t[x].kind = s[x].kind /\ t[x].rix = s[x].rix
      /\ t[x].cnt = s[x].cnt /\ t[x].ampdu = s[x].ampdu
  BY <1>1, <1>6 DEF Supers
<1> QED
  BY <1>4, <1>5, <1>7 DEF Kept

LEMMA EndAggregateKept ==
  ASSUME NEW s \in [Ids -> Supers], NEW prev \in Ids \cup {NULL}
  PROVE  EndAggregate(s, prev) \in [Ids -> Supers] /\ Kept(s, EndAggregate(s, prev))
<1>1. CASE prev = NULL
  BY <1>1 DEF EndAggregate, Kept
<1>2. CASE prev \in Ids /\ prev # NULL
  BY <1>2, SetEnd DEF EndAggregate
<1> QED
  BY <1>1, <1>2

LEMMA AggregateKept ==
  ASSUME TypeOK, NEW s \in [Ids -> Supers], NEW id \in Ids
  PROVE  Aggregate(s, id) \in [Ids -> Supers] /\ Kept(s, Aggregate(s, id))
<1> DEFINE prev == ampdu_prev[s[id].kind.queue]
<1>1. prev \in Ids \cup {NULL}
  <2>1. s[id].kind.queue \in Queues
    <3>1. s[id].kind \in Kinds \cup {BaKind}
      BY DEF Supers
    <3> QED
      BY <3>1, KindFacts
  <2> QED
    BY <2>1 DEF TypeOK
<1>2. \/ Aggregate(s, id) = EndAggregate(s, prev)
      \/ Aggregate(s, id) = [s EXCEPT ![id].ba_end = FALSE]
  BY DEF Aggregate
<1>3. CASE Aggregate(s, id) = EndAggregate(s, prev)
  <2> HIDE DEF prev
  <2>1. EndAggregate(s, prev) \in [Ids -> Supers] /\ Kept(s, EndAggregate(s, prev))
    BY <1>1, EndAggregateKept
  <2> QED
    BY <1>3, <2>1
<1>4. CASE Aggregate(s, id) = [s EXCEPT ![id].ba_end = FALSE]
  <2>1. FALSE \in BOOLEAN
    OBVIOUS
  <2>2. /\ [s EXCEPT ![id].ba_end = FALSE] \in [Ids -> Supers]
        /\ Kept(s, [s EXCEPT ![id].ba_end = FALSE])
    BY <2>1, SetEnd
  <2> QED
    BY <1>4, <2>2
<1> QED
  BY <1>2, <1>3, <1>4

(* __wlan_tx: the frame goes behind the queue of its kind.                 *)
LEMMA PutAdds ==
  ASSUME TypeOK, NEW s \in [Ids -> Supers], NEW id \in Ids, Put(s, id),
         NEW q, q = s[id].kind.queue
  PROVE  /\ q \in Queues
         /\ Added(id, q)
         /\ tx_queue' \in [Queues -> Seq(Entries)]
         /\ super' \in [Ids -> Supers] /\ Kept(s, super')
         /\ ampdu_prev' \in [Queues -> Ids \cup {NULL}]
         /\ ampdu_prev'[q] \in {id, NULL}
         /\ \A p \in Queues \ {q} : ampdu_prev'[p] = ampdu_prev[p]
<1>1. q \in Queues
  <2>1. s[id].kind \in Kinds \cup {BaKind}
    BY DEF Supers
  <2> QED
    BY <2>1, KindFacts
<1>2. /\ super' = Aggregate(s, id)
      /\ ampdu_prev' = [ampdu_prev EXCEPT ![q] = IF s[id].ampdu THEN id ELSE NULL]
      /\ tx_queue' = [tx_queue EXCEPT ![q] = Append(tx_queue[q], Entry(id))]
  BY DEF Put
<1>3. Entry(id) \in Entries
  BY DEF Entry, Entries
<1>4. tx_queue \in [Queues -> Seq(Entries)] /\ ampdu_prev \in [Queues -> Ids \cup {NULL}]
  BY DEF TypeOK, Entries
<1>5. tx_queue[q] \in Seq(Entries)
  BY <1>1, <1>4
<1>6. /\ Append(tx_queue[q], Entry(id)) \in Seq(Entries)
      /\ Len(Append(tx_queue[q], Entry(id))) = Len(tx_queue[q]) + 1
      /\ \A n \in 1 .. Len(tx_queue[q]) : Append(tx_queue[q], Entry(id))[n] = tx_queue[q][n]
      /\ Append(tx_queue[q], Entry(id))[Len(tx_queue[q]) + 1] = Entry(id)
  BY <1>3, <1>5, Pushed
<1>7. /\ tx_queue'[q] = Append(tx_queue[q], Entry(id))
      /\ \A p \in Queues \ {q} : tx_queue'[p] = tx_queue[p]
      /\ tx_queue' \in [Queues -> Seq(Entries)]
  BY <1>1, <1>2, <1>4, <1>6
<1>8. Added(id, q)
  BY <1>6, <1>7 DEF Added
<1>9. /\ ampdu_prev' \in [Queues -> Ids \cup {NULL}]
      /\ ampdu_prev'[q] \in {id, NULL}
      /\ \A p \in Queues \ {q} : ampdu_prev'[p] = ampdu_prev[p]
  BY <1>1, <1>2, <1>4
<1> QED
  BY <1>1, <1>2, <1>7, <1>8, <1>9, AggregateKept

(* Taking the first frame off a queue.                                     *)
LEMMA UnlinkedRemoves ==
  ASSUME TypeOK, i \in Queues, tx_queue[i] # <<>>, tx_queue' = Unlinked
  PROVE  Removed(i) /\ tx_queue' \in [Queues -> Seq(Entries)]
<1>1. tx_queue \in [Queues -> Seq(Entries)]
  BY DEF TypeOK, Entries
<1>2. tx_queue[i] \in Seq(Entries)
  BY <1>1
<1>3. /\ Tail(tx_queue[i]) \in Seq(Entries)
      /\ Len(tx_queue[i]) \in Nat \ {0}
      /\ Len(Tail(tx_queue[i])) = Len(tx_queue[i]) - 1
      /\ \A n \in 1 .. Len(Tail(tx_queue[i])) : Tail(tx_queue[i])[n] = tx_queue[i][n + 1]
  BY <1>2, Popped
<1>4. /\ tx_queue'[i] = Tail(tx_queue[i])
      /\ \A p \in Queues \ {i} : tx_queue'[p] = tx_queue[p]
      /\ tx_queue' \in [Queues -> Seq(Entries)]
  BY <1>1, <1>3 DEF Unlinked
<1> QED
  BY <1>3, <1>4 DEF Removed

(* Where the frames are after such a step.                                 *)
LEMMA AddedPlaces ==
  ASSUME TypeOK, NEW id \in Ids, NEW q \in Queues, Added(id, q)
  PROVE  /\ \A p \in Queues : \A x : Has(p, x)' <=> Has(p, x) \/ (p = q /\ x = id)
         /\ \A x : Queued(x)' <=> Queued(x) \/ x = id
<1>1. ASSUME NEW x PROVE Has(q, x)' <=> Has(q, x) \/ x = id
  <2>1. /\ Len(tx_queue[q]) \in Nat /\ Len(tx_queue'[q]) = Len(tx_queue[q]) + 1
        /\ \A n \in 1 .. Len(tx_queue[q]) : tx_queue'[q][n] = tx_queue[q][n]
        /\ tx_queue'[q][Len(tx_queue[q]) + 1].id = id
    BY QueueTypes DEF Added, Entry
  <2>2. ASSUME NEW n \in 1 .. Len(tx_queue'[q])
        PROVE  n \in 1 .. Len(tx_queue[q]) \/ n = Len(tx_queue[q]) + 1
    BY <2>1
  <2>3. Has(q, x)' => Has(q, x) \/ x = id
    BY <2>1, <2>2 DEF Has
  <2>4. Has(q, x) => Has(q, x)'
    <3>1. ASSUME NEW n \in 1 .. Len(tx_queue[q]) PROVE n \in 1 .. Len(tx_queue'[q])
      BY <2>1
    <3> QED
      BY <2>1, <3>1 DEF Has
  <2>5. x = id => Has(q, x)'
    <3>1. Len(tx_queue[q]) + 1 \in 1 .. Len(tx_queue'[q])
      BY <2>1
    <3> QED
      BY <2>1, <3>1 DEF Has
  <2> QED
    BY <2>3, <2>4, <2>5
<1>2. ASSUME NEW p \in Queues \ {q}, NEW x PROVE Has(p, x)' <=> Has(p, x)
  BY DEF Has, Added
<1> QED
  BY <1>1, <1>2 DEF Queued

LEMMA RemovedPlaces ==
  ASSUME TypeOK, QueuesApart, NEW q \in Queues, Removed(q), NEW id, id = tx_queue[q][1].id
  PROVE  /\ id \in Ids /\ Has(q, id)
         /\ \A p \in Queues : \A x : Has(p, x)' <=> Has(p, x) /\ x # id
         /\ \A x : Queued(x)' <=> Queued(x) /\ x # id
<1>0. Len(tx_queue[q]) \in Nat /\ 1 \in 1 .. Len(tx_queue[q]) /\ id \in Ids
  BY QueueTypes DEF Removed
<1>1. ASSUME NEW x PROVE Has(q, x)' <=> Has(q, x) /\ x # id
  <2>1. ASSUME Has(q, x)' PROVE Has(q, x) /\ x # id
    <3>1. PICK n \in 1 .. Len(tx_queue'[q]) : tx_queue'[q][n].id = x
      BY <2>1 DEF Has
    <3>2. n + 1 \in 1 .. Len(tx_queue[q]) /\ n + 1 # 1 /\ tx_queue[q][n + 1].id = x
      BY <1>0, <3>1 DEF Removed
    <3> QED
      BY <1>0, <3>2 DEF Has, QueuesApart
  <2>2. ASSUME Has(q, x), x # id PROVE Has(q, x)'
    <3>1. PICK n \in 1 .. Len(tx_queue[q]) : tx_queue[q][n].id = x
      BY <2>2 DEF Has
    <3>2. n # 1
      BY <2>2, <3>1
    <3>3. n - 1 \in 1 .. Len(tx_queue'[q]) /\ (n - 1) + 1 = n
      BY <1>0, <3>1, <3>2 DEF Removed
    <3> QED
      BY <3>1, <3>3 DEF Has, Removed
  <2> QED
    BY <2>1, <2>2
<1>2. ASSUME NEW p \in Queues \ {q}, NEW x PROVE Has(p, x)' <=> Has(p, x) /\ x # id
  <2>1. Has(p, x)' <=> Has(p, x)
    BY DEF Has, Removed
  <2>2. Has(p, x) => x # id
    <3>1. super[id].kind.queue = q
      BY <1>0 DEF QueuesApart
    <3> QED
      BY <3>1 DEF Has, QueuesApart
  <2> QED
    BY <2>1, <2>2
<1>3. Has(q, id)
  BY <1>0 DEF Has
<1> QED
  BY <1>0, <1>1, <1>2, <1>3 DEF Queued

LEMMA SamePlaces ==
  ASSUME SameIds
  PROVE  /\ \A p \in Queues : \A x : Has(p, x)' <=> Has(p, x)
         /\ \A x : Queued(x)' <=> Queued(x)
<1>1. ASSUME NEW p \in Queues, NEW x PROVE Has(p, x)' <=> Has(p, x)
  BY DEF Has, SameIds
<1> QED
  BY <1>1 DEF Queued

(* And the queues stay apart.                                              *)
LEMMA AddedApart ==
  ASSUME TypeOK, QueuesApart, NEW id \in Ids, NEW q \in Queues, Added(id, q),
         ~Queued(id), super'[id].kind.queue = q,
         \A x \in Ids \ {id} : super'[x].kind = super[x].kind
  PROVE  QueuesApart'
<1>1. ASSUME NEW p \in Queues \ {q}, NEW n \in 1 .. Len(tx_queue'[p])
      PROVE  /\ super'[tx_queue'[p][n].id].kind.queue = p
             /\ \A m \in 1 .. Len(tx_queue'[p]) : tx_queue'[p][m].id = tx_queue'[p][n].id => m = n
  <2>1. tx_queue'[p] = tx_queue[p] /\ n \in 1 .. Len(tx_queue[p])
    BY DEF Added
  <2>2. tx_queue[p][n].id \in Ids \ {id}
    BY <2>1, QueueTypes DEF Queued, Has
  <2> QED
    BY <2>1, <2>2 DEF QueuesApart
<1>2. ASSUME NEW n \in 1 .. Len(tx_queue'[q])
      PROVE  /\ super'[tx_queue'[q][n].id].kind.queue = q
             /\ \A m \in 1 .. Len(tx_queue'[q]) : tx_queue'[q][m].id = tx_queue'[q][n].id => m = n
  <2>0. Len(tx_queue[q]) \in Nat /\ Len(tx_queue'[q]) = Len(tx_queue[q]) + 1
    BY QueueTypes DEF Added
  <2>1. \A m \in 1 .. Len(tx_queue[q]) :
          tx_queue'[q][m].id = tx_queue[q][m].id /\ tx_queue[q][m].id \in Ids \ {id}
    BY QueueTypes DEF Added, Queued, Has
  <2>2. tx_queue'[q][Len(tx_queue[q]) + 1].id = id
    BY DEF Added, Entry
  <2>3. CASE n \in 1 .. Len(tx_queue[q])
    <3>1. super'[tx_queue'[q][n].id].kind.queue = q
      BY <2>1, <2>3 DEF QueuesApart
    <3>2. \A m \in 1 .. Len(tx_queue[q]) : tx_queue'[q][m].id = tx_queue'[q][n].id => m = n
      BY <2>1, <2>3 DEF QueuesApart
    <3>3. tx_queue'[q][n].id # id
      BY <2>1, <2>3
    <3> QED
      BY <2>0, <2>2, <3>1, <3>2, <3>3
  <2>4. CASE n = Len(tx_queue[q]) + 1
    <3>1. tx_queue'[q][n].id = id
      BY <2>2, <2>4
    <3>2. ASSUME NEW m \in 1 .. Len(tx_queue'[q]), m # n
          PROVE  tx_queue'[q][m].id # id
      <4>1. m \in 1 .. Len(tx_queue[q])
        BY <2>0, <2>4, <3>2
      <4> QED
        BY <2>1, <4>1
    <3> QED
      BY <3>1, <3>2
  <2> QED
    BY <2>0, <2>3, <2>4
<1> QED
  BY <1>1, <1>2 DEF QueuesApart

LEMMA RemovedApart ==
  ASSUME TypeOK, QueuesApart, NEW q \in Queues, Removed(q),
         \A x \in Ids : super'[x].kind = super[x].kind
  PROVE  QueuesApart'
<1>1. ASSUME NEW p \in Queues \ {q}, NEW n \in 1 .. Len(tx_queue'[p])
      PROVE  /\ super'[tx_queue'[p][n].id].kind.queue = p
             /\ \A m \in 1 .. Len(tx_queue'[p]) : tx_queue'[p][m].id = tx_queue'[p][n].id => m = n
  <2>1. tx_queue'[p] = tx_queue[p] /\ n \in 1 .. Len(tx_queue[p]) /\ tx_queue[p][n].id \in Ids
    BY QueueTypes DEF Removed
  <2> QED
    BY <2>1 DEF QueuesApart
<1>2. ASSUME NEW n \in 1 .. Len(tx_queue'[q])
      PROVE  /\ super'[tx_queue'[q][n].id].kind.queue = q
             /\ \A m \in 1 .. Len(tx_queue'[q]) : tx_queue'[q][m].id = tx_queue'[q][n].id => m = n
  <2>0. Len(tx_queue[q]) \in Nat
    BY QueueTypes
  <2>1. \A m \in 1 .. Len(tx_queue'[q]) :
          m + 1 \in 1 .. Len(tx_queue[q]) /\ tx_queue'[q][m] = tx_queue[q][m + 1]
    BY <2>0 DEF Removed
  <2>2. tx_queue[q][n + 1].id \in Ids
    BY <2>1, QueueTypes
  <2>3. super'[tx_queue'[q][n].id].kind.queue = q
    <3>1. super[tx_queue[q][n + 1].id].kind.queue = q
      BY <2>1 DEF QueuesApart
    <3>2. tx_queue'[q][n].id = tx_queue[q][n + 1].id
      BY <2>1
    <3> QED
      BY <2>2, <3>1, <3>2
  <2>4. ASSUME NEW m \in 1 .. Len(tx_queue'[q]), tx_queue'[q][m].id = tx_queue'[q][n].id
        PROVE  m = n
    <3>0. /\ m + 1 \in 1 .. Len(tx_queue[q]) /\ n + 1 \in 1 .. Len(tx_queue[q])
          /\ tx_queue[q][m + 1].id = tx_queue[q][n + 1].id
      BY <2>1, <2>4
    <3>1. m + 1 = n + 1
      BY <3>0 DEF QueuesApart
    <3> QED
      BY <3>1
  <2> QED
    BY <2>3, <2>4
<1> QED
  BY <1>1, <1>2 DEF QueuesApart

LEMMA SameApart ==
  ASSUME TypeOK, QueuesApart, SameIds, \A x \in Ids : super'[x].kind = super[x].kind
  PROVE  QueuesApart'
<1>1. ASSUME NEW q \in Queues, NEW n \in 1 .. Len(tx_queue'[q])
      PROVE  /\ super'[tx_queue'[q][n].id].kind.queue = q
             /\ \A m \in 1 .. Len(tx_queue'[q]) : tx_queue'[q][m].id = tx_queue'[q][n].id => m = n
  <2>1. \A m \in 1 .. Len(tx_queue'[q]) :
          m \in 1 .. Len(tx_queue[q]) /\ tx_queue'[q][m].id = tx_queue[q][m].id
    BY DEF SameIds
  <2>2. tx_queue[q][n].id \in Ids
    BY <2>1, QueueTypes
  <2> QED
    BY <2>1, <2>2 DEF QueuesApart
<1> QED
  BY <1>1 DEF QueuesApart
-----------------------------------------------------------------------------
(* ampdu_prev leads to a frame of its queue, unless frames leave it.       *)
PrevLive ==
  \A q \in Queues :
    ampdu_prev[q] = NULL \/ stage = <<"status", q>> \/ Has(q, ampdu_prev[q])

Bars == {id \in 1 .. posted : super[id].kind.bar /\ reports[id] = <<>>}

Inv == PlaceInv /\ BarsCounted /\ PrevLive

(* What a step of the retry queue does to the frames that wait.            *)
LEMMA RetryPushed ==
  ASSUME TypeOK, NEW id \in Ids, tx_retry' = Append(tx_retry, id)
  PROVE  /\ tx_retry' \in Seq(Ids) /\ Len(tx_retry') = Len(tx_retry) + 1
         /\ \A n \in 1 .. Len(tx_retry) : tx_retry'[n] = tx_retry[n]
         /\ tx_retry'[Len(tx_retry) + 1] = id
         /\ \A x : Waits(x)' <=> Waits(x) \/ x = id
<1>1. /\ tx_retry' \in Seq(Ids) /\ Len(tx_retry') = Len(tx_retry) + 1
      /\ \A n \in 1 .. Len(tx_retry) : tx_retry'[n] = tx_retry[n]
      /\ tx_retry'[Len(tx_retry) + 1] = id
  BY RetryTypes, Pushed
<1>2. ASSUME NEW x PROVE Waits(x)' <=> Waits(x) \/ x = id
  BY <1>1, RetryTypes DEF Waits
<1> QED
  BY <1>1, <1>2

LEMMA RetryPopped ==
  ASSUME TypeOK, RetryApart, tx_retry # <<>>, tx_retry' = Tail(tx_retry)
  PROVE  /\ Head(tx_retry) \in Ids /\ Head(tx_retry) = tx_retry[1] /\ Len(tx_retry) \in Nat \ {0}
         /\ tx_retry' \in Seq(Ids) /\ Len(tx_retry') = Len(tx_retry) - 1
         /\ \A n \in 1 .. Len(tx_retry') : tx_retry'[n] = tx_retry[n + 1]
         /\ \A x : Waits(x)' <=> Waits(x) /\ x # Head(tx_retry)
<1>1. /\ Head(tx_retry) \in Ids /\ Head(tx_retry) = tx_retry[1] /\ Len(tx_retry) \in Nat \ {0}
      /\ tx_retry' \in Seq(Ids) /\ Len(tx_retry') = Len(tx_retry) - 1
      /\ \A n \in 1 .. Len(tx_retry') : tx_retry'[n] = tx_retry[n + 1]
  BY RetryTypes, Popped
<1>2. ASSUME NEW x, Waits(x)' PROVE Waits(x) /\ x # Head(tx_retry)
  <2>1. PICK n \in 1 .. Len(tx_retry') : tx_retry'[n] = x
    BY <1>2 DEF Waits
  <2>2. n + 1 \in 1 .. Len(tx_retry) /\ n + 1 # 1 /\ 1 \in 1 .. Len(tx_retry) /\ tx_retry[n + 1] = x
    BY <1>1, <2>1
  <2> QED
    BY <1>1, <2>2 DEF Waits, RetryApart
<1>3. ASSUME NEW x, Waits(x), x # Head(tx_retry) PROVE Waits(x)'
  <2>1. PICK n \in 1 .. Len(tx_retry) : tx_retry[n] = x
    BY <1>3 DEF Waits
  <2>2. n - 1 \in 1 .. Len(tx_retry') /\ (n - 1) + 1 = n
    BY <1>1, <1>3, <2>1
  <2> QED
    BY <1>1, <2>1, <2>2 DEF Waits
<1> QED
  BY <1>1, <1>2, <1>3

(* queued_bar stays in its type as long as it counts.                      *)
LEMMA BarsTyped ==
  ASSUME TypeOK
  PROVE  IsFiniteSet(Bars) /\ Cardinality(Bars) \in 0 .. MaxFrames /\ Bars \subseteq Ids
<1>1. posted \in 0 .. MaxFrames /\ MaxFrames \in Nat
  BY TxPathAssumption DEF TypeOK
<1>2. IsFiniteSet(1 .. posted) /\ Cardinality(1 .. posted) = posted
  BY <1>1, FS_Interval
<1>3. Bars \subseteq 1 .. posted
  BY DEF Bars
<1>4. IsFiniteSet(Bars) /\ Cardinality(Bars) <= posted
  BY <1>2, <1>3, FS_Subset
<1>5. Cardinality(Bars) \in Nat
  BY <1>4, FS_CardinalityType
<1> QED
  BY <1>1, <1>3, <1>4, <1>5 DEF Ids

(* Steps that leave every frame where it is.                               *)
LEMMA QuietStep ==
  ASSUME Inv, TypeOK', SameIds, \A x \in Ids : super'[x].kind = super[x].kind,
         UNCHANGED <<tx_retry, available, posted, reports, queued_bar>>,
         RetryDrained', PrevLive'
  PROVE  Inv'
<1>1. PlaceInv
  BY DEF Inv
<1>2. QueuesApart'
  BY <1>1, SameApart DEF PlaceInv
<1>3. \A x : (Queued(x)' <=> Queued(x)) /\ (Waits(x)' <=> Waits(x))
  BY SamePlaces DEF Waits
<1>4. RetryApart' /\ OnItsWay' /\ ReportedOnce'
  BY <1>1, <1>3 DEF PlaceInv, RetryApart, OnItsWay, ReportedOnce
<1>5. BarsCounted'
  <2>1. \A id \in 1 .. posted : id \in Ids
    BY <1>1, StageTypes DEF PlaceInv, Ids
  <2>2. Bars' = Bars
    BY <2>1 DEF Bars
  <2> QED
    BY <2>2 DEF Inv, BarsCounted, Bars
<1> QED
  BY <1>1, <1>2, <1>4, <1>5 DEF Inv, PlaceInv
-----------------------------------------------------------------------------
(* Outside handle_tx_completion nothing waits for its retry, and           *)
(* ampdu_prev is live in every queue.                                      *)
LEMMA OutsideCompletion ==
  ASSUME Inv, stage[1] \notin {"status", "retry"}
  PROVE  /\ tx_retry = <<>> /\ Len(tx_retry) = 0
         /\ \A x : ~Waits(x)
         /\ \A q \in Queues : ampdu_prev[q] = NULL \/ Has(q, ampdu_prev[q])
<1>1. Len(tx_retry) \in Nat /\ (tx_retry = <<>> <=> Len(tx_retry) = 0)
  BY RetryTypes DEF Inv, PlaceInv
<1>2. ~ (1 \in 1 .. Len(tx_retry))
  BY DEF Inv, PlaceInv, RetryDrained
<1>3. Len(tx_retry) = 0
  BY <1>1, <1>2
<1>4. \A q \in Queues : stage # <<"status", q>>
  OBVIOUS
<1> QED
  BY <1>1, <1>3, <1>4 DEF Waits, Inv, PrevLive

LEMMA EngineTypes ==
  ASSUME TypeOK, NEW q \in Queues
  PROVE  /\ Triggered(q) \in [Queues -> {"idle", "busy", "halted"}]
         /\ Unstuck(q) \in [Queues -> {"idle", "busy", "halted"}]
BY DEF TypeOK, Triggered, Unstuck

LEMMA NewSuperTypes ==
  ASSUME NEW k \in Kinds \cup {BaKind}
  PROVE  NewSuper(k) \in Supers /\ NewSuper(k).kind = k /\ NewSuper(k).rix = 0
           /\ NewSuper(k).cnt = 1
<1>1. k.ampdu[1] \in BOOLEAN
  BY KindFacts, TxPathAssumption
<1>2. 0 \in 0 .. MaxRix /\ 1 \in Nat \ {0}
  BY TxPathAssumption
<1> QED
  BY <1>1, <1>2 DEF NewSuper, Supers

(* wlan_tx from outside handle_tx_completion.                              *)
LEMMA WlanTxAdds ==
  ASSUME Inv, NEW id \in Ids, NEW k \in Kinds \cup {BaKind}, WlanTx(id, k),
         ~Queued(id), stage[1] \notin {"status", "retry"}
  PROVE  /\ k.queue \in Queues /\ Added(id, k.queue)
         /\ super' \in [Ids -> Supers] /\ tx_queue' \in [Queues -> Seq(Entries)]
         /\ ampdu_prev' \in [Queues -> Ids \cup {NULL}]
         /\ engine' \in [Queues -> {"idle", "busy", "halted"}]
         /\ super'[id].kind = k /\ super'[id].rix = 0 /\ super'[id].cnt = 1
         /\ \A x \in Ids \ {id} : /\ super'[x].kind = super[x].kind /\ super'[x].rix = super[x].rix
                                  /\ super'[x].cnt = super[x].cnt
         /\ QueuesApart'
         /\ \A x : Queued(x)' <=> Queued(x) \/ x = id
         /\ \A q \in Queues : ampdu_prev'[q] = NULL \/ Has(q, ampdu_prev[q])'
<1> DEFINE s == [super EXCEPT ![id] = NewSuper(k)]
<1>0. TypeOK /\ QueuesApart
  BY DEF Inv, PlaceInv
<1>1. /\ s \in [Ids -> Supers] /\ s[id].kind = k /\ s[id].rix = 0 /\ s[id].cnt = 1
      /\ \A x \in Ids \ {id} : s[x] = super[x]
  BY <1>0, SuperTypes, NewSuperTypes
<1>2. Put(s, id) /\ engine' = Triggered(k.queue)
  BY DEF WlanTx
<1> HIDE DEF s
<1>3. /\ k.queue \in Queues /\ Added(id, k.queue)
      /\ tx_queue' \in [Queues -> Seq(Entries)]
      /\ super' \in [Ids -> Supers] /\ Kept(s, super')
      /\ ampdu_prev' \in [Queues -> Ids \cup {NULL}]
      /\ ampdu_prev'[k.queue] \in {id, NULL}
      /\ \A p \in Queues \ {k.queue} : ampdu_prev'[p] = ampdu_prev[p]
  BY <1>0, <1>1, <1>2, PutAdds
<1>4. engine' \in [Queues -> {"idle", "busy", "halted"}]
  BY <1>0, <1>2, <1>3, EngineTypes
<1>5. /\ super'[id].kind = k /\ super'[id].rix = 0 /\ super'[id].cnt = 1
      /\ \A x \in Ids \ {id} : /\ super'[x].kind = super[x].kind /\ super'[x].rix = super[x].rix
                               /\ super'[x].cnt = super[x].cnt
  BY <1>1, <1>3 DEF Kept
<1>6. QueuesApart'
  BY <1>0, <1>3, <1>5, AddedApart
<1>7. /\ \A p \in Queues : \A x : Has(p, x)' <=> Has(p, x) \/ (p = k.queue /\ x = id)
      /\ \A x : Queued(x)' <=> Queued(x) \/ x = id
  BY <1>0, <1>3, AddedPlaces
<1>8. ASSUME NEW q \in Queues PROVE ampdu_prev'[q] = NULL \/ Has(q, ampdu_prev[q])'
  <2>1. CASE q = k.queue
    <3>1. Has(q, id)'
      BY <1>7, <2>1
    <3>2. CASE ampdu_prev'[q] = id
      BY <3>1, <3>2 DEF Has
    <3> QED
      BY <1>3, <2>1, <3>2
  <2>2. CASE q # k.queue
    <3>1. ampdu_prev'[q] = ampdu_prev[q]
      BY <1>3, <2>2
    <3>2. ampdu_prev[q] = NULL \/ Has(q, ampdu_prev[q])
      BY OutsideCompletion
    <3>3. CASE Has(q, ampdu_prev[q])
      <4>1. tx_queue'[q] = tx_queue[q]
        BY <1>3, <2>2 DEF Added
      <4> QED
        BY <3>1, <3>3, <4>1 DEF Has
    <3> QED
      BY <3>1, <3>2, <3>3
  <2> QED
    BY <2>1, <2>2
<1> QED
  BY <1>3, <1>4, <1>5, <1>6, <1>7, <1>8

(* handle_wlan, with what was received.                                    *)
LEMMA HandleWlanKeeps ==
  ASSUME Inv, NEW n \in 0 .. MaxBars - bars, HandleWlan(n)
  PROVE  Inv'
<1>1. TypeOK /\ stage[1] \notin {"status", "retry"}
  BY DEF Inv, PlaceInv, HandleWlan
<1>2. TypeOK'
  <2>1. bars' \in 0 .. MaxBars /\ queued_ba' \in 0 .. MaxBas
    BY <1>1, TxPathAssumption DEF TypeOK, HandleWlan, QueuedBa
  <2>2. NumQueues - 1 \in Queues
    BY TxPathAssumption DEF Queues
  <2>3. stage' \in ({"status", "retry"} \X Queues) \cup ({"wlan", "janitor", "host"} \X {0})
    BY <2>2 DEF HandleWlan
  <2> QED
    BY <1>1, <2>1, <2>3 DEF TypeOK, HandleWlan, fw
<1>3. UNCHANGED <<super, tx_queue, tx_retry, ampdu_prev, available, posted, reports, queued_bar>>
  BY DEF HandleWlan, fw
<1>4. RetryDrained' /\ PrevLive'
  BY <1>1, <1>3, OutsideCompletion DEF RetryDrained, PrevLive, Has
<1>5. SameIds
  BY <1>3 DEF SameIds
<1> QED
  BY <1>2, <1>3, <1>4, <1>5, QuietStep

(* The janitor: the firmware's own frame is sent while its descriptor is   *)
(* free.                                                                   *)
LEMMA JanitorKeeps ==
  ASSUME Inv, Janitor
  PROVE  Inv'
<1>1. /\ TypeOK /\ OnItsWay /\ ReportedOnce /\ BarsCounted
      /\ stage[1] \notin {"status", "retry"} /\ stage' = <<"host", 0>>
      /\ UNCHANGED <<tx_retry, txc, posted, bars, air, reports>>
  BY DEF Inv, PlaceInv, Janitor, hist
<1>2. CASE queued_ba > 0 /\ available
  <2>1. /\ queued_ba' = queued_ba - 1 /\ available' = FALSE
        /\ WlanTx(BA, BaKind)
    BY <1>2 DEF Janitor, FwDescFree
  <2>2. BA \in Ids /\ BaKind \in Kinds \cup {BaKind} /\ ~Queued(BA)
    BY <1>1, <1>2, StageTypes DEF OnItsWay
  <2>3. /\ super' \in [Ids -> Supers] /\ tx_queue' \in [Queues -> Seq(Entries)]
        /\ ampdu_prev' \in [Queues -> Ids \cup {NULL}]
        /\ engine' \in [Queues -> {"idle", "busy", "halted"}]
        /\ super'[BA].kind = BaKind
        /\ \A x \in Ids \ {BA} : super'[x].kind = super[x].kind
        /\ QueuesApart'
        /\ \A x : Queued(x)' <=> Queued(x) \/ x = BA
        /\ \A q \in Queues : ampdu_prev'[q] = NULL \/ Has(q, ampdu_prev[q])'
    BY <1>1, <2>1, <2>2, WlanTxAdds
  <2>4. queued_bar' = queued_bar
    BY <1>1, <2>1 DEF WlanTx, BaKind, TypeOK
  <2>5. TypeOK'
    <3>1. queued_ba' \in 0 .. MaxBas
      BY <1>1, <1>2, <2>1, TxPathAssumption DEF TypeOK
    <3>2. stage' \in {"wlan", "janitor", "host"} \X {0}
      BY <1>1
    <3> QED
      BY <1>1, <2>1, <2>3, <2>4, <3>1, <3>2 DEF TypeOK, Supers, Entries
  <2>6. tx_retry = <<>> /\ Len(tx_retry) = 0 /\ \A x : ~Waits(x) /\ ~Waits(x)'
    BY <1>1, OutsideCompletion DEF Waits
  <2>7. RetryApart' /\ RetryDrained'
    BY <1>1, <2>6 DEF RetryApart, RetryDrained
  <2>8. OnItsWay' /\ ReportedOnce'
    BY <1>1, <2>1, <2>3, <2>6 DEF OnItsWay, ReportedOnce
  <2>9. BarsCounted'
    <3>1. \A id \in 1 .. posted : id \in Ids \ {BA}
      BY <1>1, StageTypes DEF Ids, BA
    <3>2. Bars' = Bars
      BY <1>1, <2>3, <3>1 DEF Bars
    <3> QED
      BY <1>1, <2>4, <3>2 DEF BarsCounted, Bars
  <2>10. PrevLive'
    BY <2>3 DEF PrevLive, Has
  <2> QED
    BY <2>3, <2>5, <2>7, <2>8, <2>9, <2>10 DEF Inv, PlaceInv
<1>3. CASE ~ (queued_ba > 0 /\ available)
  <2>1. UNCHANGED <<super, tx_queue, ampdu_prev, queued_bar, queued_ba, available, engine>>
    BY <1>3 DEF Janitor, FwDescFree, ba
  <2>2. TypeOK'
    <3>1. stage' \in {"wlan", "janitor", "host"} \X {0}
      BY <1>1
    <3> QED
      BY <1>1, <2>1, <3>1 DEF TypeOK
  <2>3. RetryDrained' /\ PrevLive'
    BY <1>1, <2>1, OutsideCompletion DEF RetryDrained, PrevLive, Has
  <2>4. SameIds
    BY <2>1 DEF SameIds
  <2> QED
    BY <1>1, <2>1, <2>2, <2>3, <2>4, QuietStep
<1> QED
  BY <1>2, <1>3

(* The next frame of the host is new.                                      *)
LEMMA NextFrame ==
  ASSUME Inv, posted < MaxFrames
  PROVE  /\ posted + 1 \in Ids \ {BA} /\ posted + 1 \in 0 .. MaxFrames
         /\ ~Queued(posted + 1) /\ ~Waits(posted + 1) /\ reports[posted + 1] = <<>>
         /\ posted \in Nat
<1>1. posted \in Nat /\ MaxFrames \in Nat
  BY StageTypes DEF Inv, PlaceInv
<1>2. posted + 1 \in Ids \ {BA} /\ posted + 1 \in 0 .. MaxFrames /\ posted + 1 > posted
  BY <1>1 DEF Ids, BA
<1> QED
  BY <1>1, <1>2 DEF Inv, PlaceInv, OnItsWay, ReportedOnce

(* What is said of the frames of the host, one frame later.                *)
LEMMA OneFrameMore ==
  ASSUME Inv, posted < MaxFrames, posted' = posted + 1, NEW id \in Ids, id # posted + 1
  PROVE  (id <= posted' <=> id <= posted) /\ (id > posted' => id > posted)
<1>1. posted \in Nat /\ id \in Nat
  BY StageTypes DEF Inv, PlaceInv, Ids
<1> QED
  BY <1>1

(* handle_download of a whole frame.                                       *)
LEMMA DownloadKeeps ==
  ASSUME Inv, NEW k \in Kinds, Download(k)
  PROVE  Inv'
<1> DEFINE id == posted + 1
<1>1. /\ TypeOK /\ OnItsWay /\ ReportedOnce /\ BarsCounted
      /\ stage[1] \notin {"status", "retry"} /\ stage[1] = "host"
      /\ posted < MaxFrames /\ posted' = id
      /\ WlanTx(id, k)
      /\ UNCHANGED <<tx_retry, queued_ba, available, txc, stage, bars, air, reports>>
  BY DEF Inv, PlaceInv, Download, ba
<1>2. /\ id \in Ids \ {BA} /\ id \in 0 .. MaxFrames /\ posted \in Nat
      /\ ~Queued(id) /\ ~Waits(id) /\ reports[id] = <<>>
  BY <1>1, NextFrame
<1>2a. \A x \in Ids : x # id => (x <= posted' <=> x <= posted) /\ (x > posted' => x > posted)
  BY <1>1, OneFrameMore
<1>2b. id > posted /\ id <= posted' /\ ~(id > posted')
  BY <1>1, <1>2
<1>2c. 1 .. posted' = (1 .. posted) \cup {id} /\ id \notin 1 .. posted
  BY <1>1, <1>2
<1> HIDE DEF id
<1>3. /\ super' \in [Ids -> Supers] /\ tx_queue' \in [Queues -> Seq(Entries)]
      /\ ampdu_prev' \in [Queues -> Ids \cup {NULL}]
      /\ engine' \in [Queues -> {"idle", "busy", "halted"}]
      /\ super'[id].kind = k
      /\ \A x \in Ids \ {id} : super'[x].kind = super[x].kind
      /\ QueuesApart'
      /\ \A x : Queued(x)' <=> Queued(x) \/ x = id
      /\ \A q \in Queues : ampdu_prev'[q] = NULL \/ Has(q, ampdu_prev[q])'
  BY <1>1, <1>2, WlanTxAdds
<1>4. BarsCounted' /\ queued_bar' \in 0 .. MaxFrames
  <2>1. Bars' = IF k.bar THEN Bars \cup {id} ELSE Bars
    <3>1. \A x \in 1 .. posted : x \in Ids \ {id}
      BY <1>1, <1>2c, StageTypes DEF Ids
    <3>2. \A x \in 1 .. posted : x \in Bars' <=> x \in Bars
      BY <1>1, <1>2c, <1>3, <3>1 DEF Bars
    <3>3. id \in Bars' <=> k.bar
      BY <1>1, <1>2, <1>2c, <1>3 DEF Bars
    <3>4. Bars' \subseteq (1 .. posted) \cup {id} /\ Bars \subseteq 1 .. posted
      BY <1>2c DEF Bars
    <3>5. CASE k.bar
      <4>1. \A x : x \in Bars' <=> x \in Bars \cup {id}
        BY <1>2c, <3>2, <3>3, <3>4, <3>5
      <4> QED
        BY <3>5, <4>1
    <3>6. CASE ~k.bar
      <4>1. \A x : x \in Bars' <=> x \in Bars
        BY <1>2c, <3>2, <3>3, <3>4, <3>6
      <4> QED
        BY <3>6, <4>1
    <3> QED
      BY <3>5, <3>6
  <2>2. id \notin Bars
    BY <1>2c DEF Bars
  <2>3. IsFiniteSet(Bars) /\ Cardinality(Bars) \in Nat
    BY <1>1, BarsTyped
  <2>4. Cardinality(Bars \cup {id}) = Cardinality(Bars) + 1
    BY <2>2, <2>3, FS_AddElement
  <2>5. queued_bar' = queued_bar + (IF k.bar THEN 1 ELSE 0) /\ queued_bar = Cardinality(Bars)
    BY <1>1 DEF WlanTx, BarsCounted, Bars
  <2>6. queued_bar' = Cardinality(Bars')
    BY <2>1, <2>3, <2>4, <2>5
  <2>7. BarsCounted'
    BY <2>6 DEF BarsCounted, Bars
  <2>8. Cardinality(Bars') \in 0 .. MaxFrames
    <3>1. IsFiniteSet(1 .. posted') /\ Cardinality(1 .. posted') = posted'
      BY <1>1, <1>2, FS_Interval
    <3>2. Bars' \subseteq 1 .. posted'
      BY DEF Bars
    <3>3. Cardinality(Bars') <= posted' /\ Cardinality(Bars') \in Nat
      BY <3>1, <3>2, FS_Subset, FS_CardinalityType
    <3>4. posted' \in Nat /\ posted' <= MaxFrames /\ MaxFrames \in Nat
      BY <1>1, <1>2, TxPathAssumption
    <3> QED
      BY <3>3, <3>4
  <2> QED
    BY <2>6, <2>7, <2>8
<1>5. TypeOK'
  BY <1>1, <1>2, <1>3, <1>4 DEF TypeOK, Supers, Entries
<1>6. tx_retry = <<>> /\ Len(tx_retry) = 0 /\ \A x : ~Waits(x) /\ ~Waits(x)'
  BY <1>1, OutsideCompletion DEF Waits
<1>7. RetryApart' /\ RetryDrained'
  BY <1>1, <1>6 DEF RetryApart, RetryDrained
<1>8. OnItsWay'
  <2>1. (Queued(BA) \/ Waits(BA) <=> ~available)'
    BY <1>1, <1>2, <1>3, <1>6 DEF OnItsWay
  <2>2. ASSUME NEW x \in Ids \ {BA}
        PROVE  (Queued(x) \/ Waits(x) <=> x <= posted /\ reports[x] = <<>>)'
    BY <1>1, <1>2, <1>2a, <1>2b, <1>3, <1>6 DEF OnItsWay
  <2> QED
    BY <2>1, <2>2 DEF OnItsWay
<1>9. ReportedOnce'
  BY <1>1, <1>2a, <1>2b DEF ReportedOnce
<1>10. PrevLive'
  BY <1>3 DEF PrevLive, Has
<1> QED
  BY <1>3, <1>4, <1>5, <1>7, <1>8, <1>9, <1>10 DEF Inv, PlaceInv

(* handle_download of a clipped frame.                                     *)
LEMMA ClippedKeeps ==
  ASSUME Inv, DownloadClipped
  PROVE  Inv'
<1> DEFINE id == posted + 1
<1>1. /\ TypeOK /\ OnItsWay /\ ReportedOnce /\ BarsCounted /\ QueuesApart /\ PrevLive
      /\ stage[1] \notin {"status", "retry"} /\ stage[1] = "host"
      /\ posted < MaxFrames /\ posted' = id
      /\ reports' = [reports EXCEPT ![id] = Append(reports[id], FALSE)]
      /\ UNCHANGED <<super, tx_queue, tx_retry, ampdu_prev, queued_bar, queued_ba, available,
                     txc, engine, stage, bars, air>>
  BY DEF Inv, PlaceInv, DownloadClipped, ba, fw
<1>2. /\ id \in Ids \ {BA} /\ id \in 0 .. MaxFrames /\ posted \in Nat
      /\ ~Queued(id) /\ ~Waits(id) /\ reports[id] = <<>>
  BY <1>1, NextFrame
<1>2a. \A x \in Ids : x # id => (x <= posted' <=> x <= posted) /\ (x > posted' => x > posted)
  BY <1>1, OneFrameMore
<1>2b. id > posted /\ id <= posted' /\ ~(id > posted')
  BY <1>1, <1>2
<1>2c. 1 .. posted' = (1 .. posted) \cup {id} /\ id \notin 1 .. posted
  BY <1>1, <1>2
<1> HIDE DEF id
<1>3. /\ Append(reports[id], FALSE) \in Seq(BOOLEAN) /\ Append(reports[id], FALSE) # <<>>
      /\ Len(Append(reports[id], FALSE)) = 1
  BY <1>2 DEF TypeOK
<1>4. /\ reports' \in [Ids -> Seq(BOOLEAN)] /\ reports'[id] # <<>> /\ Len(reports'[id]) = 1
      /\ \A x \in Ids \ {id} : reports'[x] = reports[x]
  BY <1>1, <1>2, <1>3 DEF TypeOK
<1>5. TypeOK'
  BY <1>1, <1>2, <1>4 DEF TypeOK
<1>6. SameIds /\ \A x \in Ids : super'[x].kind = super[x].kind
  BY <1>1 DEF SameIds
<1>7. QueuesApart'
  BY <1>1, <1>6, SameApart
<1>8. tx_retry = <<>> /\ Len(tx_retry) = 0 /\ \A x : ~Waits(x) /\ ~Waits(x)'
  BY <1>1, OutsideCompletion DEF Waits
<1>9. RetryApart' /\ RetryDrained'
  BY <1>1, <1>8 DEF RetryApart, RetryDrained
<1>10. \A x : Queued(x)' <=> Queued(x)
  BY <1>6, SamePlaces
<1>11. OnItsWay'
  <2>1. (Queued(BA) \/ Waits(BA) <=> ~available)'
    BY <1>1, <1>8, <1>10 DEF OnItsWay
  <2>2. ASSUME NEW x \in Ids \ {BA}
        PROVE  (Queued(x) \/ Waits(x) <=> x <= posted /\ reports[x] = <<>>)'
    BY <1>1, <1>2, <1>2a, <1>4, <1>8, <1>10 DEF OnItsWay
  <2> QED
    BY <2>1, <2>2 DEF OnItsWay
<1>12. ReportedOnce'
  <2>1. ASSUME NEW x \in Ids, x # id
        PROVE  Len(reports'[x]) <= 1 /\ (x > posted' => reports'[x] = <<>>)
    BY <1>1, <1>2a, <1>4, <2>1 DEF ReportedOnce
  <2>2. Len(reports'[id]) <= 1 /\ (id > posted' => reports'[id] = <<>>)
    BY <1>2b, <1>4
  <2> QED
    BY <2>1, <2>2 DEF ReportedOnce
<1>13. BarsCounted'
  <2>1. \A x \in 1 .. posted : x \in Ids \ {id}
    BY <1>1, <1>2c, StageTypes DEF Ids
  <2>2. \A x \in 1 .. posted : x \in Bars' <=> x \in Bars
    BY <1>1, <1>2c, <1>4, <2>1 DEF Bars
  <2>3. id \notin Bars'
    BY <1>4 DEF Bars
  <2>4. Bars' \subseteq (1 .. posted) \cup {id} /\ Bars \subseteq 1 .. posted
    BY <1>2c DEF Bars
  <2>5. ASSUME NEW x PROVE x \in Bars' <=> x \in Bars
    BY <1>2c, <2>2, <2>3, <2>4
  <2>6. Bars' = Bars
    BY <2>5
  <2> QED
    BY <1>1, <2>6 DEF BarsCounted, Bars
<1>14. PrevLive'
  BY <1>1 DEF PrevLive, Has
<1> QED
  BY <1>5, <1>7, <1>9, <1>11, <1>12, <1>13, <1>14 DEF Inv, PlaceInv

(* The end of a round of main_loop.                                        *)
LEMMA DownloadEndKeeps ==
  ASSUME Inv, DownloadEnd
  PROVE  Inv'
<1>1. /\ TypeOK /\ stage[1] \notin {"status", "retry"} /\ stage' = <<"wlan", 0>>
      /\ UNCHANGED <<super, tx_queue, tx_retry, ampdu_prev, queued_bar, queued_ba, available,
                     txc, engine, posted, bars, air, reports>>
  BY DEF Inv, PlaceInv, DownloadEnd, fw, ba, hist
<1>2. TypeOK'
  BY <1>1 DEF TypeOK
<1>3. RetryDrained' /\ PrevLive'
  BY <1>1, OutsideCompletion DEF RetryDrained, PrevLive, Has
<1>4. SameIds
  BY <1>1 DEF SameIds
<1> QED
  BY <1>1, <1>2, <1>3, <1>4, QuietStep

(* The MAC: nothing moves.                                                 *)
LEMMA MacIdleKeeps ==
  ASSUME Inv, NEW q \in Queues, MacIdle(q)
  PROVE  Inv'
<1>1. /\ TypeOK /\ engine' = [engine EXCEPT ![q] = "idle"]
      /\ UNCHANGED <<super, tx_queue, tx_retry, ampdu_prev, queued_bar, queued_ba, available,
                     txc, stage, posted, bars, air, reports>>
  BY DEF Inv, PlaceInv, MacIdle, fw, ba, hist
<1>2. TypeOK'
  BY <1>1 DEF TypeOK
<1>3. RetryDrained' /\ PrevLive'
  BY <1>1 DEF Inv, PlaceInv, RetryDrained, PrevLive, Has, i
<1>4. SameIds
  BY <1>1 DEF SameIds
<1> QED
  BY <1>1, <1>2, <1>3, <1>4, QuietStep

(* What the MAC changes of a queue: the bits of one entry.                 *)
Remarked(q, n, e) ==
  /\ Len(tx_queue'[q]) = Len(tx_queue[q])
  /\ tx_queue'[q][n] = e
  /\ \A m \in 1 .. Len(tx_queue[q]) : m # n => tx_queue'[q][m] = tx_queue[q][m]
  /\ \A p \in Queues \ {q} : tx_queue'[p] = tx_queue[p]

LEMMA SentEntry ==
  ASSUME TypeOK, NEW q \in Queues, NEW n \in 1 .. Len(tx_queue[q]), NEW e \in Entries,
         e.id = tx_queue[q][n].id, tx_queue' = [tx_queue EXCEPT ![q][n] = e]
  PROVE  tx_queue' \in [Queues -> Seq(Entries)] /\ SameIds /\ Remarked(q, n, e)
<1>1. tx_queue \in [Queues -> Seq(Entries)] /\ tx_queue[q] \in Seq(Entries)
  BY DEF TypeOK, Entries
<1>2. /\ [tx_queue[q] EXCEPT ![n] = e] \in Seq(Entries)
      /\ Len([tx_queue[q] EXCEPT ![n] = e]) = Len(tx_queue[q])
      /\ [tx_queue[q] EXCEPT ![n] = e][n] = e
      /\ \A m \in 1 .. Len(tx_queue[q]) :
           m # n => [tx_queue[q] EXCEPT ![n] = e][m] = tx_queue[q][m]
  BY <1>1, ExceptSeq
<1>3. /\ tx_queue'[q] = [tx_queue[q] EXCEPT ![n] = e]
      /\ \A p \in Queues \ {q} : tx_queue'[p] = tx_queue[p]
      /\ tx_queue' \in [Queues -> Seq(Entries)]
  BY <1>1, <1>2
<1>4. SameIds
  BY <1>2, <1>3 DEF SameIds
<1>5. Remarked(q, n, e)
  BY <1>2, <1>3 DEF Remarked
<1> QED
  BY <1>3, <1>4, <1>5

(* What MacSend changes.                                                   *)
LEMMA MacSends ==
  ASSUME TypeOK, NEW q \in Queues, NEW fail \in {"no", "tx", "ba"}, MacSend(q, fail)
  PROVE  \E n \in Current(q) :
           LET id == tx_queue[q][n].id
               e == [tx_queue[q][n] EXCEPT !.own = "SW", !.fail = fail]
           IN  /\ n \in 1 .. Len(tx_queue[q]) /\ id \in Ids
               /\ tx_queue[q][n].own = "HW"
               /\ \A m \in 1 .. n - 1 : tx_queue[q][m].own = "SW"
               /\ e \in Entries /\ e.id = id /\ e.own = "SW" /\ e.fail = fail
               /\ fail = "ba" => super[id].ampdu
               /\ tx_queue' = [tx_queue EXCEPT ![q][n] = e]
               /\ air' = [air EXCEPT ![id][super[id].rix] = air[id][super[id].rix] + 1]
<1>1. PICK n \in Current(q) :
        /\ fail = "ba" => super[tx_queue[q][n].id].ampdu
        /\ tx_queue' = [tx_queue EXCEPT ![q][n].own = "SW", ![q][n].fail = fail]
        /\ air' = [air EXCEPT ![tx_queue[q][n].id][super[tx_queue[q][n].id].rix] = @ + 1]
  BY DEF MacSend
<1>2. /\ n \in 1 .. Len(tx_queue[q]) /\ tx_queue[q][n].own = "HW"
      /\ \A m \in 1 .. n - 1 : tx_queue[q][m].own = "SW"
  BY DEF Current
<1>3. tx_queue[q][n] \in Entries /\ tx_queue[q][n].id \in Ids
  BY <1>2, QueueTypes
<1> DEFINE e == [tx_queue[q][n] EXCEPT !.own = "SW", !.fail = fail]
<1>4. e \in Entries /\ e.id = tx_queue[q][n].id /\ e.own = "SW" /\ e.fail = fail
  BY <1>3 DEF Entries
<1>5. tx_queue' = [tx_queue EXCEPT ![q][n] = e]
  BY <1>1
<1> QED
  BY <1>1, <1>2, <1>3, <1>4, <1>5

LEMMA SentAir ==
  ASSUME TypeOK, NEW id \in Ids, NEW r \in 0 .. MaxRix,
         air' = [air EXCEPT ![id][r] = air[id][r] + 1]
  PROVE  /\ air' \in [Ids -> [0 .. MaxRix -> Nat]]
         /\ air'[id][r] = air[id][r] + 1
         /\ \A x \in 0 .. MaxRix : x # r => air'[id][x] = air[id][x]
         /\ \A x \in Ids \ {id} : air'[x] = air[x]
<1>1. air[id] \in [0 .. MaxRix -> Nat] /\ air \in [Ids -> [0 .. MaxRix -> Nat]]
  BY DEF TypeOK
<1> DEFINE a == [air[id] EXCEPT ![r] = air[id][r] + 1]
<1>2. /\ a \in [0 .. MaxRix -> Nat] /\ a[r] = air[id][r] + 1
      /\ \A x \in 0 .. MaxRix : x # r => a[x] = air[id][x]
  BY <1>1
<1>3. air' = [air EXCEPT ![id] = a]
  OBVIOUS
<1> HIDE DEF a
<1> QED
  BY <1>1, <1>2, <1>3

LEMMA MacSendKeeps ==
  ASSUME Inv, NEW q \in Queues, NEW fail \in {"no", "tx", "ba"}, MacSend(q, fail)
  PROVE  Inv'
<1>0. TypeOK
  BY DEF Inv, PlaceInv
<1>1. PICK n \in Current(q) :
        LET id == tx_queue[q][n].id
            e == [tx_queue[q][n] EXCEPT !.own = "SW", !.fail = fail]
        IN  /\ n \in 1 .. Len(tx_queue[q]) /\ id \in Ids
            /\ tx_queue[q][n].own = "HW"
            /\ \A m \in 1 .. n - 1 : tx_queue[q][m].own = "SW"
            /\ e \in Entries /\ e.id = id /\ e.own = "SW" /\ e.fail = fail
            /\ fail = "ba" => super[id].ampdu
            /\ tx_queue' = [tx_queue EXCEPT ![q][n] = e]
            /\ air' = [air EXCEPT ![id][super[id].rix] = air[id][super[id].rix] + 1]
  BY <1>0, MacSends
<1>2. tx_queue' \in [Queues -> Seq(Entries)] /\ SameIds
  BY <1>0, <1>1, SentEntry
<1>3. /\ engine' \in [Queues -> {"idle", "busy", "halted"}] /\ txc' = TRUE
      /\ UNCHANGED <<super, tx_retry, ampdu_prev, queued_bar, queued_ba, available,
                     stage, posted, bars, reports>>
  BY <1>0 DEF MacSend, ba, TypeOK
<1>4. air' \in [Ids -> [0 .. MaxRix -> Nat]]
  <2> DEFINE id == tx_queue[q][n].id
  <2>1. id \in Ids /\ air' = [air EXCEPT ![id][super[id].rix] = air[id][super[id].rix] + 1]
    BY <1>1
  <2> HIDE DEF id
  <2>2. super[id].rix \in 0 .. MaxRix
    BY <1>0, <2>1, SuperTypes
  <2> QED
    BY <1>0, <2>1, <2>2, SentAir
<1>5. TypeOK'
  BY <1>0, <1>2, <1>3, <1>4 DEF TypeOK, Entries
<1>6. RetryDrained'
  BY <1>3 DEF Inv, PlaceInv, RetryDrained, i
<1>7. PrevLive'
  <2>1. ampdu_prev' = ampdu_prev
    BY <1>3
  <2>2. ASSUME NEW p \in Queues
        PROVE  (\E m \in 1 .. Len(tx_queue'[p]) : tx_queue'[p][m].id = ampdu_prev[p])
                 <=> Has(p, ampdu_prev[p])
    BY <1>2 DEF Has, SameIds
  <2>3. \A p \in Queues : Has(p, ampdu_prev[p])' <=> Has(p, ampdu_prev[p])
    <3> SUFFICES ASSUME NEW p \in Queues
                 PROVE  Has(p, ampdu_prev[p])' <=> Has(p, ampdu_prev[p])
      OBVIOUS
    <3>1. (\E m \in 1 .. Len(tx_queue'[p]) : tx_queue'[p][m].id = ampdu_prev'[p])
            <=> Has(p, ampdu_prev[p])
      BY <2>1, <2>2
    <3> QED
      BY <3>1 DEF Has
  <2> QED
    BY <1>3, <2>3 DEF Inv, PrevLive
<1> QED
  BY <1>2, <1>3, <1>5, <1>6, <1>7, QuietStep

(* wlan_tx_consume_retry.                                                  *)
LEMMA ConsumeTypes ==
  ASSUME NEW s \in Supers, CanRetry(s)
  PROVE  ConsumeRetry(s) \in Supers /\ ConsumeRetry(s).kind = s.kind
<1>1. CASE OneMore(s)
  BY <1>1 DEF ConsumeRetry, Supers
<1>2. CASE ~OneMore(s)
  <2>1. NextRate(s)
    BY <1>2 DEF CanRetry
  <2>2. s.rix \in 0 .. MaxRix /\ MaxRix \in Nat /\ s.kind \in Kinds \cup {BaKind}
    BY TxPathAssumption DEF Supers
  <2>3. Len(s.kind.ampdu) = Len(s.kind.tries) /\ Len(s.kind.tries) \in Nat
    BY <2>2, KindFacts
  <2>4. s.rix + 2 \in 1 .. Len(s.kind.ampdu) /\ s.rix + 1 \in 0 .. MaxRix
    BY <2>1, <2>2, <2>3 DEF NextRate
  <2>5. s.kind.ampdu[s.rix + 2] \in BOOLEAN
    BY <2>2, <2>4, KindFacts
  <2> DEFINE r == s.rix + 1
             a == s.kind.ampdu[s.rix + 2]
  <2>6. ConsumeRetry(s) = [s EXCEPT !.rix = r, !.cnt = 1, !.ampdu = a]
    BY <1>2 DEF ConsumeRetry
  <2>7. r \in 0 .. MaxRix /\ a \in BOOLEAN /\ 1 \in Nat \ {0}
    BY <2>4, <2>5
  <2> HIDE DEF r, a
  <2>8. [s EXCEPT !.rix = r, !.cnt = 1] \in Supers /\ [s EXCEPT !.rix = r, !.cnt = 1].kind = s.kind
    BY <2>7 DEF Supers
  <2>9. \A t \in Supers : [t EXCEPT !.ampdu = a] \in Supers /\ [t EXCEPT !.ampdu = a].kind = t.kind
    BY <2>7 DEF Supers
  <2>10. ConsumeRetry(s) = [[s EXCEPT !.rix = r, !.cnt = 1] EXCEPT !.ampdu = a]
    BY <2>6
  <2> QED
    BY <2>8, <2>9, <2>10
<1> QED
  BY <1>1, <1>2

(* What Finished says of the front of the queue being handled.             *)
LEMMA FinishedFront ==
  ASSUME TypeOK, Finished
  PROVE  /\ i \in Queues /\ stage = <<"status", i>> /\ stage[1] = "status"
         /\ tx_queue[i] # <<>> /\ Len(tx_queue[i]) \in Nat \ {0}
         /\ 1 \in 1 .. Len(tx_queue[i])
         /\ first \in Entries /\ first.id \in Ids /\ first.own = "SW"
         /\ Has(i, first.id) /\ Queued(first.id)
         /\ super[first.id] \in Supers
<1>1. stage[1] = "status" /\ tx_queue[i] # <<>> /\ first.own = "SW"
  BY DEF Finished
<1>2. i \in Queues /\ stage = <<"status", i>>
  BY <1>1, StageTypes
<1>3. Len(tx_queue[i]) \in Nat \ {0}
  BY <1>1, <1>2, QueueTypes
<1>4. 1 \in 1 .. Len(tx_queue[i])
  BY <1>3
<1>5. first \in Entries /\ first.id \in Ids
  BY <1>2, <1>4, QueueTypes DEF first
<1>6. Has(i, first.id) /\ Queued(first.id)
  BY <1>2, <1>4 DEF Has, Queued, first
<1>7. super[first.id] \in Supers
  BY <1>5, SuperTypes
<1> QED
  BY <1>1, <1>2, <1>3, <1>4, <1>5, <1>6, <1>7

(* What a retry leaves of the superframes.                                 *)
LEMMA ConsumedSuper ==
  ASSUME TypeOK, NEW id \in Ids, CanRetry(super[id]),
         super' = [super EXCEPT ![id] = ConsumeRetry(@)]
  PROVE  /\ super' \in [Ids -> Supers]
         /\ super'[id] = ConsumeRetry(super[id])
         /\ \A x \in Ids \ {id} : super'[x] = super[x]
         /\ \A x \in Ids : super'[x].kind = super[x].kind
<1>1. super \in [Ids -> Supers] /\ super[id] \in Supers
  BY SuperTypes
<1>2. ConsumeRetry(super[id]) \in Supers /\ ConsumeRetry(super[id]).kind = super[id].kind
  BY <1>1, ConsumeTypes
<1> QED
  BY <1>1, <1>2

(* wlan_tx_status of a failure with tries left.                            *)
LEMMA StatusRearmKeeps ==
  ASSUME Inv, StatusRearm
  PROVE  Inv'
<1>1. TypeOK /\ Finished
  BY DEF Inv, PlaceInv, StatusRearm
<1>2. /\ i \in Queues /\ stage = <<"status", i>> /\ 1 \in 1 .. Len(tx_queue[i])
      /\ first.id \in Ids /\ first.id = tx_queue[i][1].id
  BY <1>1, FinishedFront DEF first
<1>3. /\ super' \in [Ids -> Supers] /\ \A x \in Ids : super'[x].kind = super[x].kind
  BY <1>1, <1>2, ConsumedSuper DEF StatusRearm
<1>4. tx_queue' \in [Queues -> Seq(Entries)] /\ SameIds
  <2>1. Entry(first.id) \in Entries /\ Entry(first.id).id = tx_queue[i][1].id
    BY <1>2 DEF Entry, Entries
  <2>2. tx_queue' = [tx_queue EXCEPT ![i][1] = Entry(first.id)]
    BY DEF StatusRearm
  <2> QED
    BY <1>1, <1>2, <2>1, <2>2, SentEntry
<1>5. /\ engine' \in [Queues -> {"idle", "busy", "halted"}]
      /\ ampdu_prev' \in [Queues -> Ids \cup {NULL}] /\ ampdu_prev'[i] = NULL
      /\ \A q \in Queues \ {i} : ampdu_prev'[q] = ampdu_prev[q]
      /\ stage' = <<"retry", i>>
      /\ UNCHANGED <<tx_retry, queued_bar, queued_ba, available, txc, posted, bars, air, reports>>
  BY <1>1, <1>2, EngineTypes DEF StatusRearm, ba, hist, TypeOK
<1>6. TypeOK'
  <2>1. stage' \in {"status", "retry"} \X Queues
    BY <1>2, <1>5
  <2> QED
    BY <1>1, <1>3, <1>4, <1>5, <2>1 DEF TypeOK, Supers, Entries
<1>7. RetryDrained'
  <2>1. \A n \in 1 .. Len(tx_retry) : super[tx_retry[n]].kind.queue = i /\ tx_retry[n] \in Ids
    BY <1>1, RetryTypes DEF Inv, PlaceInv, RetryDrained
  <2>2. i' = i /\ stage'[1] = "retry"
    BY <1>5 DEF i
  <2> QED
    BY <1>3, <1>5, <2>1, <2>2 DEF RetryDrained
<1>8. PrevLive'
  <2>1. ASSUME NEW q \in Queues, ampdu_prev'[q] # NULL
        PROVE  \E m \in 1 .. Len(tx_queue'[q]) : tx_queue'[q][m].id = ampdu_prev'[q]
    <3>1. q # i /\ ampdu_prev'[q] = ampdu_prev[q] /\ stage # <<"status", q>>
      BY <1>2, <1>5, <2>1
    <3>2. Has(q, ampdu_prev[q])
      BY <2>1, <3>1 DEF Inv, PrevLive
    <3> QED
      BY <1>4, <3>1, <3>2 DEF Has, SameIds
  <2> QED
    BY <2>1 DEF PrevLive, Has
<1> QED
  BY <1>3, <1>4, <1>5, <1>6, <1>7, <1>8, QuietStep

(* The queues that are not being handled keep what ampdu_prev points to.   *)
LEMMA PrevElsewhere ==
  ASSUME Inv, i \in Queues, stage' = <<"status", i>>, stage = stage',
         ampdu_prev' = ampdu_prev, \A q \in Queues \ {i} : tx_queue'[q] = tx_queue[q]
  PROVE  PrevLive'
<1>1. ASSUME NEW q \in Queues, ampdu_prev'[q] # NULL, stage' # <<"status", q>>
      PROVE  \E m \in 1 .. Len(tx_queue'[q]) : tx_queue'[q][m].id = ampdu_prev'[q]
  <2>1. q # i /\ tx_queue'[q] = tx_queue[q]
    BY <1>1
  <2>2. Has(q, ampdu_prev[q])
    BY <1>1 DEF Inv, PrevLive
  <2> QED
    BY <2>1, <2>2 DEF Has
<1> QED
  BY <1>1 DEF PrevLive, Has

(* wlan_tx_status of a frame that goes to the retry queue.                 *)
LEMMA StatusRetryKeeps ==
  ASSUME Inv, StatusRetry
  PROVE  Inv'
<1> DEFINE id == tx_queue[i][1].id
<1>1. TypeOK /\ Finished /\ QueuesApart /\ RetryApart /\ RetryDrained
  BY DEF Inv, PlaceInv, StatusRetry
<1>2. /\ i \in Queues /\ stage = <<"status", i>> /\ 1 \in 1 .. Len(tx_queue[i])
      /\ tx_queue[i] # <<>>
      /\ id \in Ids /\ first.id = id /\ Queued(id) /\ Has(i, id)
  BY <1>1, FinishedFront DEF first
<1>3. /\ super' \in [Ids -> Supers] /\ \A x \in Ids : super'[x].kind = super[x].kind
  BY <1>1, <1>2, ConsumedSuper DEF StatusRetry
<1>4. Removed(i) /\ tx_queue' \in [Queues -> Seq(Entries)]
  BY <1>1, <1>2, UnlinkedRemoves DEF StatusRetry
<1>5. /\ tx_retry' = Append(tx_retry, id)
      /\ UNCHANGED <<ampdu_prev, queued_bar, queued_ba, available, txc, engine, stage,
                     posted, bars, air, reports>>
  BY <1>2 DEF StatusRetry, ba, hist
<1>5a. super[id].kind.queue = i
  BY <1>1, <1>2 DEF QueuesApart
<1>5b. \A x : Queued(x)' <=> Queued(x) /\ x # id
  BY <1>1, <1>2, <1>4, RemovedPlaces
<1> HIDE DEF id
<1>6. /\ tx_retry' \in Seq(Ids) /\ Len(tx_retry') = Len(tx_retry) + 1
      /\ \A n \in 1 .. Len(tx_retry) : tx_retry'[n] = tx_retry[n]
      /\ tx_retry'[Len(tx_retry) + 1] = id
      /\ \A x : Waits(x)' <=> Waits(x) \/ x = id
  BY <1>1, <1>2, <1>5, RetryPushed
<1>6a. Len(tx_retry) \in Nat /\ \A n \in 1 .. Len(tx_retry) : tx_retry[n] \in Ids
  BY <1>1, RetryTypes
<1>7. TypeOK'
  BY <1>1, <1>3, <1>4, <1>5, <1>6 DEF TypeOK, Supers, Entries
<1>8. QueuesApart'
  BY <1>1, <1>2, <1>3, <1>4, RemovedApart
<1>9. RetryApart'
  <2>1. \A n \in 1 .. Len(tx_retry) : ~Queued(tx_retry[n]) /\ tx_retry[n] # id
    BY <1>1, <1>2 DEF RetryApart
  <2>2. ASSUME NEW n \in 1 .. Len(tx_retry'), NEW x, x = tx_retry'[n] PROVE ~Queued(x)'
    <3>1. CASE n \in 1 .. Len(tx_retry)
      BY <1>5b, <1>6, <2>1, <2>2, <3>1
    <3>2. CASE n = Len(tx_retry) + 1
      BY <1>5b, <1>6, <2>2, <3>2
    <3> QED
      BY <1>6, <1>6a, <3>1, <3>2
  <2>3. ASSUME NEW n \in 1 .. Len(tx_retry'), NEW m \in 1 .. Len(tx_retry'),
               tx_retry'[m] = tx_retry'[n]
        PROVE  m = n
    <3>1. (n \in 1 .. Len(tx_retry) \/ n = Len(tx_retry) + 1)
            /\ (m \in 1 .. Len(tx_retry) \/ m = Len(tx_retry) + 1)
      BY <1>6, <1>6a
    <3>2. CASE n \in 1 .. Len(tx_retry) /\ m \in 1 .. Len(tx_retry)
      BY <1>1, <1>6, <2>3, <3>2 DEF RetryApart
    <3>3. CASE n \in 1 .. Len(tx_retry) /\ m = Len(tx_retry) + 1
      BY <1>6, <2>1, <2>3, <3>3
    <3>4. CASE m \in 1 .. Len(tx_retry) /\ n = Len(tx_retry) + 1
      BY <1>6, <2>1, <2>3, <3>4
    <3> QED
      BY <3>1, <3>2, <3>3, <3>4
  <2> QED
    BY <2>2, <2>3 DEF RetryApart, Queued, Has
<1>10. RetryDrained'
  <2>1. \A n \in 1 .. Len(tx_retry) : super[tx_retry[n]].kind.queue = i
    BY <1>1 DEF RetryDrained
  <2>2. \A n \in 1 .. Len(tx_retry') : super'[tx_retry'[n]].kind.queue = i
    BY <1>2, <1>3, <1>5a, <1>6, <1>6a, <2>1
  <2>3. i' = i /\ stage'[1] = "status"
    BY <1>2, <1>5 DEF i
  <2> QED
    BY <2>2, <2>3 DEF RetryDrained
<1>11. OnItsWay' /\ ReportedOnce'
  <2>1. \A x : (Queued(x) \/ Waits(x))' <=> Queued(x) \/ Waits(x)
    BY <1>2, <1>5b, <1>6
  <2> QED
    BY <1>5, <2>1 DEF Inv, PlaceInv, OnItsWay, ReportedOnce
<1>12. BarsCounted'
  <2>1. \A x \in 1 .. posted : x \in Ids
    BY <1>1, StageTypes DEF Ids
  <2>2. Bars' = Bars
    BY <1>3, <1>5, <2>1 DEF Bars
  <2> QED
    BY <1>5, <2>2 DEF Inv, BarsCounted, Bars
<1>13. PrevLive'
  BY <1>2, <1>4, <1>5, PrevElsewhere DEF Removed
<1> QED
  BY <1>7, <1>8, <1>9, <1>10, <1>11, <1>12, <1>13 DEF Inv, PlaceInv

(* wlan_tx_status of a frame that is done.                                 *)
LEMMA StatusDoneKeeps ==
  ASSUME Inv, StatusDone
  PROVE  Inv'
<1> DEFINE id == tx_queue[i][1].id
           success == first.fail = "no"
<1>1. /\ TypeOK /\ Finished /\ QueuesApart /\ RetryApart /\ RetryDrained
      /\ OnItsWay /\ ReportedOnce /\ BarsCounted
  BY DEF Inv, PlaceInv, StatusDone
<1>2. /\ i \in Queues /\ stage = <<"status", i>> /\ 1 \in 1 .. Len(tx_queue[i])
      /\ tx_queue[i] # <<>>
      /\ id \in Ids /\ first.id = id /\ Queued(id) /\ Has(i, id)
  BY <1>1, FinishedFront DEF first
<1>3. Removed(i) /\ tx_queue' \in [Queues -> Seq(Entries)]
  BY <1>1, <1>2, UnlinkedRemoves DEF StatusDone
<1>4. /\ UNCHANGED <<super, tx_retry, ampdu_prev, queued_ba, txc, stage, posted, bars, air>>
      /\ engine' \in [Queues -> {"idle", "busy", "halted"}]
  <2>1. engine' = AfterDone
    BY DEF StatusDone
  <2>2. AfterDone \in [Queues -> {"idle", "busy", "halted"}]
    BY <1>1, <1>2, EngineTypes DEF AfterDone, TypeOK
  <2> QED
    BY <2>1, <2>2 DEF StatusDone
<1>5. \/ /\ id = BA /\ available' = TRUE
         /\ UNCHANGED <<queued_bar, reports>>
      \/ /\ id # BA /\ available' = available
         /\ reports' = [reports EXCEPT ![id] = Append(reports[id], success)]
         /\ queued_bar' = IF super[id].kind.bar THEN queued_bar - 1 ELSE queued_bar
  BY <1>2 DEF StatusDone, BarsLeft
<1>6. /\ \A x : Queued(x)' <=> Queued(x) /\ x # id
      /\ \A x : Waits(x)' <=> Waits(x)
  BY <1>1, <1>2, <1>3, <1>4, RemovedPlaces DEF Waits
<1>7. ~Waits(id)
  BY <1>1, <1>2 DEF Waits, RetryApart
<1>8. success \in BOOLEAN
  OBVIOUS
<1> HIDE DEF id, success
<1>9. QueuesApart'
  BY <1>1, <1>2, <1>3, <1>4, RemovedApart
<1>10. RetryApart' /\ RetryDrained'
  <2>1. ASSUME NEW n \in 1 .. Len(tx_retry), NEW x, x = tx_retry[n] PROVE ~Queued(x)'
    BY <1>1, <1>6, <2>1 DEF RetryApart
  <2>2. RetryApart'
    BY <1>1, <1>4, <2>1 DEF RetryApart, Queued, Has
  <2> QED
    BY <1>1, <1>4, <2>2 DEF RetryDrained, i
<1>11. PrevLive'
  BY <1>2, <1>3, <1>4, PrevElsewhere DEF Removed
<1>12. CASE id = BA
  <2>1. UNCHANGED <<queued_bar, reports>> /\ available' = TRUE
    BY <1>5, <1>12
  <2>2. TypeOK'
    BY <1>1, <1>3, <1>4, <2>1 DEF TypeOK, Entries
  <2>3. OnItsWay' /\ ReportedOnce'
    BY <1>1, <1>4, <1>6, <1>7, <1>12, <2>1 DEF OnItsWay, ReportedOnce
  <2>4. BarsCounted'
    BY <1>1, <1>4, <2>1 DEF BarsCounted
  <2> QED
    BY <1>9, <1>10, <1>11, <2>2, <2>3, <2>4 DEF Inv, PlaceInv
<1>13. CASE id # BA
  <2>1. /\ available' = available
        /\ reports' = [reports EXCEPT ![id] = Append(reports[id], success)]
        /\ queued_bar' = IF super[id].kind.bar THEN queued_bar - 1 ELSE queued_bar
    BY <1>5, <1>13
  <2>2. id \in Ids \ {BA} /\ id <= posted /\ reports[id] = <<>> /\ posted \in Nat /\ id \in Nat
    BY <1>1, <1>2, <1>13, StageTypes DEF OnItsWay, Ids
  <2>3. /\ Append(reports[id], success) \in Seq(BOOLEAN) /\ Append(reports[id], success) # <<>>
        /\ Len(Append(reports[id], success)) = 1
    BY <1>8, <2>2 DEF TypeOK
  <2>4. /\ reports' \in [Ids -> Seq(BOOLEAN)] /\ reports'[id] # <<>> /\ Len(reports'[id]) = 1
        /\ \A x \in Ids \ {id} : reports'[x] = reports[x]
    BY <1>1, <2>1, <2>2, <2>3 DEF TypeOK
  <2>5. BarsCounted' /\ queued_bar' \in 0 .. MaxFrames
    <3>1. \A x \in 1 .. posted : x \in Ids
      BY <1>1, StageTypes DEF Ids
    <3>2. ASSUME NEW x PROVE x \in Bars' <=> x \in Bars /\ x # id
      BY <1>4, <2>4, <3>1 DEF Bars
    <3>3. IsFiniteSet(Bars) /\ Cardinality(Bars) \in Nat
      BY <1>1, BarsTyped
    <3>4. id \in 1 .. posted
      BY <1>2, <1>13, <2>2 DEF Ids, BA
    <3>5. id \in Bars <=> super[id].kind.bar
      BY <2>2, <3>4 DEF Bars
    <3>6. queued_bar = Cardinality(Bars)
      BY <1>1 DEF BarsCounted, Bars
    <3>7. CASE super[id].kind.bar
      <4>1. Bars' = Bars \ {id}
        BY <3>2
      <4>2. Cardinality(Bars \ {id}) = Cardinality(Bars) - 1 /\ Cardinality(Bars \ {id}) \in Nat
        <5>1. IsFiniteSet(Bars \ {id}) /\ Cardinality(Bars \ {id}) = Cardinality(Bars) - 1
          BY <3>3, <3>5, <3>7, FS_RemoveElement
        <5> QED
          BY <5>1, FS_CardinalityType
      <4>3. queued_bar' = Cardinality(Bars')
        BY <2>1, <3>6, <3>7, <4>1, <4>2
      <4>4. queued_bar' \in 0 .. MaxFrames
        BY <1>1, <2>1, <3>6, <3>7, <4>2, TxPathAssumption DEF TypeOK
      <4> QED
        BY <4>3, <4>4 DEF BarsCounted, Bars
    <3>8. CASE ~super[id].kind.bar
      <4>1. Bars' = Bars
        BY <3>2, <3>5, <3>8
      <4>2. queued_bar' = queued_bar
        BY <2>1, <3>8
      <4>3. queued_bar' = Cardinality(Bars')
        BY <3>6, <4>1, <4>2
      <4>4. queued_bar' \in 0 .. MaxFrames
        BY <1>1, <4>2 DEF TypeOK
      <4> QED
        BY <4>3, <4>4 DEF BarsCounted, Bars
    <3> QED
      BY <3>7, <3>8
  <2>6. TypeOK'
    BY <1>1, <1>3, <1>4, <2>1, <2>4, <2>5 DEF TypeOK, Entries
  <2>7. OnItsWay'
    <3>1. (Queued(BA) \/ Waits(BA) <=> ~available)'
      BY <1>1, <1>6, <1>13, <2>1 DEF OnItsWay
    <3>2. ASSUME NEW x \in Ids \ {BA}
          PROVE  (Queued(x) \/ Waits(x) <=> x <= posted /\ reports[x] = <<>>)'
      <4>1. CASE x = id
        BY <1>6, <1>7, <2>4, <4>1
      <4>2. CASE x # id
        BY <1>1, <1>4, <1>6, <2>4, <4>2 DEF OnItsWay
      <4> QED
        BY <4>1, <4>2
    <3> QED
      BY <3>1, <3>2 DEF OnItsWay
  <2>8. ReportedOnce'
    <3>1. ASSUME NEW x \in Ids, x # id
          PROVE  Len(reports'[x]) <= 1 /\ (x > posted' => reports'[x] = <<>>)
      BY <1>1, <1>4, <2>4, <3>1 DEF ReportedOnce
    <3>2. Len(reports'[id]) <= 1 /\ ~(id > posted')
      BY <1>4, <2>2, <2>4
    <3> QED
      BY <3>1, <3>2 DEF ReportedOnce
  <2> QED
    BY <1>9, <1>10, <1>11, <2>5, <2>6, <2>7, <2>8 DEF Inv, PlaceInv
<1> QED
  BY <1>12, <1>13

(* wlan_tx_ampdu_reset, when the queue has no finished frame in front.     *)
LEMMA StatusEndKeeps ==
  ASSUME Inv, StatusEnd
  PROVE  Inv'
<1>1. /\ TypeOK /\ i \in Queues /\ stage = <<"status", i>> /\ stage' = <<"retry", i>>
      /\ UNCHANGED <<super, tx_queue, tx_retry, queued_bar, queued_ba, available, txc, engine,
                     posted, bars, air, reports>>
  BY StageTypes DEF Inv, PlaceInv, StatusEnd, ba, hist
<1>2. /\ ampdu_prev' \in [Queues -> Ids \cup {NULL}] /\ ampdu_prev'[i] = NULL
      /\ \A q \in Queues \ {i} : ampdu_prev'[q] = ampdu_prev[q]
  BY <1>1 DEF StatusEnd, TypeOK
<1>3. TypeOK'
  <2>1. stage' \in {"status", "retry"} \X Queues
    BY <1>1
  <2> QED
    BY <1>1, <1>2, <2>1 DEF TypeOK
<1>4. RetryDrained'
  <2>1. \A n \in 1 .. Len(tx_retry) : super[tx_retry[n]].kind.queue = i
    BY DEF Inv, PlaceInv, RetryDrained
  <2>2. i' = i /\ stage'[1] = "retry"
    BY <1>1 DEF i
  <2> QED
    BY <1>1, <2>1, <2>2 DEF RetryDrained
<1>5. PrevLive'
  <2>1. ASSUME NEW q \in Queues, ampdu_prev'[q] # NULL
        PROVE  \E m \in 1 .. Len(tx_queue[q]) : tx_queue[q][m].id = ampdu_prev'[q]
    <3>1. q # i /\ ampdu_prev'[q] = ampdu_prev[q] /\ stage # <<"status", q>>
      BY <1>1, <1>2, <2>1
    <3> QED
      BY <2>1, <3>1 DEF Inv, PrevLive, Has
  <2> QED
    BY <1>1, <2>1 DEF PrevLive, Has
<1>6. SameIds
  BY <1>1 DEF SameIds
<1> QED
  BY <1>1, <1>3, <1>4, <1>5, <1>6, QuietStep

(* The frames of the retry queue go behind their queue again.              *)
LEMMA RetryNextKeeps ==
  ASSUME Inv, RetryNext
  PROVE  Inv'
<1> DEFINE id == Head(tx_retry)
<1>1. /\ TypeOK /\ QueuesApart /\ RetryApart /\ RetryDrained /\ OnItsWay /\ ReportedOnce
      /\ stage[1] = "retry" /\ tx_retry # <<>> /\ Put(super, id) /\ tx_retry' = Tail(tx_retry)
      /\ UNCHANGED <<queued_bar, queued_ba, available, txc, engine, stage, posted, bars, air, reports>>
  BY DEF Inv, PlaceInv, RetryNext, ba, hist
<1>2. /\ id \in Ids /\ id = tx_retry[1] /\ Len(tx_retry) \in Nat \ {0}
      /\ tx_retry' \in Seq(Ids) /\ Len(tx_retry') = Len(tx_retry) - 1
      /\ \A n \in 1 .. Len(tx_retry') : tx_retry'[n] = tx_retry[n + 1]
      /\ \A x : Waits(x)' <=> Waits(x) /\ x # id
  BY <1>1, RetryPopped
<1>3. \A n \in 1 .. Len(tx_retry') : n + 1 \in 1 .. Len(tx_retry) /\ tx_retry'[n] = tx_retry[n + 1]
  BY <1>2
<1>4. 1 \in 1 .. Len(tx_retry) /\ i \in Queues
  BY <1>1, <1>2, StageTypes
<1>5. ~Queued(id) /\ super[id].kind.queue = i /\ Waits(id)
  BY <1>1, <1>2, <1>4 DEF RetryApart, RetryDrained, Waits
<1>6. super \in [Ids -> Supers]
  BY <1>1, SuperTypes
<1> HIDE DEF id
<1>7. /\ Added(id, i)
      /\ tx_queue' \in [Queues -> Seq(Entries)]
      /\ super' \in [Ids -> Supers] /\ Kept(super, super')
      /\ ampdu_prev' \in [Queues -> Ids \cup {NULL}]
      /\ ampdu_prev'[i] \in {id, NULL}
      /\ \A p \in Queues \ {i} : ampdu_prev'[p] = ampdu_prev[p]
  BY <1>1, <1>2, <1>5, <1>6, PutAdds
<1>8. \A x \in Ids : super'[x].kind = super[x].kind
  BY <1>7 DEF Kept
<1>9. /\ \A x : Queued(x)' <=> Queued(x) \/ x = id
      /\ \A p \in Queues : \A x : Has(p, x)' <=> Has(p, x) \/ (p = i /\ x = id)
  BY <1>1, <1>2, <1>4, <1>7, AddedPlaces
<1>10. TypeOK'
  BY <1>1, <1>2, <1>7 DEF TypeOK, Supers, Entries
<1>11. QueuesApart'
  BY <1>1, <1>2, <1>4, <1>5, <1>7, <1>8, AddedApart
<1>12. RetryApart'
  <2>1. ASSUME NEW n \in 1 .. Len(tx_retry'), NEW x, x = tx_retry'[n] PROVE ~Queued(x)'
    <3>1. Waits(x)'
      BY <2>1 DEF Waits
    <3>2. Waits(x) /\ x # id
      BY <1>2, <3>1
    <3>3. ~Queued(x)
      BY <1>1, <3>2 DEF Waits, RetryApart
    <3> QED
      BY <1>9, <3>2, <3>3
  <2>2. ASSUME NEW n \in 1 .. Len(tx_retry'), NEW m \in 1 .. Len(tx_retry'),
               tx_retry'[m] = tx_retry'[n]
        PROVE  m = n
    <3>1. /\ m + 1 \in 1 .. Len(tx_retry) /\ n + 1 \in 1 .. Len(tx_retry)
          /\ tx_retry[m + 1] = tx_retry[n + 1]
      BY <1>3, <2>2
    <3>2. m + 1 = n + 1
      BY <1>1, <3>1 DEF RetryApart
    <3> QED
      BY <3>2
  <2> QED
    BY <2>1, <2>2 DEF RetryApart, Queued, Has
<1>13. RetryDrained'
  <2>1. \A n \in 1 .. Len(tx_retry) : super[tx_retry[n]].kind.queue = i /\ tx_retry[n] \in Ids
    BY <1>1, RetryTypes DEF RetryDrained
  <2>2. \A n \in 1 .. Len(tx_retry') : super'[tx_retry'[n]].kind.queue = i
    BY <1>3, <1>8, <2>1
  <2>3. i' = i /\ stage'[1] = "retry"
    BY <1>1 DEF i
  <2> QED
    BY <2>2, <2>3 DEF RetryDrained
<1>14. OnItsWay' /\ ReportedOnce'
  <2>1. \A x : (Queued(x) \/ Waits(x))' <=> Queued(x) \/ Waits(x)
    BY <1>2, <1>5, <1>9
  <2> QED
    BY <1>1, <2>1 DEF OnItsWay, ReportedOnce
<1>15. BarsCounted'
  <2>1. \A x \in 1 .. posted : x \in Ids
    BY <1>1, StageTypes DEF Ids
  <2>2. Bars' = Bars
    BY <1>1, <1>8, <2>1 DEF Bars
  <2> QED
    BY <1>1, <2>2 DEF Inv, BarsCounted, Bars
<1>16. PrevLive'
  <2>1. ASSUME NEW q \in Queues, ampdu_prev'[q] # NULL
        PROVE  \E m \in 1 .. Len(tx_queue'[q]) : tx_queue'[q][m].id = ampdu_prev'[q]
    <3>1. CASE q = i
      <4>1. Len(tx_queue[i]) \in Nat
        BY <1>1, <1>4, QueueTypes
      <4>2. /\ Len(tx_queue[i]) + 1 \in 1 .. Len(tx_queue'[i])
            /\ tx_queue'[i][Len(tx_queue[i]) + 1].id = id
        BY <1>7, <4>1 DEF Added, Entry
      <4> QED
        BY <1>7, <2>1, <3>1, <4>2
    <3>2. CASE q # i
      <4>1. ampdu_prev'[q] = ampdu_prev[q] /\ tx_queue'[q] = tx_queue[q] /\ stage # <<"status", q>>
        BY <1>1, <1>7, <3>2 DEF Added
      <4> QED
        BY <2>1, <4>1 DEF Inv, PrevLive, Has
    <3> QED
      BY <3>1, <3>2
  <2> QED
    BY <2>1 DEF PrevLive, Has
<1> QED
  BY <1>10, <1>11, <1>12, <1>13, <1>14, <1>15, <1>16 DEF Inv, PlaceInv

(* wlan_tx_ampdu_end, and on to the next queue.                            *)
LEMMA RetryEndKeeps ==
  ASSUME Inv, RetryEnd
  PROVE  Inv'
<1>1. /\ TypeOK /\ stage[1] = "retry" /\ tx_retry = <<>> /\ i \in Queues
      /\ super' = EndAggregate(super, ampdu_prev[i])
      /\ UNCHANGED <<tx_queue, tx_retry, queued_bar, queued_ba, available, txc, posted, bars, air, reports>>
  BY StageTypes DEF Inv, PlaceInv, RetryEnd, ba, hist
<1>2. /\ ampdu_prev' \in [Queues -> Ids \cup {NULL}] /\ ampdu_prev'[i] = NULL
      /\ \A q \in Queues \ {i} : ampdu_prev'[q] = ampdu_prev[q]
  BY <1>1 DEF RetryEnd, TypeOK
<1>3. super' \in [Ids -> Supers] /\ \A x \in Ids : super'[x].kind = super[x].kind
  <2>1. super \in [Ids -> Supers] /\ ampdu_prev[i] \in Ids \cup {NULL}
    BY <1>1, SuperTypes DEF TypeOK
  <2> QED
    BY <1>1, <2>1, EndAggregateKept DEF Kept
<1>4. engine' \in [Queues -> {"idle", "busy", "halted"}]
  BY <1>1, EngineTypes DEF RetryEnd, TypeOK
<1>5. stage' \in ({"status", "retry"} \X Queues) \cup ({"wlan", "janitor", "host"} \X {0})
  <2>1. i # 0 => i - 1 \in Queues
    BY <1>1, TxPathAssumption DEF Queues
  <2> QED
    BY <2>1 DEF RetryEnd
<1>6. TypeOK'
  BY <1>1, <1>2, <1>3, <1>4, <1>5 DEF TypeOK, Supers
<1>7. RetryDrained'
  <2>1. Len(tx_retry) = 0
    BY <1>1, RetryTypes
  <2> QED
    BY <1>1, <2>1 DEF RetryDrained
<1>8. PrevLive'
  <2>1. ASSUME NEW q \in Queues, ampdu_prev'[q] # NULL
        PROVE  \E m \in 1 .. Len(tx_queue[q]) : tx_queue[q][m].id = ampdu_prev'[q]
    <3>1. ampdu_prev'[q] = ampdu_prev[q] /\ stage # <<"status", q>>
      BY <1>1, <1>2, <2>1
    <3> QED
      BY <2>1, <3>1 DEF Inv, PrevLive, Has
  <2> QED
    BY <1>1, <2>1 DEF PrevLive, Has
<1>9. SameIds
  BY <1>1 DEF SameIds
<1> QED
  BY <1>1, <1>3, <1>6, <1>7, <1>8, <1>9, QuietStep
-----------------------------------------------------------------------------
LEMMA InvInit == Init => Inv
<1> SUFFICES ASSUME Init PROVE Inv
  OBVIOUS
<1>1. NewSuper(BaKind) \in Supers
  BY NewSuperTypes
<1>2. /\ NumQueues \in Nat \ {0} /\ MaxRix \in Nat /\ MaxBas \in Nat /\ MaxFrames \in Nat
      /\ MaxBars \in Nat /\ 0 \in 0 .. MaxFrames /\ 0 \in 0 .. MaxBas /\ 0 \in 0 .. MaxBars
  BY TxPathAssumption
<1>3. /\ tx_queue \in [Queues -> Seq(Entries)] /\ \A q \in Queues : tx_queue[q] = <<>>
      /\ tx_retry = <<>> /\ tx_retry \in Seq(Ids)
      /\ reports \in [Ids -> Seq(BOOLEAN)] /\ \A id \in Ids : reports[id] = <<>>
      /\ posted = 0 /\ queued_bar = 0 /\ available = TRUE
  BY <1>2 DEF Init
<1>4. TypeOK
  <2>1. super \in [Ids -> Supers] /\ ampdu_prev \in [Queues -> Ids \cup {NULL}]
    BY <1>1 DEF Init
  <2>2. air \in [Ids -> [0 .. MaxRix -> Nat]] /\ engine \in [Queues -> {"idle", "busy", "halted"}]
    BY DEF Init
  <2>3. stage \in {"wlan", "janitor", "host"} \X {0} /\ queued_ba = 0 /\ bars = 0 /\ txc = FALSE
    BY DEF Init
  <2> QED
    BY <1>2, <1>3, <2>1, <2>2, <2>3 DEF TypeOK, Supers, Entries
<1>5. /\ \A q \in Queues : Len(tx_queue[q]) = 0
      /\ Len(tx_retry) = 0 /\ \A id \in Ids : Len(reports[id]) = 0
  BY <1>3
<1>6. \A x : ~Queued(x) /\ ~Waits(x)
  BY <1>5 DEF Queued, Has, Waits
<1>7. QueuesApart /\ RetryApart /\ RetryDrained
  BY <1>5 DEF QueuesApart, RetryApart, RetryDrained
<1>8. OnItsWay /\ ReportedOnce
  <2>1. \A id \in Ids \ {BA} : ~(id <= posted)
    BY <1>2, <1>3 DEF Ids, BA
  <2> QED
    BY <1>3, <1>5, <1>6, <2>1 DEF OnItsWay, ReportedOnce
<1>9. BarsCounted
  <2>1. Bars = {}
    BY <1>3 DEF Bars
  <2> QED
    BY <1>3, <2>1, FS_EmptySet DEF BarsCounted, Bars
<1>10. PrevLive
  BY DEF Init, PrevLive
<1> QED
  BY <1>4, <1>7, <1>8, <1>9, <1>10 DEF Inv, PlaceInv

LEMMA Stuttered ==
  ASSUME Inv, UNCHANGED vars
  PROVE  Inv'
<1>1. UNCHANGED <<super, tx_queue, tx_retry, ampdu_prev, queued_bar, queued_ba, available,
                  txc, engine, stage, posted, bars, air, reports>>
  BY DEF vars, fw, ba, hist
<1>2. TypeOK' /\ RetryDrained' /\ PrevLive'
  BY <1>1 DEF Inv, PlaceInv, TypeOK, RetryDrained, PrevLive, Has, i
<1>3. SameIds
  BY <1>1 DEF SameIds
<1> QED
  BY <1>1, <1>2, <1>3, QuietStep

LEMMA InvNext == Inv /\ [Next]_vars => Inv'
<1> SUFFICES ASSUME Inv, [Next]_vars PROVE Inv'
  OBVIOUS
<1>1. CASE MainLoop
  BY <1>1, HandleWlanKeeps, JanitorKeeps, DownloadKeeps, ClippedKeeps, DownloadEndKeeps
     DEF MainLoop
<1>2. CASE TxCompletion
  BY <1>2, StatusRearmKeeps, StatusRetryKeeps, StatusDoneKeeps, StatusEndKeeps,
     RetryNextKeeps, RetryEndKeeps DEF TxCompletion
<1>3. CASE Mac
  BY <1>3, MacIdleKeeps, MacSendKeeps DEF Mac
<1>4. CASE UNCHANGED vars
  BY <1>4, Stuttered
<1> QED
  BY <1>1, <1>2, <1>3, <1>4 DEF Next
-----------------------------------------------------------------------------
(* How often a frame is at a place where nothing is twice.                 *)
LEMMA AtMostOnce ==
  ASSUME NEW S, \A x \in S, y \in S : x = y
  PROVE  Cardinality(S) = IF S = {} THEN 0 ELSE 1
<1>1. CASE S = {}
  BY <1>1, FS_EmptySet
<1>2. CASE S # {}
  <2>1. PICK x : x \in S
    BY <1>2
  <2>2. S = {x}
    BY <2>1
  <2> QED
    BY <1>2, <2>2, FS_Singleton
<1> QED
  BY <1>1, <1>2

LEMMA RetryOnce ==
  ASSUME Inv, NEW id
  PROVE  Cardinality(InRetry(id)) = IF Waits(id) THEN 1 ELSE 0
<1>1. \A x \in InRetry(id), y \in InRetry(id) : x = y
  BY DEF InRetry, Inv, PlaceInv, RetryApart
<1>2. InRetry(id) = {} <=> ~Waits(id)
  BY DEF InRetry, Waits
<1> QED
  BY <1>1, <1>2, AtMostOnce

(* Every frame is at one place.                                            *)
LEMMA InvAtOnePlace == Inv => FrameAtOnePlace
<1> SUFFICES ASSUME Inv, NEW id \in 1 .. posted
             PROVE  Len(reports[id]) + Cardinality(InRetry(id))
                      + Cardinality(InQueue(super[id].kind.queue, id)) = 1
  BY DEF FrameAtOnePlace
<1> DEFINE q == super[id].kind.queue
<1>1. /\ TypeOK /\ QueuesApart /\ RetryApart /\ OnItsWay /\ ReportedOnce
      /\ posted \in Nat /\ posted <= MaxFrames /\ MaxFrames \in Nat
  BY StageTypes DEF Inv, PlaceInv
<1>2. id \in Ids \ {BA} /\ id <= posted
  BY <1>1 DEF Ids, BA
<1>3. q \in Queues
  BY <1>1, <1>2, SuperTypes
<1>4. Queued(id) <=> Has(q, id)
  <2>1. ASSUME NEW p \in Queues, Has(p, id) PROVE p = q
    BY <1>1, <2>1 DEF Has, QueuesApart
  <2> QED
    BY <1>3, <2>1 DEF Queued
<1> HIDE DEF q
<1>5. Cardinality(InQueue(q, id)) = IF Queued(id) THEN 1 ELSE 0
  <2>1. \A x \in InQueue(q, id), y \in InQueue(q, id) : x = y
    BY <1>1, <1>3 DEF InQueue, QueuesApart
  <2>2. InQueue(q, id) = {} <=> ~Queued(id)
    BY <1>4 DEF InQueue, Has
  <2> QED
    BY <2>1, <2>2, AtMostOnce
<1>6. Cardinality(InRetry(id)) = IF Waits(id) THEN 1 ELSE 0
  BY RetryOnce
<1>7. ~(Queued(id) /\ Waits(id))
  BY <1>1 DEF RetryApart, Waits
<1>8. Queued(id) \/ Waits(id) <=> reports[id] = <<>>
  BY <1>1, <1>2 DEF OnItsWay
<1>9. reports[id] \in Seq(BOOLEAN) /\ Len(reports[id]) <= 1
  BY <1>1, <1>2 DEF TypeOK, ReportedOnce
<1>10. Len(reports[id]) = IF reports[id] = <<>> THEN 0 ELSE 1
  BY <1>9
<1>11. Cardinality(InQueue(super[id].kind.queue, id)) = Cardinality(InQueue(q, id))
  BY DEF q
<1> QED
  BY <1>5, <1>6, <1>7, <1>8, <1>10, <1>11

(* The firmware's own frame is sent exactly while its descriptor is taken. *)
LEMMA InvFwDesc == Inv => FwDescExclusive
<1> SUFFICES ASSUME Inv PROVE FwDescExclusive
  OBVIOUS
<1> DEFINE S == UNION {{<<q, n>> : n \in InQueue(q, BA)} : q \in Queues}
<1>1. QueuesApart /\ RetryApart /\ OnItsWay
  BY DEF Inv, PlaceInv
<1>2. \A x : x \in S <=> \E q \in Queues : \E n \in InQueue(q, BA) : x = <<q, n>>
  OBVIOUS
<1>3. \A x \in S, y \in S : x = y
  <2> SUFFICES ASSUME NEW x \in S, NEW y \in S PROVE x = y
    OBVIOUS
  <2>1. PICK p \in Queues : \E m \in InQueue(p, BA) : x = <<p, m>>
    BY <1>2
  <2>2. PICK m \in InQueue(p, BA) : x = <<p, m>>
    BY <2>1
  <2>3. PICK q \in Queues : \E n \in InQueue(q, BA) : y = <<q, n>>
    BY <1>2
  <2>4. PICK n \in InQueue(q, BA) : y = <<q, n>>
    BY <2>3
  <2> HIDE DEF S
  <2>a. m \in 1 .. Len(tx_queue[p]) /\ tx_queue[p][m].id = BA
    BY DEF InQueue
  <2>b. n \in 1 .. Len(tx_queue[q]) /\ tx_queue[q][n].id = BA
    BY DEF InQueue
  <2>c. p = super[BA].kind.queue
    BY <1>1, <2>a DEF QueuesApart
  <2>d. q = super[BA].kind.queue
    BY <1>1, <2>b DEF QueuesApart
  <2>5. p = q
    BY <2>c, <2>d
  <2>6. m = n
    BY <1>1, <2>a, <2>b, <2>5 DEF QueuesApart
  <2> QED
    BY <2>2, <2>4, <2>5, <2>6
<1>4. S = {} <=> ~Queued(BA)
  BY <1>2 DEF InQueue, Queued, Has
<1>5. Cardinality(S) = IF Queued(BA) THEN 1 ELSE 0
  <2> HIDE DEF S
  <2> QED
    BY <1>3, <1>4, AtMostOnce
<1>6. Cardinality(InRetry(BA)) = IF Waits(BA) THEN 1 ELSE 0
  BY RetryOnce
<1>7. ~(Queued(BA) /\ Waits(BA))
  BY <1>1 DEF RetryApart, Waits
<1>8. Queued(BA) \/ Waits(BA) <=> ~available
  BY <1>1 DEF OnItsWay
<1>9. Cardinality(S) + Cardinality(InRetry(BA)) = IF available THEN 0 ELSE 1
  <2> HIDE DEF S
  <2> QED
    BY <1>5, <1>6, <1>7, <1>8
<1> QED
  BY <1>9 DEF FwDescExclusive

LEMMA InvKeptIsLive == Inv => KeptIsLive
<1> SUFFICES ASSUME Inv PROVE AmpduPrevLive
  BY InvFwDesc DEF KeptIsLive
<1>1. ASSUME NEW q \in Queues, ampdu_prev[q] # NULL, stage # <<"status", q>>
      PROVE  InQueue(q, ampdu_prev[q]) # {}
  <2>1. Has(q, ampdu_prev[q])
    BY <1>1 DEF Inv, PrevLive
  <2> QED
    BY <2>1 DEF Has, InQueue
<1> QED
  BY <1>1 DEF AmpduPrevLive

LEMMA InvHolds == Spec => []Inv
<1>1. Init => Inv
  BY InvInit
<1>2. Inv /\ [Next]_vars => Inv'
  BY InvNext
<1> QED
  BY <1>1, <1>2, PTL DEF Spec

(* Super frames, queues, engines and counters have their types.            *)
THEOREM TypeCorrect == Spec => []TypeOK
<1>1. Inv => TypeOK
  BY DEF Inv, PlaceInv
<1> QED
  BY <1>1, InvHolds, PTL

(* wlan_tx_ampdu, wlan_send_tx_ba: ampdu_prev leads to a frame that is in  *)
(* its queue, unless handle_tx_completion is freeing frames there and does *)
(* not look, and the firmware's own descriptor is in a queue, once,        *)
(* exactly while it is taken.                                              *)
THEOREM KeptLive == Spec => []KeptIsLive
<1>1. Inv => KeptIsLive
  BY InvKeptIsLive
<1> QED
  BY <1>1, InvHolds, PTL
-----------------------------------------------------------------------------
(* How far a frame with superframe s has come, when it was on the air a[r] *)
(* times at rate r, and n times at its present one.                        *)
Progress(s, a, n) ==
  /\ s.rix < Len(s.kind.tries)
  /\ s.cnt <= Allowed(s.kind, s.rix)
  /\ a[s.rix] = n
  /\ \A r \in 0 .. MaxRix :
       (r < s.rix => a[r] = Allowed(s.kind, r)) /\ (r > s.rix => a[r] = 0)

(* The MAC is done with the frame.                                         *)
Sent(id) ==
  \E q \in Queues : \E n \in 1 .. Len(tx_queue[q]) :
    tx_queue[q][n].id = id /\ tx_queue[q][n].own = "SW"

(* A frame of the host before it was sent, on its way, and reported.       *)
Attempts(id) ==
  /\ id > posted => \A r \in 0 .. MaxRix : air[id][r] = 0
  /\ id <= posted /\ reports[id] = <<>> /\ Sent(id) =>
       Progress(super[id], air[id], super[id].cnt)
  /\ id <= posted /\ reports[id] = <<>> /\ ~Sent(id) =>
       Progress(super[id], air[id], super[id].cnt - 1)
  /\ id <= posted /\ reports[id] # <<>> =>
       \A r \in 0 .. MaxRix : air[id][r] <= Allowed(super[id].kind, r)
  /\ id <= posted /\ reports[id] = <<FALSE>> =>
       \/ \A r \in 0 .. MaxRix : air[id][r] = 0
       \/ \A r \in 0 .. MaxRix : air[id][r] = Allowed(super[id].kind, r)

AttemptInv == \A id \in Ids \ {BA} : Attempts(id)

LEMMA AllowedFacts ==
  ASSUME NEW k \in Kinds \cup {BaKind}, NEW r \in 0 .. MaxRix
  PROVE  /\ Allowed(k, r) \in Nat
         /\ r < Len(k.tries) => /\ Allowed(k, r) >= 1
                                /\ k.tries[r + 1] \in Nat
                                /\ Allowed(k, r) = IF k.tries[r + 1] = 0 THEN 1 ELSE k.tries[r + 1]
         /\ r >= Len(k.tries) => Allowed(k, r) = 0
<1>1. Len(k.tries) \in Nat /\ r \in Nat
  BY KindFacts, TxPathAssumption
<1>2. CASE r < Len(k.tries)
  <2>1. r + 1 \in 1 .. Len(k.tries)
    BY <1>1, <1>2
  <2>2. k.tries[r + 1] \in Nat
    BY <2>1, KindFacts
  <2> QED
    BY <1>1, <1>2, <2>2 DEF Allowed
<1>3. CASE r >= Len(k.tries)
  BY <1>1, <1>3 DEF Allowed
<1> QED
  BY <1>1, <1>2, <1>3

(* A new frame was never on the air.                                       *)
LEMMA ProgressNew ==
  ASSUME NEW s \in Supers, s.rix = 0, s.cnt = 1, NEW a, \A r \in 0 .. MaxRix : a[r] = 0
  PROVE  Progress(s, a, s.cnt - 1)
<1>1. s.kind \in Kinds \cup {BaKind}
  BY DEF Supers
<1>2. 0 \in 0 .. MaxRix /\ 0 < Len(s.kind.tries)
  BY <1>1, KindFacts, TxPathAssumption
<1>3. Allowed(s.kind, 0) >= 1 /\ Allowed(s.kind, 0) \in Nat
  BY <1>1, <1>2, AllowedFacts
<1> QED
  BY <1>2, <1>3 DEF Progress

(* One more time on the air.                                               *)
LEMMA ProgressSent ==
  ASSUME NEW s \in Supers, NEW a, Progress(s, a, s.cnt - 1), NEW b,
         b[s.rix] = a[s.rix] + 1, \A r \in 0 .. MaxRix : r # s.rix => b[r] = a[r]
  PROVE  Progress(s, b, s.cnt)
<1>1. s.cnt \in Nat /\ s.rix \in Nat /\ MaxRix \in Nat
  BY TxPathAssumption DEF Supers
<1>2. b[s.rix] = s.cnt
  BY <1>1 DEF Progress
<1> QED
  BY <1>1, <1>2 DEF Progress

(* At the end of a rate its tries are used up.                             *)
LEMMA RateUsedUp ==
  ASSUME NEW s \in Supers, NEW a, Progress(s, a, s.cnt), ~OneMore(s)
  PROVE  s.cnt = Allowed(s.kind, s.rix)
<1>1. s.cnt \in Nat \ {0} /\ s.rix \in 0 .. MaxRix /\ s.kind \in Kinds \cup {BaKind}
  BY DEF Supers
<1>2. s.rix < Len(s.kind.tries) /\ s.cnt <= Allowed(s.kind, s.rix)
  BY DEF Progress
<1>3. /\ s.kind.tries[s.rix + 1] \in Nat
      /\ Allowed(s.kind, s.rix) = IF s.kind.tries[s.rix + 1] = 0 THEN 1
                                  ELSE s.kind.tries[s.rix + 1]
  BY <1>1, <1>2, AllowedFacts
<1>4. s.cnt >= s.kind.tries[s.rix + 1]
  <2>1. Tries(s) = s.kind.tries[s.rix + 1]
    BY <1>2 DEF Tries
  <2> QED
    BY <1>1, <1>3, <2>1 DEF OneMore
<1>5. CASE s.kind.tries[s.rix + 1] = 0
  BY <1>1, <1>2, <1>3, <1>5
<1>6. CASE s.kind.tries[s.rix + 1] # 0
  BY <1>1, <1>2, <1>3, <1>4, <1>6
<1> QED
  BY <1>5, <1>6

(* wlan_tx_consume_retry.                                                  *)
LEMMA ProgressRetried ==
  ASSUME NEW s \in Supers, NEW a, Progress(s, a, s.cnt), CanRetry(s)
  PROVE  Progress(ConsumeRetry(s), a, ConsumeRetry(s).cnt - 1)
<1>1. /\ s.cnt \in Nat \ {0} /\ s.rix \in 0 .. MaxRix /\ MaxRix \in Nat
      /\ s.kind \in Kinds \cup {BaKind}
  BY TxPathAssumption DEF Supers
<1>2. s.rix < Len(s.kind.tries) /\ s.cnt <= Allowed(s.kind, s.rix) /\ a[s.rix] = s.cnt
  BY DEF Progress
<1>3. CASE OneMore(s)
  <2>1. /\ ConsumeRetry(s).kind = s.kind /\ ConsumeRetry(s).rix = s.rix
        /\ ConsumeRetry(s).cnt = s.cnt + 1
    BY <1>3 DEF ConsumeRetry, Supers
  <2>2. s.cnt < s.kind.tries[s.rix + 1] /\ s.kind.tries[s.rix + 1] \in Nat
    BY <1>1, <1>2, <1>3, AllowedFacts DEF OneMore, Tries
  <2>3. s.cnt + 1 <= Allowed(s.kind, s.rix)
    <3> DEFINE t == s.kind.tries[s.rix + 1]
    <3>1. Allowed(s.kind, s.rix) = IF t = 0 THEN 1 ELSE t
      BY <1>1, <1>2, AllowedFacts
    <3>2. s.cnt < t /\ t \in Nat
      BY <2>2
    <3> HIDE DEF t
    <3>3. Allowed(s.kind, s.rix) = t
      BY <1>1, <3>1, <3>2
    <3> QED
      BY <1>1, <3>2, <3>3
  <2>4. (s.cnt + 1) - 1 = s.cnt
    BY <1>1
  <2> QED
    BY <1>2, <2>1, <2>3, <2>4 DEF Progress
<1>4. CASE ~OneMore(s)
  <2>1. s.rix + 1 \in 0 .. MaxRix /\ s.rix + 1 < Len(s.kind.tries)
    BY <1>1, <1>4 DEF CanRetry, NextRate
  <2>2. /\ ConsumeRetry(s).kind = s.kind /\ ConsumeRetry(s).rix = s.rix + 1
        /\ ConsumeRetry(s).cnt = 1
    <3> DEFINE a2 == s.kind.ampdu[s.rix + 2]
    <3>1. ConsumeRetry(s) = [s EXCEPT !.rix = s.rix + 1, !.cnt = 1, !.ampdu = a2]
      BY <1>4 DEF ConsumeRetry
    <3> HIDE DEF a2
    <3> QED
      BY <3>1 DEF Supers
  <2>3. Allowed(s.kind, s.rix + 1) >= 1 /\ Allowed(s.kind, s.rix + 1) \in Nat
    BY <1>1, <2>1, AllowedFacts
  <2>4. a[s.rix] = Allowed(s.kind, s.rix)
    BY <1>2, <1>4, RateUsedUp
  <2>5. a[s.rix + 1] = 0
    BY <1>1, <2>1 DEF Progress
  <2>6. ASSUME NEW r \in 0 .. MaxRix
        PROVE  (r < s.rix + 1 => a[r] = Allowed(s.kind, r)) /\ (r > s.rix + 1 => a[r] = 0)
    <3>1. r < s.rix + 1 => r < s.rix \/ r = s.rix
      BY <1>1
    <3>2. r > s.rix + 1 => r > s.rix
      BY <1>1
    <3> QED
      BY <2>4, <3>1, <3>2 DEF Progress
  <2> QED
    BY <2>1, <2>2, <2>3, <2>5, <2>6 DEF Progress
<1> QED
  BY <1>3, <1>4

(* A frame without a further try used all it had, and never more.          *)
LEMMA ProgressEnd ==
  ASSUME NEW s \in Supers, NEW a, Progress(s, a, s.cnt)
  PROVE  /\ \A r \in 0 .. MaxRix : a[r] <= Allowed(s.kind, r)
         /\ ~CanRetry(s) => \A r \in 0 .. MaxRix : a[r] = Allowed(s.kind, r)
<1>1. /\ s.cnt \in Nat \ {0} /\ s.rix \in 0 .. MaxRix /\ MaxRix \in Nat
      /\ s.kind \in Kinds \cup {BaKind}
  BY TxPathAssumption DEF Supers
<1>2. s.cnt <= Allowed(s.kind, s.rix) /\ a[s.rix] = s.cnt
  BY DEF Progress
<1>3. \A r \in 0 .. MaxRix : Allowed(s.kind, r) \in Nat
  BY <1>1, AllowedFacts
<1>4. ASSUME NEW r \in 0 .. MaxRix PROVE a[r] <= Allowed(s.kind, r)
  <2>1. CASE r = s.rix
    BY <1>2, <2>1
  <2>2. CASE r < s.rix
    BY <1>3, <2>2 DEF Progress
  <2>3. CASE r > s.rix
    BY <1>3, <2>3 DEF Progress
  <2> QED
    BY <1>1, <2>1, <2>2, <2>3
<1>5. ASSUME ~CanRetry(s), NEW r \in 0 .. MaxRix PROVE a[r] = Allowed(s.kind, r)
  <2>1. CASE r = s.rix
    BY <1>2, <1>5, <2>1, RateUsedUp DEF CanRetry
  <2>2. CASE r < s.rix
    BY <2>2 DEF Progress
  <2>3. CASE r > s.rix
    <3>1. s.rix # MaxRix
      BY <1>1, <2>3
    <3>2. ~(s.rix + 1 < Len(s.kind.tries)) /\ Len(s.kind.tries) \in Nat
      BY <1>1, <1>5, <3>1, KindFacts DEF CanRetry, NextRate
    <3>3. r >= Len(s.kind.tries)
      BY <1>1, <2>3, <3>2
    <3>4. Allowed(s.kind, r) = 0
      BY <1>1, <3>3, AllowedFacts
    <3> QED
      BY <2>3, <3>4 DEF Progress
  <2> QED
    BY <1>1, <2>1, <2>2, <2>3
<1> QED
  BY <1>4, <1>5

(* The MAC is done with the same frames when a frame it has yet to send    *)
(* comes, and when one leaves; a frame that leaves the MAC's hands is.     *)
LEMMA AddedSent ==
  ASSUME TypeOK, NEW id \in Ids, NEW q \in Queues, Added(id, q), NEW x
  PROVE  Sent(x)' <=> Sent(x)
<1>1. Len(tx_queue[q]) \in Nat
  BY QueueTypes
<1>2. Entry(id).own # "SW"
  BY DEF Entry
<1>3. ASSUME Sent(x) PROVE Sent(x)'
  <2>1. PICK p \in Queues : \E n \in 1 .. Len(tx_queue[p]) : tx_queue[p][n].id = x /\ tx_queue[p][n].own = "SW"
    BY <1>3 DEF Sent
  <2>2. \E n \in 1 .. Len(tx_queue'[p]) : tx_queue'[p][n].id = x /\ tx_queue'[p][n].own = "SW"
    <3>1. CASE p = q
      BY <1>1, <2>1, <3>1 DEF Added
    <3>2. CASE p # q
      BY <2>1, <3>2 DEF Added
    <3> QED
      BY <3>1, <3>2
  <2> QED
    BY <2>2 DEF Sent
<1>4. ASSUME Sent(x)' PROVE Sent(x)
  <2>1. PICK p \in Queues : \E n \in 1 .. Len(tx_queue'[p]) : tx_queue'[p][n].id = x /\ tx_queue'[p][n].own = "SW"
    BY <1>4 DEF Sent
  <2>2. \E n \in 1 .. Len(tx_queue[p]) : tx_queue[p][n].id = x /\ tx_queue[p][n].own = "SW"
    <3>1. CASE p = q
      BY <1>1, <1>2, <2>1, <3>1 DEF Added
    <3>2. CASE p # q
      BY <2>1, <3>2 DEF Added
    <3> QED
      BY <3>1, <3>2
  <2> QED
    BY <2>2 DEF Sent
<1> QED
  BY <1>3, <1>4

LEMMA RemovedSent ==
  ASSUME TypeOK, QueuesApart, NEW q \in Queues, Removed(q), NEW x, x # tx_queue[q][1].id
  PROVE  Sent(x)' <=> Sent(x)
<1>1. Len(tx_queue[q]) \in Nat
  BY QueueTypes
<1>2. ASSUME Sent(x) PROVE Sent(x)'
  <2>1. PICK p \in Queues : \E n \in 1 .. Len(tx_queue[p]) : tx_queue[p][n].id = x /\ tx_queue[p][n].own = "SW"
    BY <1>2 DEF Sent
  <2>2. PICK n \in 1 .. Len(tx_queue[p]) : tx_queue[p][n].id = x /\ tx_queue[p][n].own = "SW"
    BY <2>1
  <2>3. CASE p # q
    <3>1. tx_queue'[p] = tx_queue[p]
      BY <2>3 DEF Removed
    <3> QED
      BY <2>2, <3>1 DEF Sent
  <2>4. CASE p = q
    <3>1. n # 1
      BY <2>2, <2>4
    <3>2. n - 1 \in 1 .. Len(tx_queue'[q]) /\ (n - 1) + 1 = n
      BY <1>1, <2>2, <2>4, <3>1 DEF Removed
    <3>3. tx_queue'[q][n - 1] = tx_queue[q][n]
      BY <3>2 DEF Removed
    <3> QED
      BY <2>2, <2>4, <3>2, <3>3 DEF Sent
  <2> QED
    BY <2>3, <2>4
<1>3. ASSUME Sent(x)' PROVE Sent(x)
  <2>1. PICK p \in Queues : \E n \in 1 .. Len(tx_queue'[p]) : tx_queue'[p][n].id = x /\ tx_queue'[p][n].own = "SW"
    BY <1>3 DEF Sent
  <2>2. PICK n \in 1 .. Len(tx_queue'[p]) : tx_queue'[p][n].id = x /\ tx_queue'[p][n].own = "SW"
    BY <2>1
  <2>3. CASE p # q
    <3>1. tx_queue'[p] = tx_queue[p]
      BY <2>3 DEF Removed
    <3> QED
      BY <2>2, <3>1 DEF Sent
  <2>4. CASE p = q
    <3>1. n + 1 \in 1 .. Len(tx_queue[q]) /\ tx_queue'[q][n] = tx_queue[q][n + 1]
      BY <1>1, <2>2, <2>4 DEF Removed
    <3> QED
      BY <2>2, <2>4, <3>1 DEF Sent
  <2> QED
    BY <2>3, <2>4
<1> QED
  BY <1>2, <1>3

LEMMA RemarkedSent ==
  ASSUME QueuesApart, NEW q \in Queues, NEW n \in 1 .. Len(tx_queue[q]), NEW e,
         e.id = tx_queue[q][n].id, SameIds, Remarked(q, n, e)
  PROVE  /\ Sent(e.id)' <=> e.own = "SW"
         /\ \A x : x # e.id => (Sent(x)' <=> Sent(x))
<1>1. /\ Len(tx_queue'[q]) = Len(tx_queue[q])
      /\ tx_queue'[q][n] = e
      /\ \A m \in 1 .. Len(tx_queue[q]) : m # n => tx_queue'[q][m] = tx_queue[q][m]
      /\ \A p \in Queues \ {q} : tx_queue'[p] = tx_queue[p]
  BY DEF Remarked
<1>2. \A p \in Queues : \A m \in 1 .. Len(tx_queue'[p]) :
        tx_queue'[p][m].id = e.id => p = q /\ m = n
  <2> SUFFICES ASSUME NEW p \in Queues, NEW m \in 1 .. Len(tx_queue'[p]),
                      tx_queue'[p][m].id = e.id
               PROVE  p = q /\ m = n
    OBVIOUS
  <2>1. m \in 1 .. Len(tx_queue[p]) /\ tx_queue[p][m].id = tx_queue[q][n].id
    BY <1>1 DEF SameIds
  <2>2. p = q
    BY <2>1 DEF QueuesApart
  <2> QED
    BY <2>1, <2>2 DEF QueuesApart
<1>3. Sent(e.id)' <=> e.own = "SW"
  <2>1. Sent(e.id)' <=> \E p \in Queues : \E m \in 1 .. Len(tx_queue'[p]) :
                          tx_queue'[p][m].id = e.id /\ tx_queue'[p][m].own = "SW"
    BY DEF Sent
  <2> QED
    BY <1>1, <1>2, <2>1
<1>4. ASSUME NEW x, x # e.id PROVE Sent(x)' <=> Sent(x)
  <2>1. \A p \in Queues : \A m \in 1 .. Len(tx_queue[p]) :
          tx_queue[p][m].id = x => tx_queue'[p][m] = tx_queue[p][m]
    BY <1>1, <1>4
  <2>2. \A p \in Queues : \A m \in 1 .. Len(tx_queue'[p]) :
          tx_queue'[p][m].id = x => tx_queue'[p][m] = tx_queue[p][m] /\ m \in 1 .. Len(tx_queue[p])
    BY <1>1, <1>4
  <2>3. \A p \in Queues : Len(tx_queue'[p]) = Len(tx_queue[p])
    BY <1>1 DEF SameIds
  <2> QED
    BY <2>1, <2>2, <2>3 DEF Sent
<1> QED
  BY <1>3, <1>4

(* A frame nothing happens to.                                             *)
LEMMA AttemptsKept ==
  ASSUME NEW id \in Ids, Attempts(id),
         super'[id].kind = super[id].kind, super'[id].rix = super[id].rix,
         super'[id].cnt = super[id].cnt,
         air'[id] = air[id], reports'[id] = reports[id], Sent(id)' <=> Sent(id),
         id <= posted' <=> id <= posted, id > posted' => id > posted
  PROVE  Attempts(id)'
BY DEF Attempts, Progress

(* Steps without a frame on the air, a retry or a report.                  *)
LEMMA NoAttempt ==
  ASSUME AttemptInv, Kept(super, super'), UNCHANGED <<air, reports, posted>>,
         \A x : Sent(x)' <=> Sent(x)
  PROVE  AttemptInv'
<1>1. ASSUME NEW id \in Ids \ {BA} PROVE Attempts(id)'
  BY AttemptsKept DEF AttemptInv, Kept
<1> QED
  BY <1>1 DEF AttemptInv

LEMMA NoMove ==
  ASSUME AttemptInv, UNCHANGED <<super, tx_queue, air, reports, posted>>
  PROVE  AttemptInv'
<1>1. Kept(super, super')
  BY DEF Kept
<1>2. \A x : Sent(x)' <=> Sent(x)
  BY DEF Sent
<1> QED
  BY <1>1, <1>2, NoAttempt

LEMMA NotSentYet ==
  ASSUME AttemptInv, NEW id \in Ids \ {BA}, id > posted
  PROVE  \A r \in 0 .. MaxRix : air[id][r] = 0
<1>1. Attempts(id)
  BY DEF AttemptInv
<1> QED
  BY <1>1 DEF Attempts

(* A frame of the host that is in a queue is on its way.                   *)
LEMMA QueuedOnWay ==
  ASSUME Inv, NEW id \in Ids \ {BA}, Queued(id)
  PROVE  id <= posted /\ ~(id > posted) /\ reports[id] = <<>> /\ reports[id] # <<FALSE>>
<1>1. id <= posted /\ reports[id] = <<>>
  BY DEF Inv, PlaceInv, OnItsWay
<1>2. id \in Nat /\ posted \in Nat
  BY StageTypes DEF Inv, PlaceInv, Ids
<1>3. <<>> # <<FALSE>>
  OBVIOUS
<1> QED
  BY <1>1, <1>2, <1>3

LEMMA SentQueued ==
  ASSUME NEW id, Sent(id)
  PROVE  Queued(id)
BY DEF Sent, Queued, Has

LEMMA JanitorAttempts ==
  ASSUME Inv, AttemptInv, Janitor
  PROVE  AttemptInv'
<1>1. /\ TypeOK /\ OnItsWay /\ stage[1] \notin {"status", "retry"}
      /\ UNCHANGED <<posted, air, reports>>
  BY DEF Inv, PlaceInv, Janitor, hist
<1>2. CASE queued_ba > 0 /\ available
  <2>1. WlanTx(BA, BaKind)
    BY <1>2 DEF Janitor, FwDescFree
  <2>2. BA \in Ids /\ BaKind \in Kinds \cup {BaKind} /\ ~Queued(BA)
    BY <1>1, <1>2, StageTypes DEF OnItsWay
  <2>3. /\ BaKind.queue \in Queues /\ Added(BA, BaKind.queue)
        /\ \A x \in Ids \ {BA} : /\ super'[x].kind = super[x].kind /\ super'[x].rix = super[x].rix
                                 /\ super'[x].cnt = super[x].cnt
    BY <1>1, <2>1, <2>2, WlanTxAdds
  <2>4. \A x : Sent(x)' <=> Sent(x)
    BY <1>1, <2>2, <2>3, AddedSent
  <2>5. ASSUME NEW id \in Ids \ {BA} PROVE Attempts(id)'
    BY <1>1, <2>3, <2>4, AttemptsKept DEF AttemptInv
  <2> QED
    BY <2>5 DEF AttemptInv
<1>3. CASE ~ (queued_ba > 0 /\ available)
  <2>1. UNCHANGED <<super, tx_queue>>
    BY <1>3 DEF Janitor, FwDescFree
  <2> QED
    BY <1>1, <2>1, NoMove
<1> QED
  BY <1>2, <1>3

LEMMA DownloadAttempts ==
  ASSUME Inv, AttemptInv, NEW k \in Kinds, Download(k)
  PROVE  AttemptInv'
<1>0. PICK id : id = posted + 1
  OBVIOUS
<1>1. /\ TypeOK /\ stage[1] \notin {"status", "retry"}
      /\ posted < MaxFrames /\ posted' = id /\ WlanTx(id, k)
      /\ UNCHANGED <<air, reports>>
  BY <1>0 DEF Inv, PlaceInv, Download
<1>2. /\ id \in Ids \ {BA} /\ posted \in Nat /\ ~Queued(id) /\ reports[id] = <<>>
  BY <1>0, <1>1, NextFrame
<1>3. \A x \in Ids : x # id => (x <= posted' <=> x <= posted) /\ (x > posted' => x > posted)
  BY <1>0, <1>1, OneFrameMore
<1>4. id > posted /\ ~(id > posted')
  BY <1>0, <1>1, <1>2
<1>5. /\ k.queue \in Queues /\ Added(id, k.queue) /\ super' \in [Ids -> Supers]
      /\ super'[id].rix = 0 /\ super'[id].cnt = 1
      /\ \A x \in Ids \ {id} : /\ super'[x].kind = super[x].kind /\ super'[x].rix = super[x].rix
                               /\ super'[x].cnt = super[x].cnt
  BY <1>1, <1>2, WlanTxAdds
<1>6. \A x : Sent(x)' <=> Sent(x)
  BY <1>1, <1>2, <1>5, AddedSent
<1>7. Attempts(id)'
  <2>1. \A r \in 0 .. MaxRix : air'[id][r] = 0
    <3>1. \A r \in 0 .. MaxRix : air[id][r] = 0
      BY <1>2, <1>4, NotSentYet
    <3>2. air' = air
      BY <1>1
    <3> QED
      BY <3>1, <3>2
  <2>2. super'[id] \in Supers
    BY <1>2, <1>5
  <2>3. Progress(super'[id], air'[id], super'[id].cnt - 1)
    BY <1>5, <2>1, <2>2, ProgressNew
  <2>4. ~Sent(id)'
    BY <1>2, <1>6, SentQueued
  <2>5. reports'[id] = <<>> /\ reports'[id] # <<FALSE>>
    BY <1>1, <1>2
  <2> QED
    BY <1>4, <2>3, <2>4, <2>5 DEF Attempts
<1>8. ASSUME NEW x \in Ids \ {BA}, x # id PROVE Attempts(x)'
  <2>1. Attempts(x) /\ x \in Ids \ {id} /\ (Sent(x)' <=> Sent(x))
    BY <1>6, <1>8 DEF AttemptInv
  <2>2. (x <= posted' <=> x <= posted) /\ (x > posted' => x > posted)
    BY <1>3, <1>8
  <2>3. /\ super'[x].kind = super[x].kind /\ super'[x].rix = super[x].rix
        /\ super'[x].cnt = super[x].cnt /\ air'[x] = air[x] /\ reports'[x] = reports[x]
    BY <1>1, <1>5, <2>1
  <2> QED
    BY <2>1, <2>2, <2>3, AttemptsKept
<1> QED
  BY <1>7, <1>8 DEF AttemptInv

LEMMA ClippedAttempts ==
  ASSUME Inv, AttemptInv, DownloadClipped
  PROVE  AttemptInv'
<1>0. PICK id : id = posted + 1
  OBVIOUS
<1>1. /\ TypeOK /\ posted < MaxFrames /\ posted' = id
      /\ reports' = [reports EXCEPT ![id] = Append(reports[id], FALSE)]
      /\ UNCHANGED <<super, tx_queue, air>>
  BY <1>0 DEF Inv, PlaceInv, DownloadClipped, fw
<1>2. /\ id \in Ids \ {BA} /\ posted \in Nat /\ reports[id] = <<>>
  BY <1>0, <1>1, NextFrame
<1>3. \A x \in Ids : x # id => (x <= posted' <=> x <= posted) /\ (x > posted' => x > posted)
  BY <1>0, <1>1, OneFrameMore
<1>4. id > posted /\ ~(id > posted')
  BY <1>0, <1>1, <1>2
<1>5. reports'[id] # <<>> /\ \A x \in Ids \ {id} : reports'[x] = reports[x]
  BY <1>1, <1>2 DEF TypeOK
<1>6. \A x : Sent(x)' <=> Sent(x)
  BY <1>1 DEF Sent
<1>7. Attempts(id)'
  <2>1. \A r \in 0 .. MaxRix : air'[id][r] = 0
    <3>1. \A r \in 0 .. MaxRix : air[id][r] = 0
      BY <1>2, <1>4, NotSentYet
    <3>2. air' = air
      BY <1>1
    <3> QED
      BY <3>1, <3>2
  <2>2. \A r \in 0 .. MaxRix : Allowed(super'[id].kind, r) \in Nat
    BY <1>1, <1>2, SuperTypes, AllowedFacts
  <2>3. \A r \in 0 .. MaxRix : air'[id][r] <= Allowed(super'[id].kind, r)
    BY <2>1, <2>2
  <2> QED
    BY <1>4, <1>5, <2>1, <2>3 DEF Attempts
<1>8. ASSUME NEW x \in Ids \ {BA}, x # id PROVE Attempts(x)'
  <2>1. Attempts(x) /\ x \in Ids \ {id} /\ (Sent(x)' <=> Sent(x))
    BY <1>6, <1>8 DEF AttemptInv
  <2>2. (x <= posted' <=> x <= posted) /\ (x > posted' => x > posted)
    BY <1>3, <1>8
  <2>3. /\ super'[x].kind = super[x].kind /\ super'[x].rix = super[x].rix
        /\ super'[x].cnt = super[x].cnt /\ air'[x] = air[x] /\ reports'[x] = reports[x]
    BY <1>1, <1>5, <2>1
  <2> QED
    BY <2>1, <2>2, <2>3, AttemptsKept
<1> QED
  BY <1>7, <1>8 DEF AttemptInv

(* A frame in front of its queue that the MAC is done with.                *)
LEMMA FrontSent ==
  ASSUME Inv, AttemptInv, Finished, NEW id, id = tx_queue[i][1].id, id # BA
  PROVE  /\ id \in Ids \ {BA} /\ Sent(id)
         /\ id <= posted /\ ~(id > posted) /\ reports[id] = <<>> /\ reports[id] # <<FALSE>>
         /\ super[id] \in Supers
         /\ Progress(super[id], air[id], super[id].cnt)
<1>1. TypeOK
  BY DEF Inv, PlaceInv
<1>2. /\ i \in Queues /\ 1 \in 1 .. Len(tx_queue[i]) /\ first = tx_queue[i][1] /\ first.own = "SW"
      /\ id \in Ids \ {BA} /\ Queued(id) /\ super[id] \in Supers
  BY <1>1, FinishedFront DEF first
<1>3. Sent(id)
  BY <1>2 DEF Sent
<1>4. id <= posted /\ ~(id > posted) /\ reports[id] = <<>> /\ reports[id] # <<FALSE>>
  BY <1>2, QueuedOnWay
<1>5. Attempts(id)
  BY <1>2 DEF AttemptInv
<1>6. Progress(super[id], air[id], super[id].cnt)
  BY <1>3, <1>4, <1>5 DEF Attempts
<1> QED
  BY <1>2, <1>3, <1>4, <1>6

(* One frame gets another try, the others stay as they are.                *)
LEMMA RetriedAttempts ==
  ASSUME Inv, AttemptInv, Finished, NEW id, id = tx_queue[i][1].id, CanRetry(super[id]),
         super' = [super EXCEPT ![id] = ConsumeRetry(@)],
         UNCHANGED <<posted, air, reports>>,
         ~Sent(id)', \A x : x # id => (Sent(x)' <=> Sent(x))
  PROVE  AttemptInv'
<1>1. TypeOK
  BY DEF Inv, PlaceInv
<1>2. id \in Ids
  BY <1>1, FinishedFront DEF first
<1>3. super'[id] = ConsumeRetry(super[id]) /\ \A x \in Ids \ {id} : super'[x] = super[x]
  BY <1>1, <1>2, ConsumedSuper
<1>4. ASSUME NEW x \in Ids \ {BA}, x # id PROVE Attempts(x)'
  <2>1. Attempts(x) /\ super'[x] = super[x] /\ (Sent(x)' <=> Sent(x))
    BY <1>3, <1>4 DEF AttemptInv
  <2> QED
    BY <2>1, AttemptsKept
<1>5. ASSUME id # BA PROVE Attempts(id)'
  <2>1. /\ ~(id > posted) /\ reports[id] = <<>> /\ reports[id] # <<FALSE>>
        /\ super[id] \in Supers /\ Progress(super[id], air[id], super[id].cnt)
    BY <1>5, FrontSent
  <2>2. Progress(super'[id], air'[id], super'[id].cnt - 1)
    BY <1>3, <2>1, ProgressRetried
  <2> QED
    BY <2>1, <2>2 DEF Attempts
<1> QED
  BY <1>4, <1>5 DEF AttemptInv

LEMMA StatusRearmAttempts ==
  ASSUME Inv, AttemptInv, StatusRearm
  PROVE  AttemptInv'
<1>1. /\ TypeOK /\ QueuesApart /\ Finished /\ CanRetry(super[first.id])
      /\ super' = [super EXCEPT ![first.id] = ConsumeRetry(@)]
      /\ tx_queue' = [tx_queue EXCEPT ![i][1] = Entry(first.id)]
      /\ UNCHANGED <<posted, air, reports>>
  BY DEF Inv, PlaceInv, StatusRearm, hist
<1>2. PICK id : id = tx_queue[i][1].id
  OBVIOUS
<1>3. /\ i \in Queues /\ 1 \in 1 .. Len(tx_queue[i]) /\ first.id = id /\ id \in Ids
  BY <1>1, <1>2, FinishedFront DEF first
<1>4. PICK e : e = Entry(id)
  OBVIOUS
<1>5. e \in Entries /\ e.id = id /\ e.own # "SW"
  BY <1>3, <1>4 DEF Entry, Entries
<1>6. tx_queue' = [tx_queue EXCEPT ![i][1] = e]
  BY <1>1, <1>3, <1>4
<1>7. ~Sent(id)' /\ \A x : x # id => (Sent(x)' <=> Sent(x))
  <2>0. SameIds /\ Remarked(i, 1, e)
    <3>1. /\ TypeOK /\ i \in Queues /\ 1 \in 1 .. Len(tx_queue[i]) /\ e \in Entries
          /\ e.id = tx_queue[i][1].id
      BY <1>1, <1>2, <1>3, <1>5
    <3> QED
      BY <1>6, <3>1, SentEntry
  <2>1. Sent(e.id)' <=> e.own = "SW"
    BY <1>1, <1>2, <1>3, <1>5, <2>0, RemarkedSent
  <2>2. \A x : x # e.id => (Sent(x)' <=> Sent(x))
    BY <1>1, <1>2, <1>3, <1>5, <2>0, RemarkedSent
  <2>3. e.id = id
    BY <1>5
  <2>4. ~Sent(id)'
    BY <1>5, <2>1, <2>3
  <2> QED
    BY <2>2, <2>3, <2>4
<1>8. CanRetry(super[id]) /\ super' = [super EXCEPT ![id] = ConsumeRetry(@)]
  BY <1>1, <1>3
<1> QED
  BY <1>1, <1>2, <1>7, <1>8, RetriedAttempts

(* A frame that leaves its queue.                                          *)
LEMMA LeftQueue ==
  ASSUME Inv, Finished, NEW id, id = tx_queue[i][1].id, tx_queue' = Unlinked
  PROVE  ~Sent(id)' /\ \A x : x # id => (Sent(x)' <=> Sent(x))
<1>1. TypeOK /\ QueuesApart
  BY DEF Inv, PlaceInv
<1>2. i \in Queues /\ tx_queue[i] # <<>>
  BY <1>1, FinishedFront
<1>3. Removed(i)
  BY <1>1, <1>2, UnlinkedRemoves
<1>4. ~Queued(id)'
  BY <1>1, <1>2, <1>3, RemovedPlaces
<1>5. ~Sent(id)'
  BY <1>4 DEF Sent, Queued, Has
<1>6. \A x : x # id => (Sent(x)' <=> Sent(x))
  BY <1>1, <1>2, <1>3, RemovedSent
<1> QED
  BY <1>5, <1>6

LEMMA StatusRetryAttempts ==
  ASSUME Inv, AttemptInv, StatusRetry
  PROVE  AttemptInv'
<1>1. PICK id : id = tx_queue[i][1].id
  OBVIOUS
<1>2. /\ Finished /\ first.id = id /\ CanRetry(super[id])
      /\ super' = [super EXCEPT ![id] = ConsumeRetry(@)]
      /\ tx_queue' = Unlinked
      /\ UNCHANGED <<posted, air, reports>>
  BY <1>1 DEF StatusRetry, hist, first
<1>3. ~Sent(id)' /\ \A x : x # id => (Sent(x)' <=> Sent(x))
  BY <1>1, <1>2, LeftQueue
<1> QED
  BY <1>1, <1>2, <1>3, RetriedAttempts

LEMMA StatusDoneAttempts ==
  ASSUME Inv, AttemptInv, StatusDone
  PROVE  AttemptInv'
<1>1. PICK id : id = tx_queue[i][1].id
  OBVIOUS
<1>2. PICK success : success = (first.fail = "no")
  OBVIOUS
<1>3. /\ TypeOK /\ Finished /\ first.id = id
      /\ success \/ ~CanRetry(super[id])
      /\ tx_queue' = Unlinked
      /\ UNCHANGED <<super, posted, air>>
  BY <1>1, <1>2 DEF Inv, PlaceInv, StatusDone, first
<1>4. \/ id = BA /\ reports' = reports
      \/ id # BA /\ reports' = [reports EXCEPT ![id] = Append(reports[id], success)]
  BY <1>2, <1>3 DEF StatusDone
<1>5. ~Sent(id)' /\ \A x : x # id => (Sent(x)' <=> Sent(x))
  BY <1>1, <1>3, LeftQueue
<1>6. id \in Ids
  BY <1>1, <1>3, FinishedFront DEF first
<1>7. \A x \in Ids \ {id} : reports'[x] = reports[x]
  BY <1>3, <1>4, <1>6 DEF TypeOK
<1>8. ASSUME NEW x \in Ids \ {BA}, x # id PROVE Attempts(x)'
  <2>1. Attempts(x) /\ reports'[x] = reports[x] /\ (Sent(x)' <=> Sent(x))
    BY <1>5, <1>7, <1>8 DEF AttemptInv
  <2> QED
    BY <1>3, <2>1, AttemptsKept
<1>9. ASSUME id # BA PROVE Attempts(id)'
  <2>1. /\ id \in Ids \ {BA} /\ ~(id > posted) /\ reports[id] = <<>>
        /\ super[id] \in Supers /\ Progress(super[id], air[id], super[id].cnt)
    BY <1>1, <1>3, <1>9, FrontSent
  <2>2. reports'[id] = Append(reports[id], success)
    BY <1>3, <1>4, <1>9, <2>1 DEF TypeOK
  <2>3. reports'[id] = <<success>> /\ reports'[id] # <<>>
    BY <2>1, <2>2
  <2>4. \A r \in 0 .. MaxRix : air[id][r] <= Allowed(super[id].kind, r)
    BY <2>1, ProgressEnd
  <2>5. CASE ~CanRetry(super[id])
    <3>1. \A r \in 0 .. MaxRix : air[id][r] = Allowed(super[id].kind, r)
      BY <2>1, <2>5, ProgressEnd
    <3> QED
      BY <1>3, <2>1, <2>3, <2>4, <3>1 DEF Attempts
  <2>6. CASE success
    <3>1. reports'[id] # <<FALSE>>
      <4>1. success = TRUE
        BY <1>2, <2>6
      <4>2. reports'[id] = <<TRUE>>
        BY <2>3, <4>1
      <4>3. <<TRUE>> # <<FALSE>>
        <5>1. <<TRUE>>[1] = TRUE /\ <<FALSE>>[1] = FALSE
          OBVIOUS
        <5> QED
          BY <5>1, Zenon
      <4> QED
        BY <4>2, <4>3, Zenon
    <3> QED
      BY <1>3, <2>1, <2>3, <2>4, <3>1 DEF Attempts
  <2> QED
    BY <1>3, <2>5, <2>6
<1> QED
  BY <1>8, <1>9 DEF AttemptInv

LEMMA RetryNextAttempts ==
  ASSUME Inv, AttemptInv, RetryNext
  PROVE  AttemptInv'
<1>1. PICK id : id = Head(tx_retry)
  OBVIOUS
<1>2. /\ TypeOK /\ RetryApart /\ tx_retry # <<>> /\ Put(super, id) /\ tx_retry' = Tail(tx_retry)
      /\ UNCHANGED <<posted, air, reports>>
  BY <1>1 DEF Inv, PlaceInv, RetryNext, hist
<1>3. id \in Ids
  BY <1>1, <1>2, RetryPopped
<1>4. super \in [Ids -> Supers]
  BY <1>2, SuperTypes
<1>5. PICK q : q = super[id].kind.queue
  OBVIOUS
<1>6. q \in Queues /\ Added(id, q) /\ Kept(super, super')
  BY <1>2, <1>3, <1>4, <1>5, PutAdds
<1>7. \A x : Sent(x)' <=> Sent(x)
  BY <1>2, <1>3, <1>6, AddedSent
<1> QED
  BY <1>2, <1>6, <1>7, NoAttempt

LEMMA RetryEndAttempts ==
  ASSUME Inv, AttemptInv, RetryEnd
  PROVE  AttemptInv'
<1>1. /\ TypeOK /\ i \in Queues /\ super' = EndAggregate(super, ampdu_prev[i])
      /\ UNCHANGED <<tx_queue, posted, air, reports>>
  BY StageTypes DEF Inv, PlaceInv, RetryEnd, hist
<1>2. super \in [Ids -> Supers] /\ ampdu_prev[i] \in Ids \cup {NULL}
  BY <1>1, SuperTypes DEF TypeOK
<1>3. Kept(super, super')
  BY <1>1, <1>2, EndAggregateKept
<1>4. \A x : Sent(x)' <=> Sent(x)
  BY <1>1 DEF Sent
<1> QED
  BY <1>1, <1>3, <1>4, NoAttempt

LEMMA MacSendAttempts ==
  ASSUME Inv, AttemptInv, NEW q \in Queues, NEW fail \in {"no", "tx", "ba"}, MacSend(q, fail)
  PROVE  AttemptInv'
<1>0. TypeOK /\ QueuesApart
  BY DEF Inv, PlaceInv
<1>1. PICK n \in Current(q) :
        LET id == tx_queue[q][n].id
            e == [tx_queue[q][n] EXCEPT !.own = "SW", !.fail = fail]
        IN  /\ n \in 1 .. Len(tx_queue[q]) /\ id \in Ids
            /\ tx_queue[q][n].own = "HW"
            /\ \A m \in 1 .. n - 1 : tx_queue[q][m].own = "SW"
            /\ e \in Entries /\ e.id = id /\ e.own = "SW" /\ e.fail = fail
            /\ fail = "ba" => super[id].ampdu
            /\ tx_queue' = [tx_queue EXCEPT ![q][n] = e]
            /\ air' = [air EXCEPT ![id][super[id].rix] = air[id][super[id].rix] + 1]
  BY <1>0, MacSends
<1>2. PICK id : id = tx_queue[q][n].id
  OBVIOUS
<1>3. PICK e : e = [tx_queue[q][n] EXCEPT !.own = "SW", !.fail = fail]
  OBVIOUS
<1>4. /\ n \in 1 .. Len(tx_queue[q]) /\ id \in Ids /\ tx_queue[q][n].own = "HW"
      /\ e \in Entries /\ e.id = id /\ e.own = "SW"
      /\ tx_queue' = [tx_queue EXCEPT ![q][n] = e]
      /\ air' = [air EXCEPT ![id][super[id].rix] = air[id][super[id].rix] + 1]
  BY <1>1, <1>2, <1>3
<1>5. UNCHANGED <<super, posted, reports>>
  BY DEF MacSend
<1>6. SameIds /\ Remarked(q, n, e)
  BY <1>0, <1>2, <1>4, SentEntry
<1>7. Sent(id)' /\ \A x : x # id => (Sent(x)' <=> Sent(x))
  <2>0. n \in 1 .. Len(tx_queue[q]) /\ e.id = tx_queue[q][n].id
    BY <1>2, <1>4
  <2>1. Sent(e.id)' <=> e.own = "SW"
    BY <1>0, <1>6, <2>0, RemarkedSent
  <2>2. \A x : x # e.id => (Sent(x)' <=> Sent(x))
    BY <1>0, <1>6, <2>0, RemarkedSent
  <2>3. e.id = id
    BY <1>4
  <2>4. Sent(id)'
    BY <1>4, <2>1, <2>3
  <2> QED
    BY <2>2, <2>3, <2>4
<1>8. PICK r : r = super[id].rix
  OBVIOUS
<1>9. r \in 0 .. MaxRix /\ super[id] \in Supers
  BY <1>0, <1>4, <1>8, SuperTypes
<1>10. /\ air'[id][r] = air[id][r] + 1
       /\ \A x \in 0 .. MaxRix : x # r => air'[id][x] = air[id][x]
       /\ \A x \in Ids \ {id} : air'[x] = air[x]
  <2>1. air' = [air EXCEPT ![id][r] = air[id][r] + 1]
    BY <1>4, <1>8
  <2>2. air'[id][r] = air[id][r] + 1
    BY <1>0, <1>4, <1>9, <2>1, SentAir
  <2>3. \A x \in 0 .. MaxRix : x # r => air'[id][x] = air[id][x]
    BY <1>0, <1>4, <1>9, <2>1, SentAir
  <2>4. \A x \in Ids \ {id} : air'[x] = air[x]
    BY <1>0, <1>4, <1>9, <2>1, SentAir
  <2> QED
    BY <2>2, <2>3, <2>4
<1>11. ASSUME NEW x \in Ids \ {BA}, x # id PROVE Attempts(x)'
  <2>1. Attempts(x) /\ air'[x] = air[x] /\ (Sent(x)' <=> Sent(x))
    BY <1>7, <1>10, <1>11 DEF AttemptInv
  <2> QED
    BY <1>5, <2>1, AttemptsKept
<1>12. ASSUME id # BA PROVE Attempts(id)'
  <2>1. Queued(id)
    BY <1>2, <1>4 DEF Queued, Has
  <2>2. id \in Ids \ {BA} /\ id <= posted /\ ~(id > posted) /\ reports[id] = <<>> /\ reports[id] # <<FALSE>>
    BY <1>4, <1>12, <2>1, QueuedOnWay
  <2>3. ~Sent(id)
    <3>1. ASSUME NEW p \in Queues, NEW m \in 1 .. Len(tx_queue[p]), tx_queue[p][m].id = id
          PROVE  tx_queue[p][m].own = "HW"
      <4>0. n \in 1 .. Len(tx_queue[q]) /\ QueuesApart
        BY <1>0, <1>4
      <4>1. p = q
        <5>1. super[tx_queue[p][m].id].kind.queue = p
          BY <4>0 DEF QueuesApart
        <5>2. super[tx_queue[q][n].id].kind.queue = q
          BY <4>0 DEF QueuesApart
        <5> QED
          BY <1>2, <3>1, <5>1, <5>2
      <4>2. m = n
        BY <1>2, <3>1, <4>0, <4>1 DEF QueuesApart
      <4> QED
        BY <1>4, <4>1, <4>2
    <3> QED
      BY <3>1 DEF Sent
  <2>4. Progress(super[id], air[id], super[id].cnt - 1)
    <3>1. Attempts(id)
      BY <2>2 DEF AttemptInv
    <3> QED
      BY <2>2, <2>3, <3>1 DEF Attempts
  <2>5. Progress(super[id], air'[id], super[id].cnt)
    BY <1>8, <1>9, <1>10, <2>4, ProgressSent
  <2> QED
    BY <1>5, <1>7, <2>2, <2>5 DEF Attempts
<1> QED
  BY <1>11, <1>12 DEF AttemptInv

LEMMA AttemptsInit == Init => AttemptInv
<1> SUFFICES ASSUME Init, NEW id \in Ids \ {BA} PROVE Attempts(id)
  BY DEF AttemptInv
<1>1. id > posted /\ ~(id <= posted)
  BY TxPathAssumption DEF Init, Ids, BA
<1>2. \A r \in 0 .. MaxRix : air[id][r] = 0
  BY DEF Init
<1> QED
  BY <1>1, <1>2 DEF Attempts

LEMMA AttemptsNext == Inv /\ AttemptInv /\ [Next]_vars => AttemptInv'
<1> SUFFICES ASSUME Inv, AttemptInv, [Next]_vars PROVE AttemptInv'
  OBVIOUS
<1>1. CASE MainLoop
  <2>1. ASSUME NEW n \in 0 .. MaxBars - bars, HandleWlan(n) PROVE AttemptInv'
    BY <2>1, NoMove DEF HandleWlan, fw
  <2>2. CASE DownloadEnd
    BY <2>2, NoMove DEF DownloadEnd, fw, hist
  <2> QED
    BY <1>1, <2>1, <2>2, JanitorAttempts, DownloadAttempts, ClippedAttempts DEF MainLoop
<1>2. CASE TxCompletion
  <2>1. CASE StatusEnd
    BY <2>1, NoMove DEF StatusEnd, hist
  <2> QED
    BY <1>2, <2>1, StatusRearmAttempts, StatusRetryAttempts, StatusDoneAttempts,
       RetryNextAttempts, RetryEndAttempts DEF TxCompletion
<1>3. CASE Mac
  <2>1. ASSUME NEW q \in Queues, MacIdle(q) PROVE AttemptInv'
    BY <2>1, NoMove DEF MacIdle, fw, hist
  <2> QED
    BY <1>3, <2>1, MacSendAttempts DEF Mac
<1>4. CASE UNCHANGED vars
  BY <1>4, NoMove DEF vars, fw, hist
<1> QED
  BY <1>1, <1>2, <1>3, <1>4 DEF Next

(* Frames are sent as often as their rates allow.                          *)
LEMMA InvAttemptsAllowed == Inv /\ AttemptInv => AttemptsAllowed
<1> SUFFICES ASSUME Inv, AttemptInv, NEW id \in 1 .. posted
             PROVE  /\ \A r \in 0 .. MaxRix : air[id][r] <= Allowed(super[id].kind, r)
                    /\ reports[id] = <<FALSE>> =>
                         \/ \A r \in 0 .. MaxRix : air[id][r] = 0
                         \/ \A r \in 0 .. MaxRix : air[id][r] = Allowed(super[id].kind, r)
  BY DEF AttemptsAllowed
<1>1. TypeOK /\ posted \in Nat /\ posted <= MaxFrames /\ MaxFrames \in Nat
  BY StageTypes DEF Inv, PlaceInv
<1>2. id \in Ids \ {BA} /\ id <= posted
  BY <1>1 DEF Ids, BA
<1>3. Attempts(id) /\ super[id] \in Supers
  BY <1>1, <1>2, SuperTypes DEF AttemptInv
<1>4. CASE reports[id] # <<>>
  BY <1>2, <1>3, <1>4 DEF Attempts
<1>5. CASE reports[id] = <<>>
  <2>1. reports[id] # <<FALSE>>
    BY <1>5
  <2>2. CASE Sent(id)
    <3>1. Progress(super[id], air[id], super[id].cnt)
      BY <1>2, <1>3, <1>5, <2>2 DEF Attempts
    <3> QED
      BY <1>3, <2>1, <3>1, ProgressEnd
  <2>3. CASE ~Sent(id)
    <3>1. Progress(super[id], air[id], super[id].cnt - 1)
      BY <1>2, <1>3, <1>5, <2>3 DEF Attempts
    <3>2. super[id].cnt \in Nat /\ super[id].rix \in 0 .. MaxRix /\ super[id].kind \in Kinds \cup {BaKind}
      BY <1>3 DEF Supers
    <3>3. ASSUME NEW r \in 0 .. MaxRix PROVE air[id][r] <= Allowed(super[id].kind, r)
      <4>1. Allowed(super[id].kind, r) \in Nat /\ r \in Nat /\ super[id].rix \in Nat
        BY <3>2, AllowedFacts, TxPathAssumption
      <4>2. CASE r = super[id].rix
        BY <3>1, <3>2, <4>1, <4>2 DEF Progress
      <4>3. CASE r < super[id].rix
        BY <3>1, <4>1, <4>3 DEF Progress
      <4>4. CASE r > super[id].rix
        BY <3>1, <4>1, <4>4 DEF Progress
      <4> QED
        BY <4>1, <4>2, <4>3, <4>4
    <3> QED
      BY <2>1, <3>3
  <2> QED
    BY <2>2, <2>3
<1> QED
  BY <1>4, <1>5

(* wlan_tx, wlan_tx_consume_retry, __wlan_tx: every frame is at one place, *)
(* none stays in tx_retry, the BlockAckReqs are counted, and no frame is   *)
(* on the air more often than its rates allow.                             *)
THEOREM FramesCounted == Spec => []FramesAccounted
<1>1. Init => Inv /\ AttemptInv
  BY InvInit, AttemptsInit
<1>2. (Inv /\ AttemptInv) /\ [Next]_vars => (Inv /\ AttemptInv)'
  BY InvNext, AttemptsNext
<1>3. Inv /\ AttemptInv => FramesAccounted
  BY InvAtOnePlace, InvAttemptsAllowed DEF FramesAccounted, Inv, PlaceInv
<1> QED
  BY <1>1, <1>2, <1>3, PTL DEF Spec
-----------------------------------------------------------------------------
(* The hang check: what the timer compares, and what wlan_mac_reset does.  *)

(* The frame at the MAC.                                                   *)
LEMMA AtTheMac ==
  ASSUME TypeOK, NEW q \in Queues
  PROVE  /\ \A n \in Current(q) : n \in 1 .. Len(tx_queue[q]) /\ tx_queue[q][n].own = "HW"
         /\ \A m, n \in Current(q) : m = n
         /\ Payload(q) = NULL <=> Current(q) = {}
         /\ \A n \in Current(q) : tx_queue[q][n].id = Payload(q)
         /\ Payload(q) \in Ids \cup {NULL}
         /\ tx_queue[q] = <<>> => Current(q) = {}
<1>1. \A n \in Current(q) :
        /\ n \in 1 .. Len(tx_queue[q]) /\ tx_queue[q][n].own = "HW"
        /\ \A m \in 1 .. n - 1 : tx_queue[q][m].own = "SW"
  BY DEF Current
<1>2. ASSUME NEW m \in Current(q), NEW n \in Current(q) PROVE m = n
  <2>1. ~(m \in 1 .. n - 1) /\ ~(n \in 1 .. m - 1)
    <3>1. "HW" # "SW"
      OBVIOUS
    <3> QED
      BY <1>1, <3>1
  <2>2. m \in Nat \ {0} /\ n \in Nat \ {0}
    BY <1>1, QueueTypes
  <2> QED
    BY <2>1, <2>2
<1>3. tx_queue[q] = <<>> => Current(q) = {}
  BY <1>1, QueueTypes
<1>4. CASE Current(q) = {}
  BY <1>1, <1>3, <1>4 DEF Payload
<1>5. CASE Current(q) # {}
  <2>1. PICK n : n = CHOOSE m \in Current(q) : TRUE
    OBVIOUS
  <2>2. n \in Current(q)
    BY <1>5, <2>1
  <2>3. Payload(q) = tx_queue[q][n].id
    BY <1>5, <2>1 DEF Payload
  <2>4. Payload(q) \in Ids /\ Payload(q) # NULL
    BY <1>1, <2>2, <2>3, QueueTypes, StageTypes
  <2>5. \A m \in Current(q) : tx_queue[q][m].id = Payload(q)
    BY <1>2, <2>2, <2>3
  <2> QED
    BY <1>1, <1>2, <1>3, <1>5, <2>4, <2>5
<1> QED
  BY <1>4, <1>5

(* While a tick counts on, the frame it has seen is still in its queue:    *)
(* the MAC is done with it, or has had it for as many ticks as counted.    *)
Watched(q) ==
  \/ last_super_num[q] = 0
  \/ last_super[q] = NULL
  \/ \E n \in 1 .. Len(tx_queue[q]) :
       /\ tx_queue[q][n].id = last_super[q]
       /\ \/ tx_queue[q][n].own = "SW"
          \/ n \in Current(q) /\ (last_super_num[q] <= age[q] \/ age[q] = TxMacReset)

(* A frame that was killed: it has no tries left, and where it is in a     *)
(* queue it has failed.                                                    *)
Dead(id) ==
  /\ id <= posted /\ ~Waits(id)
  /\ super[id].cnt = MaxRateTries /\ super[id].rix = MaxRix
  /\ \A q \in Queues : \A n \in 1 .. Len(tx_queue[q]) :
       tx_queue[q][n].id = id => tx_queue[q][n].own = "SW" /\ tx_queue[q][n].fail = "ba"
  /\ reports[id] \in {<<>>, <<FALSE>>}

HangInv ==
  /\ Inv
  /\ HangTypeOK
  /\ \A q \in Queues : Watched(q)
  /\ \A k \in killed : k[1] # BA => Dead(k[1])
  /\ KilledOnlyWhenHung

LEMMA WatchedKept ==
  ASSUME NEW q \in Queues, Watched(q), tx_queue'[q] = tx_queue[q], last_super'[q] = last_super[q],
         last_super_num'[q] = last_super_num[q], age'[q] = age[q]
  PROVE  Watched(q)'
BY DEF Watched, Current

LEMMA WatchedAdded ==
  ASSUME TypeOK, NEW id \in Ids, NEW p \in Queues, Added(id, p), UNCHANGED <<last_super, last_super_num, age>>,
         NEW q \in Queues, Watched(q)
  PROVE  Watched(q)'
<1>1. CASE q # p
  BY <1>1, WatchedKept DEF Added
<1>2. CASE q = p
  <2>1. /\ Len(tx_queue[q]) \in Nat /\ Len(tx_queue'[q]) = Len(tx_queue[q]) + 1
        /\ \A n \in 1 .. Len(tx_queue[q]) : n \in 1 .. Len(tx_queue'[q]) /\ tx_queue'[q][n] = tx_queue[q][n]
    BY <1>2, QueueTypes DEF Added
  <2>2. ASSUME NEW n \in Current(q) PROVE n \in Current(q)'
    <3>1. /\ n \in 1 .. Len(tx_queue[q]) /\ tx_queue[q][n].own = "HW"
          /\ \A m \in 1 .. n - 1 : m \in 1 .. Len(tx_queue[q]) /\ tx_queue[q][m].own = "SW"
      BY <2>1 DEF Current
    <3> QED
      BY <2>1, <3>1 DEF Current
  <2>3. CASE last_super_num[q] = 0 \/ last_super[q] = NULL
    BY <2>3 DEF Watched
  <2>4. CASE ~(last_super_num[q] = 0 \/ last_super[q] = NULL)
    <3>1. PICK n \in 1 .. Len(tx_queue[q]) :
            /\ tx_queue[q][n].id = last_super[q]
            /\ \/ tx_queue[q][n].own = "SW"
               \/ n \in Current(q) /\ (last_super_num[q] <= age[q] \/ age[q] = TxMacReset)
      BY <2>4 DEF Watched
    <3>2. n \in 1 .. Len(tx_queue'[q]) /\ tx_queue'[q][n] = tx_queue[q][n]
      BY <2>1
    <3>3. n \in Current(q) => n \in Current(q)'
      BY <2>2
    <3> QED
      BY <3>1, <3>2, <3>3 DEF Watched
  <2> QED
    BY <2>3, <2>4
<1> QED
  BY <1>1, <1>2

(* The frame the MAC is done with was the one that was watched, or another *)
(* of which nothing is said.                                               *)
LEMMA WatchedSent ==
  ASSUME TypeOK, NEW p \in Queues, NEW n \in Current(p), NEW e, e.id = tx_queue[p][n].id,
         e.own = "SW", Remarked(p, n, e), UNCHANGED <<last_super, last_super_num>>,
         \A q \in Queues \ {p} : age'[q] = age[q], NEW q \in Queues, Watched(q)
  PROVE  Watched(q)'
<1>1. CASE q # p
  BY <1>1, WatchedKept DEF Remarked
<1>2. CASE q = p
  <2>1. /\ Len(tx_queue'[q]) = Len(tx_queue[q]) /\ n \in 1 .. Len(tx_queue[q]) /\ tx_queue'[q][n] = e
        /\ \A m \in 1 .. Len(tx_queue[q]) : m # n => tx_queue'[q][m] = tx_queue[q][m]
    BY <1>2, AtTheMac DEF Remarked
  <2>2. \A m \in Current(q) : m = n
    BY <1>2, AtTheMac
  <2>3. CASE last_super_num[q] = 0 \/ last_super[q] = NULL
    BY <2>3 DEF Watched
  <2>4. CASE ~(last_super_num[q] = 0 \/ last_super[q] = NULL)
    <3>1. PICK m \in 1 .. Len(tx_queue[q]) :
            /\ tx_queue[q][m].id = last_super[q]
            /\ \/ tx_queue[q][m].own = "SW"
               \/ m \in Current(q) /\ (last_super_num[q] <= age[q] \/ age[q] = TxMacReset)
      BY <2>4 DEF Watched
    <3>2. m \in 1 .. Len(tx_queue'[q])
      BY <2>1
    <3>3. tx_queue'[q][m].id = last_super[q] /\ tx_queue'[q][m].own = "SW"
      <4>1. CASE m = n
        BY <1>2, <2>1, <3>1, <4>1
      <4>2. CASE m # n
        BY <2>1, <2>2, <3>1, <4>2
      <4> QED
        BY <4>1, <4>2
    <3> QED
      BY <3>2, <3>3 DEF Watched
  <2> QED
    BY <2>3, <2>4
<1> QED
  BY <1>1, <1>2

LEMMA CheckTypes ==
  ASSUME HangTypeOK, NEW q \in Queues
  PROVE  /\ last_super[q] \in Ids \cup {NULL} /\ last_super_num[q] \in Nat
         /\ age[q] \in 0 .. TxMacReset /\ TxMacReset \in Nat \ {0}
         /\ NewSeen(q) \in Ids \cup {NULL} /\ NewCount(q) \in Nat
         /\ NewAge(q) \in 0 .. TxMacReset
<1>1. /\ last_super[q] \in Ids \cup {NULL} /\ last_super_num[q] \in Nat
      /\ age[q] \in 0 .. TxMacReset /\ TxMacReset \in Nat \ {0}
  BY TxHangAssumption DEF HangTypeOK
<1>2. Payload(q) \in Ids \cup {NULL}
  BY AtTheMac DEF HangTypeOK
<1> QED
  BY <1>1, <1>2 DEF NewSeen, NewCount, NewAge

(* A frame that is still at the MAC has been there for as many ticks as    *)
(* were counted.                                                           *)
LEMMA CountedTicks ==
  ASSUME HangTypeOK, QueuesApart, NEW q \in Queues, Watched(q), Payload(q) # NULL
  PROVE  NewCount(q) = 0 \/ NewCount(q) <= NewAge(q) \/ NewAge(q) = TxMacReset
<1>1. /\ last_super_num[q] \in Nat /\ age[q] \in 0 .. TxMacReset /\ TxMacReset \in Nat \ {0}
  BY CheckTypes
<1>2. TypeOK
  BY DEF HangTypeOK
<1>3. Current(q) # {} /\ tx_queue[q] # <<>>
  BY <1>2, AtTheMac
<1>4. CASE ~Same(q)
  BY <1>3, <1>4 DEF NewCount
<1>5. CASE Same(q)
  <2>1. /\ NewCount(q) = last_super_num[q] + 1 /\ last_super[q] = Payload(q)
        /\ NewAge(q) = IF age[q] < TxMacReset THEN age[q] + 1 ELSE TxMacReset
    BY <1>3, <1>5 DEF NewCount, Same, NewAge
  <2>2. last_super_num[q] = 0 \/ last_super_num[q] <= age[q] \/ age[q] = TxMacReset
    <3>1. CASE last_super_num[q] # 0
      <4>1. PICK n \in 1 .. Len(tx_queue[q]) :
              /\ tx_queue[q][n].id = last_super[q]
              /\ \/ tx_queue[q][n].own = "SW"
                 \/ n \in Current(q) /\ (last_super_num[q] <= age[q] \/ age[q] = TxMacReset)
        BY <2>1, <3>1 DEF Watched
      <4>2. PICK m \in Current(q) : TRUE
        BY <1>3
      <4>3. m \in 1 .. Len(tx_queue[q]) /\ tx_queue[q][m].own = "HW" /\ tx_queue[q][m].id = Payload(q)
        BY <1>2, <4>2, AtTheMac
      <4>4. m = n
        BY <2>1, <4>1, <4>3 DEF QueuesApart
      <4> QED
        BY <4>1, <4>3, <4>4
    <3> QED
      BY <3>1
  <2> QED
    BY <1>1, <2>1, <2>2
<1> QED
  BY <1>4, <1>5

(* wlan_check_hang kills nothing before its time.                          *)
LEMMA VictimAge ==
  ASSUME HangTypeOK, QueuesApart, NEW q \in Queues, Watched(q), Victim(q)
  PROVE  NewAge(q) = TxMacReset
<1>1. Payload(q) # NULL /\ NewCount(q) >= TxMacReset
  BY DEF Victim
<1>2. NewCount(q) \in Nat /\ NewAge(q) \in 0 .. TxMacReset /\ TxMacReset \in Nat \ {0}
  BY CheckTypes
<1> QED
  BY <1>1, <1>2, CountedTicks

(* A queue in which no frame was killed, after a tick.                     *)
LEMMA WatchedTicked ==
  ASSUME HangTypeOK, QueuesApart, NEW q \in Queues, Watched(q), tx_queue'[q] = tx_queue[q],
         last_super'[q] = NewSeen(q), last_super_num'[q] = NewCount(q), age'[q] = NewAge(q)
  PROVE  Watched(q)'
<1>1. TypeOK
  BY DEF HangTypeOK
<1>2. CASE tx_queue[q] = <<>>
  <2>1. Len(tx_queue[q]) = 0
    BY <1>2
  <2>2. last_super_num[q] = 0 \/ last_super[q] = NULL
    BY <2>1 DEF Watched
  <2>3. last_super_num'[q] = 0 \/ last_super'[q] = NULL
    BY <1>2, <2>2 DEF NewSeen, NewCount
  <2> QED
    BY <2>3 DEF Watched
<1>3. CASE tx_queue[q] # <<>> /\ Payload(q) = NULL
  BY <1>3 DEF NewSeen, Watched
<1>4. CASE tx_queue[q] # <<>> /\ Payload(q) # NULL
  <2>1. PICK n \in Current(q) : TRUE
    BY <1>1, <1>4, AtTheMac
  <2>2. n \in 1 .. Len(tx_queue[q]) /\ tx_queue[q][n].id = Payload(q)
    BY <1>1, <2>1, AtTheMac
  <2>3. last_super'[q] = Payload(q)
    BY <1>4 DEF NewSeen
  <2>4. last_super_num'[q] = 0 \/ last_super_num'[q] <= age'[q] \/ age'[q] = TxMacReset
    BY <1>4, CountedTicks
  <2>5. n \in Current(q)'
    BY <2>1 DEF Current
  <2> QED
    BY <2>2, <2>3, <2>4, <2>5 DEF Watched
<1> QED
  BY <1>2, <1>3, <1>4

(* The frames wlan_mac_reset kills, and those it leaves alone.             *)
Victims == {Payload(q) : q \in {p \in Queues : Victim(p)}}

LEMMA VictimFacts ==
  ASSUME TypeOK, QueuesApart
  PROVE  /\ \A x \in Victims : /\ x \in Ids /\ Victim(super[x].kind.queue)
                               /\ super[x].kind.queue \in Queues /\ Queued(x)
         /\ \A q \in Queues : ~Victim(q) =>
              \A n \in 1 .. Len(tx_queue[q]) : tx_queue[q][n].id \notin Victims
<1>1. ASSUME NEW x \in Victims
      PROVE  /\ x \in Ids /\ Victim(super[x].kind.queue)
             /\ super[x].kind.queue \in Queues /\ Queued(x)
  <2>1. PICK q \in Queues : Victim(q) /\ x = Payload(q)
    BY DEF Victims
  <2>2. x \in Ids /\ Current(q) # {}
    BY <2>1, AtTheMac DEF Victim
  <2>3. PICK n \in Current(q) : TRUE
    BY <2>2
  <2>4. n \in 1 .. Len(tx_queue[q]) /\ tx_queue[q][n].id = x
    BY <2>1, <2>3, AtTheMac
  <2>5. super[x].kind.queue = q
    BY <2>4 DEF QueuesApart
  <2> QED
    BY <2>1, <2>2, <2>4, <2>5 DEF Queued, Has
<1>2. ASSUME NEW q \in Queues, ~Victim(q), NEW n \in 1 .. Len(tx_queue[q]),
             tx_queue[q][n].id \in Victims
      PROVE  FALSE
  <2>1. Victim(super[tx_queue[q][n].id].kind.queue)
    BY <1>1, <1>2
  <2>2. super[tx_queue[q][n].id].kind.queue = q
    BY <1>2 DEF QueuesApart
  <2> QED
    BY <1>2, <2>1, <2>2
<1> QED
  BY <1>1, <1>2

(* What wlan_mac_reset does to the queues and the superframes.             *)
KilledIn(q, n) ==
  IF tx_queue[q][n].id \in Victims THEN KilledEntry(tx_queue[q][n]) ELSE tx_queue[q][n]

LEMMA ResetQueue ==
  ASSUME TypeOK, MacReset, NEW q \in Queues
  PROVE  /\ tx_queue'[q] \in Seq(Entries) /\ Len(tx_queue'[q]) = Len(tx_queue[q])
         /\ \A n \in 1 .. Len(tx_queue[q]) :
              tx_queue'[q][n] = KilledIn(q, n) /\ tx_queue'[q][n].id = tx_queue[q][n].id
<1>1. /\ tx_queue[q] \in Seq(Entries) /\ DOMAIN tx_queue[q] = 1 .. Len(tx_queue[q])
      /\ Len(tx_queue[q]) \in Nat
      /\ \A n \in 1 .. Len(tx_queue[q]) : tx_queue[q][n] \in Entries
  BY QueueTypes
<1>2. tx_queue' = [p \in Queues |-> [n \in DOMAIN tx_queue[p] |->
                    IF tx_queue[p][n].id \in Victims THEN KilledEntry(tx_queue[p][n]) ELSE tx_queue[p][n]]]
  BY DEF MacReset, Victims
<1>3. tx_queue'[q] = [n \in 1 .. Len(tx_queue[q]) |-> KilledIn(q, n)]
  BY <1>1, <1>2 DEF KilledIn
<1>4. \A e \in Entries : KilledEntry(e) \in Entries /\ KilledEntry(e).id = e.id
  BY DEF KilledEntry, Entries
<1>5. \A n \in 1 .. Len(tx_queue[q]) : KilledIn(q, n) \in Entries /\ KilledIn(q, n).id = tx_queue[q][n].id
  BY <1>1, <1>4 DEF KilledIn
<1>6. tx_queue'[q] \in [1 .. Len(tx_queue[q]) -> Entries]
  BY <1>3, <1>5
<1>7. tx_queue'[q] \in Seq(Entries) /\ Len(tx_queue'[q]) = Len(tx_queue[q])
  BY <1>1, <1>6, LenProperties
<1> QED
  BY <1>3, <1>5, <1>7

LEMMA ResetQueues ==
  ASSUME TypeOK, QueuesApart, MacReset
  PROVE  /\ tx_queue' \in [Queues -> Seq(Entries)] /\ SameIds
         /\ \A q \in Queues : ~Victim(q) => tx_queue'[q] = tx_queue[q]
<1>1. tx_queue' \in [Queues -> Seq(Entries)]
  <2>1. DOMAIN tx_queue' = Queues /\ tx_queue' = [q \in Queues |-> tx_queue'[q]]
    BY DEF MacReset
  <2>2. \A q \in Queues : tx_queue'[q] \in Seq(Entries)
    BY ResetQueue
  <2> QED
    BY <2>1, <2>2
<1>2. SameIds
  BY ResetQueue DEF SameIds
<1>3. ASSUME NEW q \in Queues, ~Victim(q) PROVE tx_queue'[q] = tx_queue[q]
  <2>1. \A n \in 1 .. Len(tx_queue[q]) : tx_queue[q][n].id \notin Victims
    BY <1>3, VictimFacts
  <2>2. \A n \in 1 .. Len(tx_queue[q]) : tx_queue'[q][n] = tx_queue[q][n]
    BY <2>1, ResetQueue DEF KilledIn
  <2>3. tx_queue'[q] \in Seq(Entries) /\ tx_queue[q] \in Seq(Entries) /\ Len(tx_queue'[q]) = Len(tx_queue[q])
    BY ResetQueue, QueueTypes
  <2> QED
    BY <2>2, <2>3, SeqEqual
<1> QED
  BY <1>1, <1>2, <1>3

LEMMA ResetSupers ==
  ASSUME TypeOK, MacReset
  PROVE  /\ super' \in [Ids -> Supers] /\ \A x \in Ids : super'[x].kind = super[x].kind
         /\ \A x \in Ids : x \in Victims => super'[x].cnt = MaxRateTries /\ super'[x].rix = MaxRix
         /\ \A x \in Ids : x \notin Victims => super'[x] = super[x]
<1>1. super' = [x \in Ids |-> IF x \in Victims THEN KilledSuper(super[x]) ELSE super[x]]
  BY DEF MacReset, Victims
<1>2. MaxRateTries \in Nat \ {0} /\ MaxRix \in 0 .. MaxRix
  BY TxPathAssumption, TxHangAssumption
<1>3. \A s \in Supers : /\ KilledSuper(s) \in Supers /\ KilledSuper(s).kind = s.kind
                        /\ KilledSuper(s).cnt = MaxRateTries /\ KilledSuper(s).rix = MaxRix
  BY <1>2 DEF KilledSuper, Supers
<1>4. \A x \in Ids : super[x] \in Supers
  BY SuperTypes
<1> QED
  BY <1>1, <1>3, <1>4

(* The timer's tick leaves the frames where they are.                      *)
LEMMA TickKeeps ==
  ASSUME Inv, HangTypeOK, NEW n \in {0, 1}, Tick(n)
  PROVE  Inv'
<1>1. /\ TypeOK /\ QueuesApart /\ stage[1] \notin {"status", "retry"} /\ stage' = <<"wlan", 0>>
      /\ UNCHANGED <<tx_retry, ampdu_prev, queued_bar, queued_ba, available, posted, bars, air, reports>>
  BY DEF Inv, PlaceInv, Tick, ba, hist
<1>2. /\ super' \in [Ids -> Supers] /\ \A x \in Ids : super'[x].kind = super[x].kind
      /\ tx_queue' \in [Queues -> Seq(Entries)] /\ SameIds
      /\ engine' \in [Queues -> {"idle", "busy", "halted"}] /\ txc' \in BOOLEAN
  <2>1. CASE MacReset
    <3>1. engine' \in [Queues -> {"idle", "busy", "halted"}] /\ txc' = TRUE
      BY <2>1 DEF MacReset
    <3> QED
      BY <1>1, <2>1, <3>1, ResetQueues, ResetSupers
  <2>2. CASE \E r : NoReset(r)
    <3>1. UNCHANGED <<super, tx_queue, engine, txc>>
      BY <2>2 DEF NoReset
    <3> QED
      BY <1>1, <3>1 DEF SameIds, TypeOK, Supers, Entries
  <2> QED
    BY <2>1, <2>2 DEF Tick
<1>3. TypeOK'
  BY <1>1, <1>2 DEF TypeOK, Supers, Entries
<1>4. tx_retry = <<>> /\ Len(tx_retry) = 0
       /\ \A q \in Queues : ampdu_prev[q] = NULL \/ Has(q, ampdu_prev[q])
  BY <1>1, OutsideCompletion
<1>5. RetryDrained'
  BY <1>1, <1>4 DEF RetryDrained
<1>6. PrevLive'
  <2>1. \A p \in Queues : \A x : Has(p, x) => \E m \in 1 .. Len(tx_queue'[p]) : tx_queue'[p][m].id = x
    BY <1>2 DEF Has, SameIds
  <2>2. \A q \in Queues : ampdu_prev'[q] = ampdu_prev[q]
    BY <1>1
  <2>3. ASSUME NEW q \in Queues, ampdu_prev'[q] # NULL
        PROVE  \E m \in 1 .. Len(tx_queue'[q]) : tx_queue'[q][m].id = ampdu_prev'[q]
    <3>1. Has(q, ampdu_prev[q]) /\ ampdu_prev'[q] = ampdu_prev[q]
      BY <1>4, <2>2, <2>3
    <3> QED
      BY <2>1, <3>1
  <2> QED
    BY <2>3 DEF PrevLive, Has
<1> QED
  BY <1>1, <1>2, <1>3, <1>5, <1>6, QuietStep

(* A frame's entries in the queues are entries that were there before.     *)
NothingNew(id) ==
  \A q \in Queues : \A n \in 1 .. Len(tx_queue'[q]) : tx_queue'[q][n].id = id =>
    \E m \in 1 .. Len(tx_queue[q]) : tx_queue[q][m] = tx_queue'[q][n]

(* What the steps leave of a killed frame.                                 *)
LEMMA DeadKept ==
  ASSUME NEW id \in Ids, Dead(id), posted \in Nat, posted' \in Nat, posted' >= posted,
         super'[id].cnt = super[id].cnt, super'[id].rix = super[id].rix,
         reports'[id] = reports[id], Waits(id)' => Waits(id),
         NothingNew(id)
  PROVE  Dead(id)'
<1>1. id <= posted'
  BY DEF Dead, Ids
<1>2. \A q \in Queues : \A n \in 1 .. Len(tx_queue'[q]) :
        tx_queue'[q][n].id = id => tx_queue'[q][n].own = "SW" /\ tx_queue'[q][n].fail = "ba"
  BY DEF Dead, NothingNew
<1> QED
  BY <1>1, <1>2 DEF Dead

LEMMA NoEntry ==
  ASSUME tx_queue' = tx_queue, NEW id
  PROVE  NothingNew(id)
BY DEF NothingNew

LEMMA AddedEntry ==
  ASSUME TypeOK, NEW x \in Ids, NEW p \in Queues, Added(x, p), NEW id, id # x
  PROVE  NothingNew(id)
<1>1. Entry(x).id = x /\ Len(tx_queue[p]) \in Nat
  BY QueueTypes DEF Entry
<1>2. ASSUME NEW n \in 1 .. Len(tx_queue'[p]), tx_queue'[p][n].id = id
      PROVE  n \in 1 .. Len(tx_queue[p]) /\ tx_queue[p][n] = tx_queue'[p][n]
  BY <1>1, <1>2 DEF Added
<1> QED
  BY <1>2 DEF Added, NothingNew

LEMMA RemovedEntry ==
  ASSUME TypeOK, NEW p \in Queues, Removed(p), NEW id
  PROVE  NothingNew(id)
<1>1. Len(tx_queue[p]) \in Nat
  BY QueueTypes
<1>2. ASSUME NEW n \in 1 .. Len(tx_queue'[p]) PROVE \E m \in 1 .. Len(tx_queue[p]) : tx_queue[p][m] = tx_queue'[p][n]
  <2>1. n + 1 \in 1 .. Len(tx_queue[p]) /\ tx_queue'[p][n] = tx_queue[p][n + 1]
    BY <1>1 DEF Removed
  <2> QED
    BY <2>1
<1> QED
  BY <1>2 DEF Removed, NothingNew

LEMMA RemarkedEntry ==
  ASSUME NEW p \in Queues, NEW k \in 1 .. Len(tx_queue[p]), NEW e, SameIds, Remarked(p, k, e),
         NEW id, id # e.id
  PROVE  NothingNew(id)
BY DEF Remarked, SameIds, NothingNew

(* A killed frame has no try left.                                         *)
LEMMA DeadNoRetry ==
  ASSUME TypeOK, NEW id \in Ids, Dead(id)
  PROVE  ~CanRetry(super[id])
<1>1. super[id].cnt = MaxRateTries /\ super[id].rix = MaxRix
  BY DEF Dead
<1>2. super[id].kind \in Kinds \cup {BaKind}
  BY SuperTypes
<1>3. MaxRix \in Nat /\ MaxRateTries \in Nat \ {0}
  BY TxPathAssumption, TxHangAssumption
<1>4. Tries(super[id]) <= MaxRateTries
  <2>1. CASE MaxRix < Len(super[id].kind.tries)
    <3>1. MaxRix + 1 \in 1 .. Len(super[id].kind.tries)
      BY <1>2, <1>3, <2>1, KindFacts
    <3>2. CASE super[id].kind \in Kinds
      BY <1>1, <2>1, <3>1, <3>2, TxHangAssumption DEF Tries
    <3>3. CASE super[id].kind = BaKind
      <4>1. super[id].kind.tries = <<1>>
        BY <3>3 DEF BaKind
      <4>2. MaxRix + 1 = 1
        BY <3>1, <4>1
      <4> QED
        BY <1>1, <1>3, <2>1, <4>1, <4>2 DEF Tries
    <3> QED
      BY <1>2, <3>2, <3>3
  <2>2. CASE ~(MaxRix < Len(super[id].kind.tries))
    BY <1>1, <1>3, <2>2 DEF Tries
  <2> QED
    BY <2>1, <2>2
<1>5. Tries(super[id]) \in Nat
  <2>1. CASE MaxRix < Len(super[id].kind.tries)
    <3>1. MaxRix + 1 \in 1 .. Len(super[id].kind.tries)
      BY <1>2, <1>3, <2>1, KindFacts
    <3> QED
      BY <1>1, <1>2, <2>1, <3>1, KindFacts DEF Tries
  <2>2. CASE ~(MaxRix < Len(super[id].kind.tries))
    BY <1>1, <2>2 DEF Tries
  <2> QED
    BY <2>1, <2>2
<1> QED
  BY <1>1, <1>3, <1>4, <1>5 DEF CanRetry, OneMore, NextRate

LEMMA DeadQuiet ==
  ASSUME TypeOK, NEW id \in Ids, Dead(id), Kept(super, super'),
         UNCHANGED <<tx_queue, tx_retry, posted, reports>>
  PROVE  Dead(id)'
<1>1. posted \in Nat /\ posted' \in Nat /\ posted' >= posted
  BY StageTypes
<1>2. Waits(id)' => Waits(id)
  BY DEF Waits
<1>3. NothingNew(id)
  BY NoEntry
<1>4. super'[id].cnt = super[id].cnt /\ super'[id].rix = super[id].rix /\ reports'[id] = reports[id]
  BY DEF Kept
<1> QED
  BY <1>1, <1>2, <1>3, <1>4, DeadKept

LEMMA DeadMainLoop ==
  ASSUME Inv, MainLoop, NEW id \in Ids \ {BA}, Dead(id)
  PROVE  Dead(id)'
<1>0. TypeOK /\ posted \in Nat /\ id <= posted
  BY StageTypes DEF Inv, PlaceInv, Dead
<1>1. ASSUME NEW n \in 0 .. MaxBars - bars, HandleWlan(n) PROVE Dead(id)'
  <2>1. UNCHANGED <<super, tx_queue, tx_retry, posted, reports>>
    BY <1>1 DEF HandleWlan, fw
  <2> QED
    BY <1>0, <2>1, DeadQuiet DEF Kept
<1>2. CASE DownloadEnd
  <2>1. UNCHANGED <<super, tx_queue, tx_retry, posted, reports>>
    BY <1>2 DEF DownloadEnd, fw, hist
  <2> QED
    BY <1>0, <2>1, DeadQuiet DEF Kept
<1>3. CASE Janitor
  <2>1. UNCHANGED <<tx_retry, posted, reports>> /\ stage[1] \notin {"status", "retry"}
    BY <1>3 DEF Janitor, hist
  <2>2. CASE queued_ba > 0 /\ available
    <3>1. WlanTx(BA, BaKind)
      BY <1>3, <2>2 DEF Janitor, FwDescFree
    <3>2. BA \in Ids /\ BaKind \in Kinds \cup {BaKind} /\ ~Queued(BA)
      BY <1>0, <2>2, StageTypes DEF Inv, PlaceInv, OnItsWay
    <3>3. /\ BaKind.queue \in Queues /\ Added(BA, BaKind.queue)
          /\ super'[id].rix = super[id].rix /\ super'[id].cnt = super[id].cnt
      BY <2>1, <3>1, <3>2, WlanTxAdds
    <3>4. NothingNew(id)
      BY <1>0, <3>2, <3>3, AddedEntry
    <3>5. Waits(id)' => Waits(id)
      BY <2>1 DEF Waits
    <3>6. posted' \in Nat /\ posted' >= posted /\ reports'[id] = reports[id]
      BY <1>0, <2>1
    <3> QED
      BY <1>0, <3>3, <3>4, <3>5, <3>6, DeadKept
  <2>3. CASE ~ (queued_ba > 0 /\ available)
    <3>1. UNCHANGED <<super, tx_queue>>
      BY <1>3, <2>3 DEF Janitor, FwDescFree
    <3> QED
      BY <1>0, <2>1, <3>1, DeadQuiet DEF Kept
  <2> QED
    BY <2>2, <2>3
<1>4. ASSUME NEW k \in Kinds, Download(k) PROVE Dead(id)'
  <2>1. PICK x : x = posted + 1
    OBVIOUS
  <2>2. /\ stage[1] \notin {"status", "retry"} /\ posted < MaxFrames /\ posted' = x /\ WlanTx(x, k)
        /\ UNCHANGED <<tx_retry, reports>>
    BY <1>4, <2>1 DEF Download
  <2>3. x \in Ids /\ ~Queued(x) /\ id # x
    BY <1>0, <2>1, <2>2, NextFrame
  <2>4. /\ k.queue \in Queues /\ Added(x, k.queue)
        /\ super'[id].rix = super[id].rix /\ super'[id].cnt = super[id].cnt
    BY <2>2, <2>3, WlanTxAdds
  <2>5. NothingNew(id)
    BY <1>0, <2>3, <2>4, AddedEntry
  <2>6. Waits(id)' => Waits(id)
    BY <2>2 DEF Waits
  <2>7. posted' \in Nat /\ posted' >= posted /\ reports'[id] = reports[id]
    BY <1>0, <2>1, <2>2
  <2> QED
    BY <1>0, <2>4, <2>5, <2>6, <2>7, DeadKept
<1>5. CASE DownloadClipped
  <2>1. PICK x : x = posted + 1
    OBVIOUS
  <2>2. /\ posted < MaxFrames /\ posted' = x
        /\ reports' = [reports EXCEPT ![x] = Append(@, FALSE)]
        /\ UNCHANGED <<super, tx_queue, tx_retry>>
    BY <1>5, <2>1 DEF DownloadClipped, fw
  <2>3. x \in Ids /\ id # x
    BY <1>0, <2>1, <2>2, NextFrame
  <2>4. posted' \in Nat /\ posted' >= posted
    BY <1>0, <2>1, <2>2
  <2>5. reports'[id] = reports[id]
    BY <1>0, <2>2, <2>3 DEF TypeOK
  <2>6. Waits(id)' => Waits(id)
    BY <2>2 DEF Waits
  <2>7. NothingNew(id)
    BY <2>2, NoEntry
  <2>8. super'[id].cnt = super[id].cnt /\ super'[id].rix = super[id].rix
    BY <2>2
  <2> QED
    BY <1>0, <2>4, <2>5, <2>6, <2>7, <2>8, DeadKept
<1> QED
  BY <1>1, <1>2, <1>3, <1>4, <1>5 DEF MainLoop

LEMMA DeadTxCompletion ==
  ASSUME Inv, TxCompletion, NEW id \in Ids \ {BA}, Dead(id)
  PROVE  Dead(id)'
<1>0. TypeOK /\ posted \in Nat /\ id <= posted /\ QueuesApart /\ RetryApart
  BY StageTypes DEF Inv, PlaceInv, Dead
<1>1. PICK x : x = tx_queue[i][1].id
  OBVIOUS
<1>2. ASSUME Finished
      PROVE  /\ i \in Queues /\ tx_queue[i] # <<>> /\ 1 \in 1 .. Len(tx_queue[i])
             /\ x \in Ids /\ first.id = x /\ first = tx_queue[i][1] /\ Queued(x)
             /\ x = id => first.fail = "ba" /\ ~CanRetry(super[x])
  <2>1. /\ i \in Queues /\ tx_queue[i] # <<>> /\ 1 \in 1 .. Len(tx_queue[i])
        /\ x \in Ids /\ first.id = x /\ first = tx_queue[i][1] /\ Queued(x)
    BY <1>0, <1>1, <1>2, FinishedFront DEF first
  <2>2. x = id => first.fail = "ba"
    BY <1>1, <2>1 DEF Dead
  <2>3. x = id => ~CanRetry(super[x])
    BY <1>0, DeadNoRetry
  <2> QED
    BY <2>1, <2>2, <2>3
<1>3. CASE StatusRearm
  <2>1. /\ Finished /\ first.fail = "tx" /\ CanRetry(super[first.id])
        /\ super' = [super EXCEPT ![first.id] = ConsumeRetry(@)]
        /\ tx_queue' = [tx_queue EXCEPT ![i][1] = Entry(first.id)]
        /\ UNCHANGED <<tx_retry, posted, reports>>
    BY <1>3 DEF StatusRearm, hist
  <2>2. x # id /\ x \in Ids /\ i \in Queues /\ 1 \in 1 .. Len(tx_queue[i]) /\ first.id = x
    BY <1>2, <2>1
  <2>3. PICK e : e = Entry(x)
    OBVIOUS
  <2>4. e \in Entries /\ e.id = x /\ tx_queue' = [tx_queue EXCEPT ![i][1] = e]
    BY <2>1, <2>2, <2>3 DEF Entry, Entries
  <2>5. SameIds /\ Remarked(i, 1, e)
    BY <1>0, <1>1, <2>2, <2>4, SentEntry
  <2>6. NothingNew(id)
    BY <2>2, <2>4, <2>5, RemarkedEntry
  <2>7. super'[id] = super[id]
    BY <1>0, <2>1, <2>2, SuperTypes
  <2>8. Waits(id)' => Waits(id)
    BY <2>1 DEF Waits
  <2> QED
    BY <1>0, <2>1, <2>6, <2>7, <2>8, DeadKept
<1>4. CASE StatusRetry
  <2>1. /\ Finished /\ CanRetry(super[first.id])
        /\ super' = [super EXCEPT ![first.id] = ConsumeRetry(@)]
        /\ tx_queue' = Unlinked /\ tx_retry' = Append(tx_retry, first.id)
        /\ UNCHANGED <<posted, reports>>
    BY <1>4 DEF StatusRetry, hist
  <2>2. x # id /\ x \in Ids /\ i \in Queues /\ tx_queue[i] # <<>> /\ first.id = x
    BY <1>2, <2>1
  <2>3. Removed(i)
    BY <1>0, <2>1, <2>2, UnlinkedRemoves
  <2>4. NothingNew(id)
    BY <1>0, <2>2, <2>3, RemovedEntry
  <2>5. super'[id] = super[id]
    BY <1>0, <2>1, <2>2, SuperTypes
  <2>6. tx_retry' = Append(tx_retry, x)
    BY <2>1, <2>2
  <2>7. \A y : Waits(y)' <=> Waits(y) \/ y = x
    BY <1>0, <2>2, <2>6, RetryPushed
  <2> QED
    BY <1>0, <2>1, <2>2, <2>4, <2>5, <2>7, DeadKept
<1>5. CASE StatusDone
  <2>1. PICK success : success = (first.fail = "no")
    OBVIOUS
  <2>2. /\ Finished /\ tx_queue' = Unlinked
        /\ UNCHANGED <<super, tx_retry, posted>>
        /\ \/ first.id = BA /\ reports' = reports
           \/ first.id # BA /\ reports' = [reports EXCEPT ![first.id] = Append(@, success)]
    BY <1>5, <2>1 DEF StatusDone
  <2>3. /\ x \in Ids /\ i \in Queues /\ tx_queue[i] # <<>> /\ first.id = x /\ Queued(x)
        /\ x = id => first.fail = "ba"
    BY <1>2, <2>2
  <2>4. Removed(i)
    BY <1>0, <2>2, <2>3, UnlinkedRemoves
  <2>5. NothingNew(id)
    BY <1>0, <2>3, <2>4, RemovedEntry
  <2>6. Waits(id)' => Waits(id)
    BY <2>2 DEF Waits
  <2>7. CASE x # id
    <3>1. reports'[id] = reports[id]
      BY <1>0, <2>2, <2>3, <2>7 DEF TypeOK
    <3> QED
      BY <1>0, <2>2, <2>5, <2>6, <3>1, DeadKept
  <2>8. CASE x = id
    <3>1. reports[id] = <<>>
      BY <2>3, <2>8, QueuedOnWay
    <3>2. success = FALSE
      BY <2>1, <2>3, <2>8
    <3>3. reports'[id] = <<FALSE>>
      <4>1. reports' = [reports EXCEPT ![id] = Append(reports[id], success)]
        BY <2>2, <2>3, <2>8
      <4>2. reports'[id] = Append(reports[id], success)
        BY <1>0, <4>1 DEF TypeOK
      <4>3. reports'[id] = <<success>>
        BY <3>1, <4>2
      <4> QED
        BY <3>2, <4>3
    <3>4. \A q \in Queues : \A n \in 1 .. Len(tx_queue'[q]) :
            tx_queue'[q][n].id = id => tx_queue'[q][n].own = "SW" /\ tx_queue'[q][n].fail = "ba"
      BY <2>5 DEF Dead, NothingNew
    <3> QED
      BY <2>2, <2>6, <3>3, <3>4 DEF Dead
  <2> QED
    BY <2>7, <2>8
<1>6. CASE StatusEnd
  <2>1. UNCHANGED <<super, tx_queue, tx_retry, posted, reports>>
    BY <1>6 DEF StatusEnd, hist
  <2> QED
    BY <1>0, <2>1, DeadQuiet DEF Kept
<1>7. CASE RetryNext
  <2>1. PICK y : y = Head(tx_retry)
    OBVIOUS
  <2>2. /\ tx_retry # <<>> /\ Put(super, y) /\ tx_retry' = Tail(tx_retry)
        /\ UNCHANGED <<posted, reports>>
    BY <1>7, <2>1 DEF RetryNext, hist
  <2>3. /\ y \in Ids /\ \A z : Waits(z)' <=> Waits(z) /\ z # y
        /\ y = tx_retry[1] /\ Len(tx_retry) \in Nat \ {0}
    BY <1>0, <2>1, <2>2, RetryPopped
  <2>4. Waits(y)
    BY <2>3 DEF Waits
  <2>5. y # id
    BY <2>4 DEF Dead
  <2>6. super \in [Ids -> Supers]
    BY <1>0, SuperTypes
  <2>7. PICK q : q = super[y].kind.queue
    OBVIOUS
  <2>8. q \in Queues /\ Added(y, q) /\ Kept(super, super')
    BY <1>0, <2>2, <2>3, <2>6, <2>7, PutAdds
  <2>9. NothingNew(id)
    BY <1>0, <2>3, <2>5, <2>8, AddedEntry
  <2>10. super'[id].cnt = super[id].cnt /\ super'[id].rix = super[id].rix
    BY <2>8 DEF Kept
  <2> QED
    BY <1>0, <2>2, <2>3, <2>9, <2>10, DeadKept
<1>8. CASE RetryEnd
  <2>1. /\ super' = EndAggregate(super, ampdu_prev[i]) /\ i \in Queues
        /\ UNCHANGED <<tx_queue, tx_retry, posted, reports>>
    BY <1>0, <1>8, StageTypes DEF RetryEnd, hist
  <2>2. super \in [Ids -> Supers] /\ ampdu_prev[i] \in Ids \cup {NULL}
    BY <1>0, <2>1, SuperTypes DEF TypeOK
  <2>3. Kept(super, super')
    BY <2>1, <2>2, EndAggregateKept
  <2> QED
    BY <1>0, <2>1, <2>3, DeadQuiet
<1> QED
  BY <1>3, <1>4, <1>5, <1>6, <1>7, <1>8, <1>0 DEF TxCompletion

LEMMA MacSent ==
  ASSUME TypeOK, NEW q \in Queues, NEW fail \in {"no", "tx", "ba"}, MacSend(q, fail)
  PROVE  \E n \in Current(q) : \E e \in Entries :
           /\ n \in 1 .. Len(tx_queue[q]) /\ tx_queue[q][n].own = "HW"
           /\ e.id = tx_queue[q][n].id /\ e.own = "SW"
           /\ tx_queue' = [tx_queue EXCEPT ![q][n] = e] /\ SameIds /\ Remarked(q, n, e)
<1>1. PICK n \in Current(q) :
        LET id == tx_queue[q][n].id
            e == [tx_queue[q][n] EXCEPT !.own = "SW", !.fail = fail]
        IN  /\ n \in 1 .. Len(tx_queue[q]) /\ id \in Ids
            /\ tx_queue[q][n].own = "HW"
            /\ \A m \in 1 .. n - 1 : tx_queue[q][m].own = "SW"
            /\ e \in Entries /\ e.id = id /\ e.own = "SW" /\ e.fail = fail
            /\ fail = "ba" => super[id].ampdu
            /\ tx_queue' = [tx_queue EXCEPT ![q][n] = e]
            /\ air' = [air EXCEPT ![id][super[id].rix] = air[id][super[id].rix] + 1]
  BY MacSends
<1>2. PICK e : e = [tx_queue[q][n] EXCEPT !.own = "SW", !.fail = fail]
  OBVIOUS
<1>3. /\ n \in 1 .. Len(tx_queue[q]) /\ tx_queue[q][n].own = "HW"
      /\ e \in Entries /\ e.id = tx_queue[q][n].id /\ e.own = "SW"
      /\ tx_queue' = [tx_queue EXCEPT ![q][n] = e]
  BY <1>1, <1>2
<1>4. SameIds /\ Remarked(q, n, e)
  BY <1>3, SentEntry
<1> QED
  BY <1>3, <1>4

LEMMA DeadSend ==
  ASSUME Inv, NEW q \in Queues, NEW fail \in {"no", "tx", "ba"}, MacSend(q, fail),
         NEW d \in Ids \ {BA}, Dead(d)
  PROVE  Dead(d)'
<1>1. TypeOK /\ posted \in Nat
  BY StageTypes DEF Inv, PlaceInv
<1>2. PICK n \in Current(q) : \E e \in Entries :
        /\ n \in 1 .. Len(tx_queue[q]) /\ tx_queue[q][n].own = "HW"
        /\ e.id = tx_queue[q][n].id /\ e.own = "SW"
        /\ tx_queue' = [tx_queue EXCEPT ![q][n] = e] /\ SameIds /\ Remarked(q, n, e)
  BY <1>1, MacSent
<1>3. PICK e \in Entries :
        /\ e.id = tx_queue[q][n].id /\ SameIds /\ Remarked(q, n, e)
  BY <1>2
<1>4. n \in 1 .. Len(tx_queue[q]) /\ tx_queue[q][n].own = "HW"
  BY <1>2
<1>5. UNCHANGED <<super, tx_retry, posted, reports>>
  BY DEF MacSend
<1>6. d # e.id
  BY <1>3, <1>4 DEF Dead
<1>8. NothingNew(d)
  BY <1>3, <1>4, <1>6 DEF Remarked, SameIds, NothingNew
<1>9. Waits(d)' => Waits(d)
  BY <1>5 DEF Waits
<1> QED
  BY <1>1, <1>5, <1>8, <1>9, DeadKept

LEMMA DeadMac ==
  ASSUME Inv, Mac, NEW d \in Ids \ {BA}, Dead(d)
  PROVE  Dead(d)'
<1>0. TypeOK /\ posted \in Nat
  BY StageTypes DEF Inv, PlaceInv
<1>1. ASSUME NEW q \in Queues, MacIdle(q) PROVE Dead(d)'
  <2>1. UNCHANGED <<super, tx_queue, tx_retry, posted, reports>>
    BY <1>1 DEF MacIdle, fw, hist
  <2> QED
    BY <1>0, <2>1, DeadQuiet DEF Kept
<1> QED
  BY <1>1, DeadSend DEF Mac

LEMMA DeadNext ==
  ASSUME Inv, [Next]_vars, NEW id \in Ids \ {BA}, Dead(id)
  PROVE  Dead(id)'
<1>1. CASE UNCHANGED vars
  <2>1. TypeOK /\ UNCHANGED <<super, tx_queue, tx_retry, posted, reports>>
    BY <1>1 DEF vars, fw, hist, Inv, PlaceInv
  <2> QED
    BY <2>1, DeadQuiet DEF Kept
<1> QED
  BY <1>1, DeadMainLoop, DeadTxCompletion, DeadMac DEF Next

(* wlan_mac_reset leaves a killed frame with no try, marked as failed.     *)
LEMMA DeadReset ==
  ASSUME Inv, HangTypeOK, NEW n \in {0, 1}, Tick(n), MacReset, NEW id \in Ids \ {BA},
         Dead(id) \/ id \in Victims
  PROVE  Dead(id)'
<1>0. /\ TypeOK /\ QueuesApart /\ stage[1] \notin {"status", "retry"}
      /\ UNCHANGED <<tx_retry, posted, reports>>
  BY DEF Inv, PlaceInv, Tick, hist
<1>1. id <= posted /\ reports[id] \in {<<>>, <<FALSE>>}
  <2>1. CASE id \in Victims
    BY <1>0, <2>1, VictimFacts, QueuedOnWay
  <2> QED
    BY <2>1 DEF Dead
<1>2. ~Waits(id)
  BY <1>0, OutsideCompletion
<1>3. super'[id].cnt = MaxRateTries /\ super'[id].rix = MaxRix
  <2>1. CASE id \in Victims
    BY <1>0, <2>1, ResetSupers
  <2>2. CASE id \notin Victims
    BY <1>0, <2>2, ResetSupers DEF Dead
  <2> QED
    BY <2>1, <2>2
<1>4. ASSUME NEW q \in Queues, NEW m \in 1 .. Len(tx_queue'[q]), tx_queue'[q][m].id = id
      PROVE  tx_queue'[q][m].own = "SW" /\ tx_queue'[q][m].fail = "ba"
  <2>1. Len(tx_queue'[q]) = Len(tx_queue[q])
    BY <1>0, ResetQueue
  <2>2. m \in 1 .. Len(tx_queue[q])
    BY <2>1
  <2>3. tx_queue'[q][m] = KilledIn(q, m) /\ tx_queue'[q][m].id = tx_queue[q][m].id
    BY <1>0, <2>2, ResetQueue
  <2>4. tx_queue[q][m] \in Entries /\ tx_queue[q][m].id = id
    BY <1>0, <1>4, <2>2, <2>3, QueueTypes
  <2>5. CASE id \in Victims
    BY <2>3, <2>4, <2>5 DEF KilledIn, KilledEntry, Entries
  <2>6. CASE id \notin Victims
    <3>1. tx_queue'[q][m] = tx_queue[q][m]
      BY <2>3, <2>4, <2>6 DEF KilledIn
    <3> QED
      BY <2>2, <2>4, <2>6, <3>1 DEF Dead
  <2> QED
    BY <2>5, <2>6
<1>5. id <= posted' /\ reports'[id] \in {<<>>, <<FALSE>>} /\ ~Waits(id)'
  BY <1>0, <1>1, <1>2 DEF Waits
<1> QED
  BY <1>3, <1>4, <1>5 DEF Dead

LEMMA DeadNoReset ==
  ASSUME Inv, NEW n \in {0, 1}, Tick(n), NEW r, NoReset(r), NEW id \in Ids \ {BA}, Dead(id)
  PROVE  Dead(id)'
<1>1. TypeOK /\ UNCHANGED <<super, tx_queue, tx_retry, posted, reports>>
  BY DEF Inv, PlaceInv, Tick, NoReset, hist
<1> QED
  BY <1>1, DeadQuiet DEF Kept

(* The steps of TxHang are those of TxPath, but for the timer's tick.      *)
LEMMA HangSteps ==
  ASSUME [HangNext]_allVars
  PROVE  \/ [Next]_vars /\ killed' = killed
         \/ \E n \in {0, 1} : n <= MaxForced - forced /\ Tick(n)
<1>1. CASE HangStatus
  BY <1>1 DEF HangStatus, Next, TxCompletion
<1>2. CASE HangOther
  BY <1>2 DEF HangOther, Next, TxCompletion, MainLoop, hangVars
<1>3. CASE NoTick
  BY <1>3 DEF NoTick, Next, MainLoop, hangVars
<1>4. CASE SoftReset
  BY <1>4 DEF SoftReset
<1>5. ASSUME NEW q \in Queues, HangMac(q) PROVE [Next]_vars /\ killed' = killed
  BY <1>5 DEF HangMac, Next, Mac
<1>6. ASSUME NEW q \in Queues, MacHang(q) PROVE [Next]_vars /\ killed' = killed
  BY <1>6 DEF MacHang
<1>7. CASE UNCHANGED allVars
  BY <1>7 DEF allVars, hangVars
<1> QED
  BY <1>1, <1>2, <1>3, <1>4, <1>5, <1>6, <1>7 DEF HangNext, HangFirmware

LEMMA InvHang ==
  ASSUME Inv, HangTypeOK, [HangNext]_allVars
  PROVE  Inv'
BY HangSteps, InvNext, TickKeeps

(* What a tick kills has been with the MAC for TxMacReset ticks.           *)
LEMMA KilledTick ==
  ASSUME Inv, HangTypeOK, \A q \in Queues : Watched(q), NEW n \in {0, 1}, Tick(n),
         NEW k \in killed', k \notin killed
  PROVE  MacReset /\ k \in Ids \X (0 .. TxMacReset) /\ k[1] \in Victims /\ k[2] = TxMacReset
<1>1. TypeOK /\ QueuesApart
  BY DEF Inv, PlaceInv
<1>2. MacReset
  BY DEF Tick, NoReset
<1>3. killed' = killed \cup {<<id, NewAge(super[id].kind.queue)>> : id \in Victims}
  BY <1>2 DEF MacReset, Victims
<1>4. PICK id \in Victims : k = <<id, NewAge(super[id].kind.queue)>>
  BY <1>3
<1>5. id \in Ids /\ super[id].kind.queue \in Queues /\ Victim(super[id].kind.queue)
  BY <1>1, VictimFacts
<1>6. NewAge(super[id].kind.queue) = TxMacReset
  BY <1>1, <1>5, VictimAge
<1>7. TxMacReset \in 0 .. TxMacReset
  BY TxHangAssumption
<1> QED
  BY <1>2, <1>4, <1>5, <1>6, <1>7

(* The frames that were killed stay dead.                                  *)
LEMMA DeadHang ==
  ASSUME HangInv, [HangNext]_allVars, NEW k \in killed', k[1] # BA
  PROVE  Dead(k[1])'
<1>0. Inv /\ HangTypeOK /\ \A q \in Queues : Watched(q)
  BY DEF HangInv
<1>1. \A x \in killed : x[1] \in Ids /\ (x[1] # BA => Dead(x[1]))
  BY DEF HangInv, HangTypeOK
<1>2. PICK d : d = k[1]
  OBVIOUS
<1>3. CASE [Next]_vars /\ killed' = killed
  <2>1. d \in Ids \ {BA} /\ Dead(d)
    BY <1>1, <1>2, <1>3
  <2>2. Dead(d)'
    BY <1>0, <1>3, <2>1, DeadNext
  <2> QED
    BY <1>2, <2>2
<1>4. ASSUME NEW n \in {0, 1}, Tick(n) PROVE Dead(k[1])'
  <2>1. d \in Ids \ {BA} /\ (Dead(d) \/ (MacReset /\ d \in Victims))
    <3>1. CASE k \in killed
      BY <1>1, <1>2, <3>1
    <3>2. CASE k \notin killed
      <4>1. MacReset /\ k \in Ids \X (0 .. TxMacReset) /\ k[1] \in Victims
        BY <1>0, <1>4, <3>2, KilledTick
      <4> QED
        BY <1>2, <4>1
    <3> QED
      BY <3>1, <3>2
  <2>2. Dead(d)'
    <3>1. CASE MacReset
      BY <1>0, <1>4, <2>1, <3>1, DeadReset
    <3>2. CASE ~MacReset
      BY <1>0, <1>4, <2>1, <3>2, DeadNoReset DEF Tick
    <3> QED
      BY <3>1, <3>2
  <2> QED
    BY <1>2, <2>2
<1> QED
  BY <1>3, <1>4, HangSteps

LEMMA HangKills ==
  ASSUME HangInv, [HangNext]_allVars
  PROVE  KilledOnlyWhenHung'
<1>0. Inv /\ HangTypeOK /\ \A q \in Queues : Watched(q)
  BY DEF HangInv
<1>1. \A k \in killed : k[2] = TxMacReset
  BY DEF HangInv, KilledOnlyWhenHung
<1>2. ASSUME NEW n \in {0, 1}, Tick(n), NEW k \in killed' PROVE k[2] = TxMacReset
  BY <1>0, <1>1, <1>2, KilledTick
<1> QED
  BY <1>1, <1>2, HangSteps DEF KilledOnlyWhenHung

(* The types of the hang check.                                            *)
LEMMA HungCount ==
  Cardinality(HungQueues) \in Nat
<1>1. IsFiniteSet(Queues)
  BY TxPathAssumption, FS_Interval DEF Queues
<1>2. HungQueues \subseteq Queues
  BY DEF HungQueues
<1> QED
  BY <1>1, <1>2, FS_Subset, FS_CardinalityType

LEMMA TickTypes ==
  ASSUME HangInv, NEW n \in {0, 1}, n <= MaxForced - forced, Tick(n)
  PROVE  HangTypeOK'
<1>0. Inv /\ HangTypeOK /\ \A q \in Queues : Watched(q)
  BY DEF HangInv
<1>1. TypeOK'
  BY <1>0, TickKeeps DEF Inv, PlaceInv
<1>2. last_super' \in [Queues -> Ids \cup {NULL}]
  BY <1>0, CheckTypes DEF Tick, MacReset, NoReset
<1>3. last_super_num' \in [Queues -> Nat]
  BY <1>0, CheckTypes DEF Tick, MacReset, NoReset
<1>4. mac_reset' \in 0 .. MAC_RESET_FORCE
  <2>1. CASE MacReset
    BY <2>1 DEF MacReset, MAC_RESET_OFF, MAC_RESET_FORCE
  <2>2. CASE ~MacReset
    <3>1. PICK r : r = mac_reset + Cardinality(HungQueues) + n
      OBVIOUS
    <3>2. mac_reset \in 0 .. 3 /\ r \in Nat
      BY <1>0, <3>1, HungCount DEF HangTypeOK, MAC_RESET_FORCE
    <3>3. ~(r >= 2) /\ NoReset(r)
      BY <2>2, <3>1 DEF Tick, MAC_RESET_RESET
    <3>4. mac_reset' = IF r = mac_reset /\ mac_reset # 0 THEN mac_reset - 1 ELSE r
      BY <3>3 DEF NoReset
    <3> QED
      BY <3>2, <3>3, <3>4 DEF MAC_RESET_FORCE
  <2> QED
    BY <2>1, <2>2
<1>5. hung' \in [Queues -> BOOLEAN]
  BY <1>0 DEF Tick, MacReset, NoReset, HangTypeOK
<1>6. forced' \in 0 .. MaxForced
  BY <1>0, TxHangAssumption DEF Tick, HangTypeOK
<1>7. age' \in [Queues -> 0 .. TxMacReset]
  BY <1>0, CheckTypes DEF Tick, MacReset, NoReset
<1>8. killed' \subseteq Ids \X (0 .. TxMacReset)
  <2>1. \A k \in killed' : k \notin killed => k \in Ids \X (0 .. TxMacReset)
    BY <1>0, KilledTick
  <2> QED
    BY <1>0, <2>1 DEF HangTypeOK
<1> QED
  BY <1>1, <1>2, <1>3, <1>4, <1>5, <1>6, <1>7, <1>8 DEF HangTypeOK

LEMMA HangTypes ==
  ASSUME HangInv, [HangNext]_allVars
  PROVE  HangTypeOK'
<1>0. Inv /\ HangTypeOK
  BY DEF HangInv
<1>1. TypeOK'
  BY <1>0, InvHang DEF Inv, PlaceInv
<1>2. CASE HangStatus
  <2>1. last_super_num' \in [Queues -> Nat]
    BY <1>0, <1>2 DEF HangStatus, StatusSeen, HangTypeOK
  <2> QED
    BY <1>0, <1>1, <1>2, <2>1 DEF HangStatus, HangTypeOK
<1>3. CASE UNCHANGED hangVars
  BY <1>0, <1>1, <1>3 DEF hangVars, check, HangTypeOK
<1>4. CASE SoftReset
  <2>1. forced' \in 0 .. MaxForced
    BY <1>0, <1>4, TxHangAssumption DEF SoftReset, HangTypeOK
  <2>2. mac_reset' \in 0 .. MAC_RESET_FORCE
    BY <1>4 DEF SoftReset, MAC_RESET_FORCE
  <2> QED
    BY <1>0, <1>1, <1>4, <2>1, <2>2 DEF SoftReset, check, HangTypeOK
<1>5. ASSUME NEW q \in Queues, HangMac(q) PROVE HangTypeOK'
  <2>1. age' \in [Queues -> 0 .. TxMacReset]
    BY <1>0, <1>5, TxHangAssumption DEF HangMac, HangTypeOK
  <2> QED
    BY <1>0, <1>1, <1>5, <2>1 DEF HangMac, check, HangTypeOK
<1>6. ASSUME NEW q \in Queues, MacHang(q) PROVE HangTypeOK'
  <2>1. hung' \in [Queues -> BOOLEAN]
    BY <1>0, <1>6 DEF MacHang, HangTypeOK
  <2> QED
    BY <1>0, <1>1, <1>6, <2>1 DEF MacHang, check, HangTypeOK
<1>7. CASE HangOther \/ NoTick \/ UNCHANGED allVars
  BY <1>3, <1>7 DEF HangOther, NoTick, allVars
<1> QED
  BY <1>2, <1>4, <1>5, <1>6, <1>7, TickTypes DEF HangNext, HangFirmware

(* What the steps leave of the count of the frame at the MAC.              *)
LEMMA WatchedStatus ==
  ASSUME HangInv, HangStatus, NEW q \in Queues
  PROVE  Watched(q)'
<1>0. TypeOK /\ HangTypeOK /\ Watched(q) /\ Finished
  BY DEF HangInv, HangTypeOK, HangStatus, StatusRearm, StatusRetry, StatusDone
<1>1. i \in Queues
  BY <1>0, FinishedFront
<1>2. /\ last_super_num' = [last_super_num EXCEPT ![i] = 0]
      /\ UNCHANGED <<last_super, age>>
  BY DEF HangStatus, StatusSeen
<1>3. CASE q = i
  <2>1. last_super_num'[q] = 0
    BY <1>0, <1>1, <1>2, <1>3 DEF HangTypeOK
  <2> QED
    BY <2>1 DEF Watched
<1>4. CASE q # i
  <2>1. last_super_num'[q] = last_super_num[q]
    BY <1>0, <1>1, <1>2, <1>4 DEF HangTypeOK
  <2>2. tx_queue'[q] = tx_queue[q]
    BY <1>0, <1>1, <1>4 DEF HangStatus, StatusRearm, StatusRetry, StatusDone, Unlinked, TypeOK
  <2> QED
    BY <1>0, <1>2, <2>1, <2>2, WatchedKept
<1> QED
  BY <1>3, <1>4

LEMMA WatchedIdle ==
  ASSUME NEW p \in Queues, Current(p) = {}, UNCHANGED <<tx_queue, last_super, last_super_num>>,
         \A q \in Queues \ {p} : age'[q] = age[q], NEW q \in Queues, Watched(q)
  PROVE  Watched(q)'
<1>1. CASE q = p
  BY <1>1 DEF Watched
<1>2. CASE q # p
  BY <1>2, WatchedKept
<1> QED
  BY <1>1, <1>2

LEMMA WatchedMac ==
  ASSUME HangInv, NEW p \in Queues, HangMac(p), NEW q \in Queues
  PROVE  Watched(q)'
<1>0. TypeOK /\ HangTypeOK /\ Watched(q)
  BY DEF HangInv, HangTypeOK
<1>1. /\ \A x \in Queues \ {p} : age'[x] = age[x]
      /\ UNCHANGED <<last_super, last_super_num>>
  BY <1>0 DEF HangMac, HangTypeOK, check
<1>2. CASE MacIdle(p)
  <2>1. Current(p) = {} /\ tx_queue' = tx_queue
    BY <1>2 DEF MacIdle, fw
  <2> QED
    BY <1>0, <1>1, <2>1, WatchedIdle
<1>3. ASSUME NEW fail \in {"no", "tx", "ba"}, MacSend(p, fail) PROVE Watched(q)'
  <2>1. PICK n \in Current(p) : \E e \in Entries :
          /\ n \in 1 .. Len(tx_queue[p]) /\ tx_queue[p][n].own = "HW"
          /\ e.id = tx_queue[p][n].id /\ e.own = "SW"
          /\ tx_queue' = [tx_queue EXCEPT ![p][n] = e] /\ SameIds /\ Remarked(p, n, e)
    BY <1>0, <1>3, MacSent
  <2>2. PICK e \in Entries : e.id = tx_queue[p][n].id /\ e.own = "SW" /\ Remarked(p, n, e)
    BY <2>1
  <2> QED
    BY <1>0, <1>1, <2>2, WatchedSent
<1> QED
  BY <1>2, <1>3 DEF HangMac

LEMMA WatchedJanitor ==
  ASSUME HangInv, Janitor, UNCHANGED hangVars, NEW q \in Queues
  PROVE  Watched(q)'
<1>0. Inv /\ TypeOK /\ BA \in Ids /\ stage[1] = "janitor" /\ Watched(q)
  BY StageTypes DEF HangInv, HangTypeOK, Janitor
<1>1. UNCHANGED <<last_super, last_super_num, age>>
  BY DEF hangVars, check
<1>2. CASE queued_ba > 0 /\ FwDescFree
  <2>1. WlanTx(BA, BaKind) /\ available
    BY <1>2 DEF Janitor, FwDescFree
  <2>2. ~Queued(BA)
    BY <1>0, <2>1 DEF Inv, PlaceInv, OnItsWay
  <2>3. BaKind.queue \in Queues /\ Added(BA, BaKind.queue)
    BY <1>0, <2>1, <2>2, WlanTxAdds
  <2> QED
    BY <1>0, <1>1, <2>3, WatchedAdded
<1>3. CASE ~(queued_ba > 0 /\ FwDescFree)
  <2>1. tx_queue' = tx_queue
    BY <1>3 DEF Janitor
  <2> QED
    BY <1>0, <1>1, <2>1, WatchedKept
<1> QED
  BY <1>2, <1>3

LEMMA WatchedDownload ==
  ASSUME HangInv, NEW k \in Kinds, Download(k), UNCHANGED hangVars, NEW q \in Queues
  PROVE  Watched(q)'
<1>0. Inv /\ TypeOK /\ stage[1] = "host" /\ posted < MaxFrames /\ Watched(q)
  BY DEF HangInv, HangTypeOK, Download
<1>1. UNCHANGED <<last_super, last_super_num, age>>
  BY DEF hangVars, check
<1>2. PICK x : x = posted + 1
  OBVIOUS
<1>3. x \in Ids /\ ~Queued(x)
  BY <1>0, <1>2, NextFrame
<1>4. WlanTx(x, k)
  BY <1>2 DEF Download
<1>5. k.queue \in Queues /\ Added(x, k.queue)
  BY <1>0, <1>3, <1>4, WlanTxAdds
<1> QED
  BY <1>0, <1>1, <1>3, <1>5, WatchedAdded

LEMMA WatchedRetry ==
  ASSUME HangInv, RetryNext, UNCHANGED hangVars, NEW q \in Queues
  PROVE  Watched(q)'
<1>0. Inv /\ TypeOK /\ RetryApart /\ Watched(q)
  BY DEF HangInv, Inv, PlaceInv
<1>1. UNCHANGED <<last_super, last_super_num, age>>
  BY DEF hangVars, check
<1>2. PICK y : y = Head(tx_retry)
  OBVIOUS
<1>3. tx_retry # <<>> /\ Put(super, y) /\ tx_retry' = Tail(tx_retry)
  BY <1>2 DEF RetryNext
<1>4. y \in Ids /\ super \in [Ids -> Supers]
  BY <1>0, <1>2, <1>3, RetryPopped, SuperTypes
<1>5. PICK p : p = super[y].kind.queue
  OBVIOUS
<1>6. p \in Queues /\ Added(y, p)
  BY <1>0, <1>3, <1>4, <1>5, PutAdds
<1> QED
  BY <1>0, <1>1, <1>4, <1>6, WatchedAdded

LEMMA WatchedQuiet ==
  ASSUME HangInv, UNCHANGED <<tx_queue, last_super, last_super_num, age>>, NEW q \in Queues
  PROVE  Watched(q)'
<1>1. Watched(q)
  BY DEF HangInv
<1> QED
  BY <1>1, WatchedKept

LEMMA WatchedTick ==
  ASSUME HangInv, NEW n \in {0, 1}, Tick(n), NEW q \in Queues
  PROVE  Watched(q)'
<1>0. HangTypeOK /\ TypeOK /\ QueuesApart /\ Watched(q)
  BY DEF HangInv, Inv, PlaceInv
<1>1. CASE MacReset
  <2>1. CASE Victim(q)
    <3>1. last_super'[q] = NULL
      BY <1>1, <2>1 DEF MacReset
    <3> QED
      BY <3>1 DEF Watched
  <2>2. CASE ~Victim(q)
    <3>1. tx_queue'[q] = tx_queue[q]
      BY <1>0, <1>1, <2>2, ResetQueues
    <3>2. last_super'[q] = NewSeen(q) /\ last_super_num'[q] = NewCount(q) /\ age'[q] = NewAge(q)
      BY <1>1, <2>2 DEF MacReset
    <3> QED
      BY <1>0, <3>1, <3>2, WatchedTicked
  <2> QED
    BY <2>1, <2>2
<1>2. ASSUME NEW r, NoReset(r) PROVE Watched(q)'
  <2>1. tx_queue'[q] = tx_queue[q]
    BY <1>2 DEF NoReset
  <2>2. last_super'[q] = NewSeen(q) /\ last_super_num'[q] = NewCount(q) /\ age'[q] = NewAge(q)
    BY <1>2 DEF NoReset
  <2> QED
    BY <1>0, <2>1, <2>2, WatchedTicked
<1> QED
  BY <1>1, <1>2 DEF Tick

LEMMA WatchedNext ==
  ASSUME HangInv, [HangNext]_allVars, NEW q \in Queues
  PROVE  Watched(q)'
<1>1. CASE HangOther
  <2>1. UNCHANGED hangVars /\ UNCHANGED <<last_super, last_super_num, age>>
    BY <1>1 DEF HangOther, hangVars, check
  <2>2. ASSUME tx_queue' = tx_queue PROVE Watched(q)'
    BY <2>1, <2>2, WatchedQuiet
  <2>3. ASSUME NEW n \in 0 .. MaxBars - bars, HandleWlan(n) PROVE Watched(q)'
    BY <2>2, <2>3 DEF HandleWlan, fw
  <2>4. CASE DownloadClipped
    BY <2>2, <2>4 DEF DownloadClipped, fw
  <2>5. CASE StatusEnd \/ RetryEnd
    BY <2>2, <2>5 DEF StatusEnd, RetryEnd
  <2> QED
    BY <1>1, <2>1, <2>3, <2>4, <2>5, WatchedJanitor, WatchedDownload, WatchedRetry DEF HangOther
<1>2. CASE NoTick
  BY <1>2, WatchedQuiet DEF NoTick, DownloadEnd, fw, hangVars, check
<1>3. CASE SoftReset
  BY <1>3, WatchedQuiet DEF SoftReset, vars, fw, check
<1>4. ASSUME NEW p \in Queues, MacHang(p) PROVE Watched(q)'
  BY <1>4, WatchedQuiet DEF MacHang, vars, fw, check
<1>5. CASE UNCHANGED allVars
  BY <1>5, WatchedQuiet DEF allVars, vars, fw, hangVars, check
<1> QED
  BY <1>1, <1>2, <1>3, <1>4, <1>5, WatchedStatus, WatchedMac, WatchedTick DEF HangNext, HangFirmware

(* The inductive invariant of the hang check.                              *)
LEMMA HangInvInit == HangInit => HangInv
<1> SUFFICES ASSUME HangInit PROVE HangInv
  OBVIOUS
<1>1. Inv /\ TypeOK
  BY InvInit DEF HangInit, Inv, PlaceInv
<1>2. HangTypeOK
  BY <1>1, TxHangAssumption DEF HangInit, HangTypeOK, MAC_RESET_OFF, MAC_RESET_FORCE
<1>3. \A q \in Queues : Watched(q)
  BY DEF HangInit, Watched
<1>4. killed = {}
  BY DEF HangInit
<1> QED
  BY <1>1, <1>2, <1>3, <1>4 DEF HangInv, KilledOnlyWhenHung

LEMMA HangInvNext == HangInv /\ [HangNext]_allVars => HangInv'
<1> SUFFICES ASSUME HangInv, [HangNext]_allVars PROVE HangInv'
  OBVIOUS
<1>1. Inv'
  BY InvHang DEF HangInv
<1>2. HangTypeOK'
  BY HangTypes
<1>3. \A q \in Queues : Watched(q)'
  BY WatchedNext
<1>4. \A k \in killed' : k[1] # BA => Dead(k[1])'
  BY DeadHang
<1>5. KilledOnlyWhenHung'
  BY HangKills
<1>6. (\A q \in Queues : Watched(q))'
  BY <1>3
<1>7. (\A k \in killed : k[1] # BA => Dead(k[1]))'
  BY <1>4
<1> QED
  BY <1>1, <1>2, <1>5, <1>6, <1>7 DEF HangInv

LEMMA HangInvHolds == HangSpec => []HangInv
<1>1. HangInit => HangInv
  BY HangInvInit
<1>2. HangInv /\ [HangNext]_allVars => HangInv'
  BY HangInvNext
<1> QED
  BY <1>1, <1>2, PTL DEF HangSpec

(* The variables of the hang check keep their types.                       *)
THEOREM HangTypeCorrect == HangSpec => []HangTypeOK
<1>1. HangInv => HangTypeOK
  BY DEF HangInv
<1> QED
  BY <1>1, HangInvHolds, PTL

(* wlan_check_hang and wlan_mac_reset kill no frame that has been with the *)
(* MAC for fewer than TxMacReset ticks, whoever asks for the reset.        *)
THEOREM KilledWhenHung == HangSpec => []KilledOnlyWhenHung
<1>1. HangInv => KilledOnlyWhenHung
  BY DEF HangInv
<1> QED
  BY <1>1, HangInvHolds, PTL

LEMMA HangInvFails == HangInv => KilledFails
<1> SUFFICES ASSUME HangInv, NEW k \in killed, k[1] # BA
             PROVE  /\ InRetry(k[1]) = {}
                    /\ reports[k[1]] \in {<<>>, <<FALSE>>}
                    /\ \A n \in InQueue(super[k[1]].kind.queue, k[1]) :
                         tx_queue[super[k[1]].kind.queue][n].own = "SW"
  BY DEF KilledFails
<1>1. PICK d : d = k[1]
  OBVIOUS
<1>2. d \in Ids /\ Dead(d) /\ TypeOK
  BY <1>1 DEF HangInv, HangTypeOK
<1>3. super[d].kind.queue \in Queues
  BY <1>2, SuperTypes
<1>4. InRetry(d) = {} /\ reports[d] \in {<<>>, <<FALSE>>}
  BY <1>2 DEF Dead, Waits, InRetry
<1>5. \A n \in InQueue(super[d].kind.queue, d) : tx_queue[super[d].kind.queue][n].own = "SW"
  BY <1>2, <1>3 DEF Dead, InQueue
<1> QED
  BY <1>1, <1>4, <1>5

(* A frame that wlan_mac_reset killed is not sent again: it waits in its   *)
(* queue for wlan_tx_status, or is reported as a failure.                  *)
THEOREM KilledOnesFail == HangSpec => []KilledFails
<1> QED
  BY HangInvFails, HangInvHolds, PTL
=============================================================================
