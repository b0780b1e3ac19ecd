--------------------------- MODULE DmaQueueProofs ---------------------------
(***************************************************************************)
(* Proofs about DmaQueue, for any number of blocks and any longest frame:  *)
(* types, and the refinement of PacketCircuit.  The inductive invariant    *)
(* DmaInv says that there are three lists of descriptors, one for each     *)
(* queue and one for what the firmware has in its hands, that the pointers *)
(* run along them, and where on them the packets begin.                    *)
(***************************************************************************)
EXTENDS MCDmaQueue, FiniteSetTheorems, QueueLemmas, TLAPS

(* The initial pointers are those dma_init_descriptors leaves behind:      *)
(* every terminator and block is a descriptor.                             *)
LEMMA RingMembers ==
  /\ \A i \in 1 .. 3 : Terminators[i] \in Descs
  /\ \A i \in 1 .. Len(Blocks) : Blocks[i] \in Descs
  /\ \A i \in 1 .. Len(Blocks) + 1 : Ring(i) \in Descs
  /\ \A i \in 1 .. Len(Blocks) : Data(Blocks[i]) \in Payloads
<1>1. \A i \in 1 .. 3 : Terminators[i] \in Descs
  BY DmaQueueAssumption
<1>2. \A i \in 1 .. Len(Blocks) : Blocks[i] \in Descs
  BY DmaQueueAssumption
<1>3. \A i \in 1 .. Len(Blocks) + 1 : Ring(i) \in Descs
  BY <1>1, <1>2, DmaQueueAssumption DEF Ring
<1>4. \A i \in 1 .. Len(Blocks) : Data(Blocks[i]) \in Payloads
  BY DmaQueueAssumption DEF Payloads
<1> QED
  BY <1>1, <1>2, <1>3, <1>4

(* dma_init_descriptors establishes the types.                             *)
LEMMA InitTypeOK == Init => TypeOK
<1> SUFFICES ASSUME Init PROVE TypeOK
  OBVIOUS
<1>0. \A d \in Descs : InRing(d) => Index(d) \in 1 .. Len(Blocks)
  BY DEF InRing, Index
<1>1. own \in [Descs -> Owners]
  BY DEF Init, Owners
<1>2. nextAddr \in [Descs -> Descs]
  <2>1. \A d \in Descs : InRing(d) => Ring(Index(d) + 1) \in Descs
    BY <1>0, RingMembers, DmaQueueAssumption
  <2> QED
    BY <2>1 DEF Init
<1>3. lastAddr \in [Descs -> Descs]
  BY DEF Init
<1>4. dataAddr \in [Descs -> Payloads \cup {NULL}]
  <2>1. \A d \in Descs : InRing(d) => Data(Blocks[Index(d)]) \in Payloads
    BY <1>0, RingMembers
  <2>2. Reserved \in Payloads
    BY DEF Payloads
  <2> QED
    BY <2>1, <2>2 DEF Init
<1>5. head \in [Queues -> Descs] /\ terminator \in [Queues -> Descs] /\ cur \in [Queues -> Descs]
  BY RingMembers, DmaQueueAssumption DEF Init
<1> QED
  BY <1>1, <1>2, <1>3, <1>4, <1>5, RingMembers DEF Init, TypeOK

(* Taking a packet out of a queue keeps the pointers within the            *)
(* descriptors (dma_unlink_head).                                          *)
LEMMA UnlinkTypeOK ==
  ASSUME TypeOK, NEW q \in Queues, Unlink(q)
  PROVE  /\ head' \in [Queues -> Descs]
         /\ nextAddr' \in [Descs -> Descs]
         /\ lastAddr' \in [Descs -> Descs]
         /\ own' = own /\ dataAddr' = dataAddr
  BY DEF TypeOK, Unlink

(* No step of the firmware or of an engine breaks the types.               *)
LEMMA NextTypeOK == TypeOK /\ [Next]_vars => TypeOK'
<1> SUFFICES ASSUME TypeOK, [Next]_vars PROVE TypeOK'
  OBVIOUS
<1>QN. FillQ \in Queues /\ DrainQ \in Queues
  BY DEF Queues
<1>1. CASE TakeFilled
  BY <1>1, <1>QN, UnlinkTypeOK DEF TakeFilled, TypeOK, engines
<1>2. CASE TakeSent
  <2>0. Unlink(DrainQ) /\ pc = "idle" /\ terminator' = terminator
        /\ cur' = cur /\ running' = running
    BY <1>2 DEF TakeSent, engines
  <2>1. /\ head' \in [Queues -> Descs]
        /\ nextAddr' \in [Descs -> Descs]
        /\ lastAddr' \in [Descs -> Descs]
        /\ own' = own /\ dataAddr' = dataAddr
    BY <2>0, <1>QN, UnlinkTypeOK
  <2>2. head[DrainQ] \in Descs
    BY <1>QN DEF TypeOK
  <2>3. spare' \in Descs /\ available' \in BOOLEAN
    BY <1>2, <2>2 DEF TakeSent, TypeOK
  <2>4. /\ pc' \in {"idle", "put"}
        /\ IF pc' = "idle" THEN desc' = NULL /\ dest' = NULL
           ELSE desc' \in Descs /\ dest' \in Queues
        /\ tdesc' = NULL
    BY <1>2, <2>0, <2>2 DEF TakeSent, TypeOK, locals
  <2> QED
    BY <2>0, <2>1, <2>3, <2>4 DEF TypeOK
<1>3. CASE TakeSpare
  BY <1>3, <1>QN DEF TakeSpare, TypeOK, memory, engines
<1>4. CASE Prepare
  <2> DEFINE last == lastAddr[desc]
             rest == InChain(desc, last) \ {desc}
  <2>1. desc \in Descs /\ dest \in Queues /\ last \in Descs
    BY <1>4 DEF Prepare, TypeOK
  <2>2. own' \in [Descs -> Owners]
    BY <1>4 DEF Prepare, TypeOK, Owners
  <2>3. nextAddr' \in [Descs -> Descs]
    BY <1>4, <2>1 DEF Prepare, TypeOK
  <2>4. lastAddr' \in [Descs -> Descs]
    BY <1>4, <2>1 DEF Prepare, TypeOK
  <2>5. dataAddr' \in [Descs -> Payloads \cup {NULL}]
    BY <1>4, <2>1 DEF Prepare, TypeOK
  <2>6. tdesc' \in TDesc
    BY <1>4, <2>1 DEF Prepare, TypeOK, TDesc, Owners
  <2> QED
    BY <1>4, <2>1, <2>2, <2>3, <2>4, <2>5, <2>6 DEF Prepare, TypeOK, engines
<1>5. CASE CopyStatus
  BY <1>5 DEF CopyStatus, TypeOK, TDesc, engines
<1>6. CASE CopyRest
  BY <1>6 DEF CopyRest, TypeOK, TDesc, engines
<1>7. CASE Publish
  BY <1>7 DEF Publish, TypeOK, Owners, engines
<1>8. CASE Trigger
  BY <1>8 DEF Trigger, TypeOK, memory
<1>9. CASE \E n \in 1 .. MaxLen : HWFill(n)
  <2>1. PICK n \in 1 .. MaxLen : HWFill(n)
    BY <1>9
  <2>2. PICK frame \in [1 .. n -> Descs] :
          /\ own' = [d \in Descs |-> IF \E i \in 1 .. n : frame[i] = d
                                     THEN "SE" ELSE own[d]]
          /\ lastAddr' = [lastAddr EXCEPT ![frame[1]] = frame[n]]
          /\ cur' = [cur EXCEPT ![FillQ] = nextAddr[frame[n]]]
          /\ UNCHANGED <<nextAddr, dataAddr, head, terminator, running, spare,
                         available, locals>>
    BY <2>1 DEF HWFill
  <2>3. frame[1] \in Descs /\ frame[n] \in Descs
    BY DmaQueueAssumption
  <2> QED
    BY <2>2, <2>3, <1>QN DEF TypeOK, Owners, locals
<1>10. CASE HWDrain
  BY <1>10, <1>QN DEF HWDrain, TypeOK, Owners, locals
<1>11. CASE \E q \in Queues : HWStop(q)
  BY <1>11 DEF HWStop, TypeOK, memory, locals
<1>12. CASE UNCHANGED vars
  BY <1>12 DEF TypeOK, vars, memory, engines, locals
<1> QED
  BY <1>1, <1>2, <1>3, <1>4, <1>5, <1>6, <1>7, <1>8, <1>9, <1>10, <1>11, <1>12
     DEF Next, Firmware, Engines

(* Whatever the interleaving of the firmware with the engines, a pointer   *)
(* of a queue or a descriptor leads to a descriptor (dma.c:143-255).       *)
THEOREM DmaTypeCorrect == Spec => []TypeOK
<1> QED
  BY InitTypeOK, NextTypeOK, PTL DEF Spec
-----------------------------------------------------------------------------
(* The circuit.  A queue is a list x of descriptors, from its head to its  *)
(* terminator, and the places b where its packets begin; the engine is     *)
(* done with s of them.  What the firmware has in its hands is a list y:   *)
(* the packet, and once its first descriptor has been copied, what will    *)
(* follow the old terminator.  The lists share no descriptor.              *)
Links(x) == \A i \in 1 .. Len(x) - 1 : nextAddr[x[i]] = x[i + 1]
Distinct(x) == \A i, j \in 1 .. Len(x) : x[i] = x[j] => i = j
On(x) == {x[i] : i \in 1 .. Len(x)}

Shape(x, b, s) ==
  /\ x \in Seq(Descs) /\ x # <<>> /\ Distinct(x)
  /\ b \in Seq(1 .. Len(x)) /\ b # <<>> /\ b[1] = 1
  /\ \A k, l \in 1 .. Len(b) : k < l => b[k] < b[l]
  /\ s \in 0 .. Len(b) - 1

QueueRep(q, x, b, s) ==
  /\ Shape(x, b, s) /\ Links(x)
  /\ head[q] = x[1] /\ cur[q] = x[b[s + 1]] /\ terminator[q] = x[Len(x)]
  /\ \A k \in 1 .. Len(b) - 1 : lastAddr[x[b[k]]] = x[b[k + 1] - 1]
  /\ \A i \in 1 .. b[s + 1] - 1 : own[x[i]] # "HW"
  /\ \A i \in b[s + 1] .. Len(x) - 1 : own[x[i]] = "HW"
  /\ own[x[Len(x)]] # "HW"
  /\ \A i \in 1 .. Len(x) - 1 : dataAddr[x[i]] # NULL

FillRep(x, b, s) ==
  /\ QueueRep(FillQ, x, b, s)
  /\ Len(b) = s + 1
  /\ \A i \in 1 .. Len(x) - 1 : dataAddr[x[i]] # Reserved

(* The firmware's own packet is one descriptor.                            *)
DrainRep(x, b, s) ==
  /\ QueueRep(DrainQ, x, b, s)
  /\ b[Len(b)] = Len(x)
  /\ \A k \in 1 .. Len(b) - 1, i \in 1 .. Len(x) :
       b[k] <= i /\ i < b[k + 1] /\ dataAddr[x[i]] = Reserved => b[k + 1] = b[k] + 1

HeldRep(y) ==
  /\ y \in Seq(Descs) /\ Distinct(y)
  /\ pc \in {"idle", "trigger"} <=> y = <<>>
  /\ pc # "idle" => desc \in Descs /\ dest \in Queues

PutRep(y) ==
  /\ Links(y) /\ y[1] = desc /\ lastAddr[desc] = y[Len(y)]
  /\ \A i \in 1 .. Len(y) :
       /\ dataAddr[y[i]] # NULL
       /\ dataAddr[y[i]] = Reserved => Len(y) = 1 /\ dest = DrainQ

(* The packet while it is linked: c is its first descriptor, or the copy   *)
(* of it, and to is the terminator it is copied to.                        *)
LinkRep(y, c, to) ==
  /\ Links(y) /\ y[Len(y)] = desc
  /\ \A i \in 1 .. Len(y) - 1 : own[y[i]] = "HW" /\ dataAddr[y[i]] \notin {NULL, Reserved}
  /\ own[desc] # "HW" /\ dataAddr[desc] = NULL
  /\ c.nextAddr = y[1] /\ c.dataAddr # NULL
  /\ c.dataAddr = Reserved => Len(y) = 1 /\ dest = DrainQ
  /\ dest = DrainQ => c.lastAddr = IF Len(y) = 1 THEN to ELSE y[Len(y) - 1]

Copied(d) == [nextAddr |-> nextAddr[d], lastAddr |-> lastAddr[d], dataAddr |-> dataAddr[d]]

StepRep(y) ==
  /\ pc = "put" => PutRep(y)
  /\ pc \in {"status", "copy"} => LinkRep(y, tdesc, terminator[dest]) /\ tdesc.own # "HW"
  /\ pc = "publish" => LinkRep(y, Copied(terminator[dest]), terminator[dest])

ApartRep(x, z, y) ==
  /\ On(x) \cap On(z) = {} /\ On(x) \cap On(y) = {} /\ On(z) \cap On(y) = {}
  /\ available => spare \notin On(x) \cup On(z) \cup On(y)

Ends == \A q \in Queues : dataAddr[terminator[q]] = NULL \/ (pc = "publish" /\ q = dest)
SpareRep == available => lastAddr[spare] = spare /\ dataAddr[spare] = Reserved

(* A payload is in one descriptor, or in the copy.                         *)
InHand(p) == pc \in {"status", "copy"} /\ tdesc.dataAddr = p
Carriers ==
  \A p \in Payloads :
    /\ \A d, e \in Descs : dataAddr[d] = p /\ dataAddr[e] = p => d = e
    /\ InHand(p) <=> \A d \in Descs : dataAddr[d] # p

Rep(x, b, s, z, c, t, y) ==
  /\ FillRep(x, b, s) /\ DrainRep(z, c, t) /\ HeldRep(y) /\ StepRep(y)
  /\ ApartRep(x, z, y)

DmaInv ==
  /\ TypeOK /\ Ends /\ SpareRep /\ Carriers
  /\ \E x, b, s, z, c, t, y : Rep(x, b, s, z, c, t, y)
-----------------------------------------------------------------------------
(* What the recursive functions of DmaQueue are on a list.                 *)
Leads(step, x) == \A i \in 1 .. Len(x) - 1 : step[x[i]] = x[i + 1]

LEMMA AlongList ==
  ASSUME NEW step, NEW x \in Seq(Descs), Leads(step, x),
         NEW i \in 1 .. Len(x), NEW n \in 0 .. Len(x) - i
  PROVE  Along(step, x[i], n) = x[i + n]
<1> DEFINE G(g) == [m \in 0 .. n |-> IF m = 0 THEN x[i] ELSE step[g[m - 1]]]
           F == [m \in 0 .. n |-> x[i + m]]
           f == CHOOSE g : g = G(g)
<1>0. Len(x) \in Nat /\ n \in Nat
  BY LenProperties
<1>1. F = G(F)
  <2>1. ASSUME NEW m \in 0 .. n
        PROVE  F[m] = IF m = 0 THEN x[i] ELSE step[F[m - 1]]
    <3>1. CASE m = 0
      BY <1>0, <3>1
    <3>2. CASE m # 0
      <4>1. m - 1 \in 0 .. n /\ i + (m - 1) \in 1 .. Len(x) - 1 /\ (i + (m - 1)) + 1 = i + m
        BY <1>0, <3>2
      <4>2. step[x[i + (m - 1)]] = x[(i + (m - 1)) + 1]
        BY <4>1 DEF Leads
      <4>3. QED
        BY <3>2, <4>1, <4>2
    <3>3. QED
      BY <3>1, <3>2
  <2> HIDE DEF F
  <2>2. F = [m \in 0 .. n |-> F[m]]
    BY DEF F
  <2>3. QED
    BY <2>1, <2>2
<1>2. f = G(f)
  <2> HIDE DEF F, G
  <2>1. QED
    BY <1>1
<1> HIDE DEF f
<1>3. \A m \in 0 .. n : f[m] = IF m = 0 THEN x[i] ELSE step[f[m - 1]]
  BY <1>2
<1>4. \A m \in 0 .. n : f[m] = x[i + m]
  <2> DEFINE T == {m \in 0 .. n : f[m] # x[i + m]}
  <2> SUFFICES ASSUME T # {} PROVE FALSE
    OBVIOUS
  <2>1. PICK m \in T : \A k \in T : m <= k
    <3>1. T \in SUBSET Nat
      OBVIOUS
    <3> HIDE DEF T
    <3>2. QED
      BY <3>1, LeastNatural
  <2>2. m # 0
    BY <1>0, <1>3, <2>1
  <2> DEFINE k == m - 1
  <2>3. k \in 0 .. n /\ i + k \in 1 .. Len(x) - 1 /\ (i + k) + 1 = i + m /\ ~(m <= k)
    BY <1>0, <2>1, <2>2
  <2>4. f[m] = step[f[k]]
    BY <1>3, <2>1, <2>2
  <2> HIDE DEF k
  <2>5. f[k] = x[i + k]
    BY <2>1, <2>3
  <2>6. f[m] = x[i + m]
    BY <2>3, <2>4, <2>5 DEF Leads
  <2>7. QED
    BY <2>1, <2>6
<1>5. Along(step, x[i], n) = f[n]
  BY DEF Along, f
<1>6. QED
  BY <1>0, <1>4, <1>5

(* There are no more descriptors than terminators and blocks.              *)
LEMMA DescsFinite ==
  IsFiniteSet(Descs) /\ Cardinality(Descs) \in Nat /\ Cardinality(Descs) <= Len(Blocks) + 3
<1> DEFINE n == Len(Blocks) + 3
           F == [i \in 1 .. n |-> IF i <= 3 THEN Terminators[i] ELSE Blocks[i - 3]]
<1>0. Len(Blocks) \in Nat \ {0} /\ n \in Nat
  BY DmaQueueAssumption
<1>1. /\ DOMAIN Terminators = 1 .. 3 /\ DOMAIN Blocks = 1 .. Len(Blocks)
      /\ \A i \in 1 .. 3 : Terminators[i] \in Descs
      /\ \A i \in 1 .. Len(Blocks) : Blocks[i] \in Descs
  BY DmaQueueAssumption
<1>2. \A i \in 1 .. n : F[i] \in Descs
  <2> SUFFICES ASSUME NEW i \in 1 .. n PROVE F[i] \in Descs
    OBVIOUS
  <2>1. CASE i <= 3
    BY <1>0, <1>1, <2>1
  <2>2. CASE i > 3
    <3>1. i - 3 \in 1 .. Len(Blocks) /\ ~(i <= 3)
      BY <1>0, <2>2
    <3>2. QED
      BY <1>1, <3>1
  <2>3. QED
    BY <1>0, <2>1, <2>2
<1>3. ASSUME NEW d \in Descs PROVE \E i \in 1 .. n : F[i] = d
  <2>1. CASE \E i \in DOMAIN Terminators : d = Terminators[i]
    <3>1. PICK i \in 1 .. 3 : d = Terminators[i]
      BY <1>1, <2>1
    <3>2. i \in 1 .. n /\ F[i] = d
      BY <1>0, <3>1
    <3>3. QED
      BY <3>2
  <2>2. CASE \E i \in DOMAIN Blocks : d = Blocks[i]
    <3>1. PICK i \in 1 .. Len(Blocks) : d = Blocks[i]
      BY <1>1, <2>2
    <3> DEFINE j == i + 3
    <3>2. j \in 1 .. n /\ j - 3 = i /\ ~(j <= 3)
      BY <1>0
    <3> HIDE DEF j
    <3>3. F[j] = d
      BY <3>1, <3>2
    <3>4. QED
      BY <3>2, <3>3
  <2>3. QED
    BY <2>1, <2>2 DEF Descs
<1> HIDE DEF F
<1>4. F \in Surjection(1 .. n, Descs)
  <2>1. F \in [1 .. n -> Descs]
    BY <1>2 DEF F
  <2>2. QED
    BY <1>3, <2>1 DEF Surjection
<1>5. IsFiniteSet(1 .. n) /\ Cardinality(1 .. n) = n
  BY <1>0, UpTo
<1>6. IsFiniteSet(Descs) /\ Cardinality(Descs) <= Cardinality(1 .. n)
  <2> HIDE DEF n
  <2>1. QED
    BY <1>4, <1>5, FS_Surjection
<1>7. Cardinality(Descs) \in Nat
  BY <1>6, FS_CardinalityType
<1>8. QED
  BY <1>0, <1>5, <1>6, <1>7

LEMMA ListBound ==
  ASSUME NEW x \in Seq(Descs), Distinct(x)
  PROVE  Len(x) \in Nat /\ Len(x) <= Len(Blocks) + 3
<1>1. Len(x) \in Nat /\ DOMAIN x = 1 .. Len(x)
  BY LenProperties
<1>2. x \in Injection(1 .. Len(x), Descs)
  BY <1>1 DEF Injection, Distinct, IsInjective
<1>3. IsFiniteSet(1 .. Len(x)) /\ Cardinality(1 .. Len(x)) = Len(x)
  BY <1>1, UpTo
<1>4. Cardinality(1 .. Len(x)) <= Cardinality(Descs)
  BY <1>2, DescsFinite, FS_Injection
<1>5. QED
  BY <1>1, <1>3, <1>4, DescsFinite, DmaQueueAssumption

LEMMA StepsAlong ==
  ASSUME NEW step, NEW x \in Seq(Descs), Leads(step, x), Distinct(x),
         NEW i \in 1 .. Len(x), NEW j \in i .. Len(x)
  PROVE  Steps(step, x[i], x[j]) = j - i
<1> DEFINE P(n) == /\ Along(step, x[i], n) = x[j]
                   /\ \A m \in 0 .. n - 1 : Along(step, x[i], m) # x[j]
<1>0. Len(x) \in Nat /\ Len(x) <= Len(Blocks) + 3 /\ Len(Blocks) \in Nat
  BY ListBound, DmaQueueAssumption
<1>1. \A m \in 0 .. Len(x) - i : Along(step, x[i], m) = x[i + m]
  BY AlongList
<1>2. j - i \in 0 .. Len(Blocks) + 2 /\ j - i \in 0 .. Len(x) - i /\ i + (j - i) = j
  BY <1>0
<1>3. \A m \in 0 .. Len(x) - i : m # j - i => Along(step, x[i], m) # x[j]
  <2> SUFFICES ASSUME NEW m \in 0 .. Len(x) - i, m # j - i PROVE x[i + m] # x[j]
    BY <1>1
  <2>1. i + m \in 1 .. Len(x) /\ j \in 1 .. Len(x) /\ i + m # j
    BY <1>0
  <2>2. QED
    BY <2>1 DEF Distinct
<1>4. Along(step, x[i], j - i) = x[j]
  BY <1>1, <1>2
<1>5. P(j - i)
  BY <1>0, <1>3, <1>4
<1>6. ASSUME NEW n \in 0 .. Len(Blocks) + 2, P(n) PROVE n = j - i
  <2>1. CASE n < j - i
    <3>1. n \in 0 .. Len(x) - i /\ n # j - i
      BY <1>0, <2>1
    <3>2. QED
      BY <1>3, <1>6, <3>1
  <2>2. CASE n > j - i
    <3>1. j - i \in 0 .. n - 1
      BY <1>0, <2>2
    <3>2. QED
      BY <1>4, <1>6, <3>1
  <2>3. QED
    BY <1>0, <2>1, <2>2
<1>7. Steps(step, x[i], x[j]) = CHOOSE n \in 0 .. Len(Blocks) + 2 : P(n)
  BY DEF Steps
<1> HIDE DEF P
<1>8. QED
  BY <1>2, <1>5, <1>6, <1>7

LEMMA LinksLead ==
  ASSUME NEW x, Links(x)
  PROVE  Leads(nextAddr, x)
BY DEF Links, Leads

LEMMA ChainAlong ==
  ASSUME NEW x \in Seq(Descs), Links(x), Distinct(x),
         NEW i \in 1 .. Len(x), NEW j \in i .. Len(x)
  PROVE  /\ Distance(x[i], x[j]) = j - i
         /\ InChain(x[i], x[j]) = {x[k] : k \in i .. j}
<1>0. Len(x) \in Nat
  BY LenProperties
<1>1. Distance(x[i], x[j]) = j - i
  BY LinksLead, StepsAlong DEF Distance
<1>2. \A n \in 0 .. j - i : Hop(x[i], n) = x[i + n]
  BY <1>0, LinksLead, AlongList DEF Hop
<1>3. InChain(x[i], x[j]) = {x[i + n] : n \in 0 .. j - i}
  BY <1>1, <1>2 DEF InChain
<1>4. {x[i + n] : n \in 0 .. j - i} = {x[k] : k \in i .. j}
  <2>1. ASSUME NEW n \in 0 .. j - i PROVE i + n \in i .. j
    BY <1>0
  <2>2. ASSUME NEW k \in i .. j PROVE k - i \in 0 .. j - i /\ i + (k - i) = k
    BY <1>0
  <2>3. {x[i + n] : n \in 0 .. j - i} \subseteq {x[k] : k \in i .. j}
    BY <2>1
  <2>4. {x[k] : k \in i .. j} \subseteq {x[i + n] : n \in 0 .. j - i}
    BY <2>2
  <2>5. QED
    BY <2>3, <2>4
<1>5. QED
  BY <1>1, <1>3, <1>4

(* The payloads of the places from i up to before j.                       *)
Payload(x, i, j) == [k \in 1 .. j - i |-> dataAddr[x[i + k - 1]]]

LEMMA DataAlong ==
  ASSUME NEW x \in Seq(Descs), Links(x),
         NEW i \in 1 .. Len(x), NEW j \in i .. Len(x) + 1
  PROVE  DataFrom(x[i], j - i) = Payload(x, i, j)
<1>0. Len(x) \in Nat
  BY LenProperties
<1>1. ASSUME NEW k \in 1 .. j - i PROVE Hop(x[i], k - 1) = x[i + k - 1]
  <2> DEFINE m == k - 1
  <2>1. m \in 0 .. Len(x) - i /\ i + m = i + k - 1
    BY <1>0
  <2> HIDE DEF m
  <2>2. Along(nextAddr, x[i], m) = x[i + m]
    BY <2>1, LinksLead, AlongList
  <2>3. QED
    BY <2>1, <2>2 DEF Hop, m
<1>2. QED
  BY <1>1 DEF DataFrom, Payload

LEMMA PacketAlong ==
  ASSUME NEW x \in Seq(Descs), Links(x), Distinct(x),
         NEW i \in 1 .. Len(x), NEW j \in i + 1 .. Len(x) + 1, lastAddr[x[i]] = x[j - 1]
  PROVE  PacketAt(x[i]) = Payload(x, i, j)
<1>0. Len(x) \in Nat /\ j - 1 \in i .. Len(x)
  BY LenProperties
<1>1. Distance(x[i], x[j - 1]) = (j - 1) - i
  BY <1>0, ChainAlong
<1>2. Distance(x[i], lastAddr[x[i]]) + 1 = j - i
  BY <1>0, <1>1
<1>3. j \in i .. Len(x) + 1
  BY <1>0
<1>4. QED
  BY <1>2, <1>3, DataAlong DEF PacketAt

(* The places where packets begin are a list by themselves.                *)
Firsts(x, b) == [k \in 1 .. Len(b) |-> x[b[k]]]

LEMMA ShapeFacts ==
  ASSUME NEW x, NEW b, NEW s, Shape(x, b, s)
  PROVE  /\ x \in Seq(Descs) /\ Len(x) \in Nat \ {0} /\ DOMAIN x = 1 .. Len(x)
         /\ \A i \in 1 .. Len(x) : x[i] \in Descs
         /\ b \in Seq(1 .. Len(x)) /\ Len(b) \in Nat \ {0} /\ DOMAIN b = 1 .. Len(b)
         /\ \A k \in 1 .. Len(b) : b[k] \in 1 .. Len(x)
         /\ b[1] = 1 /\ s + 1 \in 1 .. Len(b) /\ s \in Nat
         /\ \A k \in 1 .. Len(b) - 1 : b[k] < b[k + 1] /\ b[k + 1] - 1 \in b[k] .. Len(x) - 1
<1>1. x \in Seq(Descs) /\ x # <<>> /\ b \in Seq(1 .. Len(x)) /\ b # <<>> /\ s \in 0 .. Len(b) - 1
  BY DEF Shape
<1>2. Len(x) \in Nat \ {0} /\ DOMAIN x = 1 .. Len(x) /\ \A i \in 1 .. Len(x) : x[i] \in Descs
  BY <1>1, EmptySeq, LenProperties
<1>3. Len(b) \in Nat \ {0} /\ DOMAIN b = 1 .. Len(b) /\ \A k \in 1 .. Len(b) : b[k] \in 1 .. Len(x)
  BY <1>1, EmptySeq, LenProperties
<1>4. ASSUME NEW k \in 1 .. Len(b) - 1
      PROVE  b[k] < b[k + 1] /\ b[k + 1] - 1 \in b[k] .. Len(x) - 1
  <2>1. k \in 1 .. Len(b) /\ k + 1 \in 1 .. Len(b) /\ k < k + 1
    BY <1>3
  <2>2. b[k] < b[k + 1] /\ b[k] \in 1 .. Len(x) /\ b[k + 1] \in 1 .. Len(x)
    BY <1>3, <2>1 DEF Shape
  <2>3. QED
    BY <1>2, <2>2
<1>5. s + 1 \in 1 .. Len(b) /\ s \in Nat
  BY <1>1, <1>3
<1>6. QED
  BY <1>1, <1>2, <1>3, <1>4, <1>5 DEF Shape

LEMMA FirstsList ==
  ASSUME NEW q, NEW x, NEW b, NEW s, QueueRep(q, x, b, s)
  PROVE  /\ Firsts(x, b) \in Seq(Descs) /\ Len(Firsts(x, b)) = Len(b)
         /\ Distinct(Firsts(x, b)) /\ Leads(behind, Firsts(x, b))
<1> DEFINE u == Firsts(x, b)
<1>0. Shape(x, b, s)
  BY DEF QueueRep
<1>1. u \in [1 .. Len(b) -> Descs]
  BY <1>0, ShapeFacts DEF Firsts
<1>2. u \in Seq(Descs) /\ Len(u) = Len(b)
  BY <1>0, <1>1, ShapeFacts
<1>3. Distinct(u)
  <2> SUFFICES ASSUME NEW k \in 1 .. Len(b), NEW l \in 1 .. Len(b), x[b[k]] = x[b[l]]
               PROVE  k = l
    BY <1>2 DEF Distinct, Firsts
  <2>0. b[k] \in 1 .. Len(x) /\ b[l] \in 1 .. Len(x) /\ Len(x) \in Nat
    BY <1>0, ShapeFacts
  <2>1. b[k] = b[l] /\ b[k] \in Nat /\ b[l] \in Nat
    <3> DEFINE e == b[k]
               f == b[l]
    <3>1. e \in 1 .. Len(x) /\ f \in 1 .. Len(x) /\ x[e] = x[f] /\ Len(x) \in Nat
      BY <2>0
    <3>2. \A i, j \in 1 .. Len(x) : x[i] = x[j] => i = j
      BY <1>0 DEF Shape, Distinct
    <3> HIDE DEF e, f
    <3>3. e = f /\ e \in Nat /\ f \in Nat
      BY <3>1, <3>2
    <3>4. QED
      BY <3>3 DEF e, f
  <2>2. ~(k < l) /\ ~(l < k)
    BY <1>0, <2>1 DEF Shape
  <2>3. QED
    BY <2>2
<1>4. ASSUME NEW k \in 1 .. Len(b) - 1 PROVE behind[u[k]] = u[k + 1]
  <2>1. k \in 1 .. Len(b) /\ k + 1 \in 1 .. Len(b)
    BY <1>0, ShapeFacts
  <2> DEFINE e == b[k]
             f == b[k + 1]
  <2>a. e \in 1 .. Len(x) /\ f \in 1 .. Len(x) /\ f - 1 \in e .. Len(x) - 1 /\ Len(x) \in Nat
    BY <1>0, <2>1, ShapeFacts
  <2>b. \A i \in 1 .. Len(x) : x[i] \in Descs
    BY <1>0, ShapeFacts
  <2>2. b[k + 1] - 1 \in 1 .. Len(x) - 1 /\ (b[k + 1] - 1) + 1 = b[k + 1] /\ x[b[k]] \in Descs
    <3> HIDE DEF e, f
    <3>1. f - 1 \in 1 .. Len(x) - 1 /\ (f - 1) + 1 = f /\ x[e] \in Descs
      BY <2>a, <2>b
    <3>2. QED
      BY <3>1 DEF e, f
  <2>3. lastAddr[x[b[k]]] = x[b[k + 1] - 1]
    BY DEF QueueRep
  <2>4. nextAddr[x[b[k + 1] - 1]] = x[b[k + 1]]
    BY <2>2 DEF QueueRep, Links
  <2>5. behind[x[b[k]]] = x[b[k + 1]]
    BY <2>2, <2>3, <2>4 DEF behind
  <2>6. QED
    BY <2>1, <2>5 DEF Firsts
<1>5. QED
  BY <1>2, <1>3, <1>4 DEF Leads

LEMMA PacketsAlong ==
  ASSUME NEW q, NEW x, NEW b, NEW s, QueueRep(q, x, b, s),
         NEW k \in 1 .. Len(b), NEW l \in k .. Len(b)
  PROVE  Packets(x[b[k]], x[b[l]]) = [m \in 1 .. l - k |-> Payload(x, b[k + m - 1], b[k + m])]
<1> DEFINE u == Firsts(x, b)
<1>0. Shape(x, b, s) /\ Links(x) /\ Distinct(x)
  BY DEF QueueRep, Shape
<1>1. u \in Seq(Descs) /\ Len(u) = Len(b) /\ Distinct(u) /\ Leads(behind, u)
  BY FirstsList
<1>2. /\ l \in 1 .. Len(b) /\ Len(b) \in Nat
      /\ u[k] = x[b[k]] /\ u[l] = x[b[l]]
      /\ \A m \in 1 .. Len(b) : u[m] = x[b[m]]
  BY <1>0, ShapeFacts DEF Firsts
<1> HIDE DEF u
<1>3. Steps(behind, u[k], u[l]) = l - k
  BY <1>1, <1>2, StepsAlong
<1>4. ASSUME NEW m \in 1 .. l - k
      PROVE  PacketAt(Along(behind, u[k], m - 1)) = Payload(x, b[k + m - 1], b[k + m])
  <2> DEFINE n == m - 1
             o == k + m - 1
  <2> DEFINE g == Len(u)
             h == Len(b)
  <2>n. g = h /\ h \in Nat /\ k \in 1 .. h /\ l \in k .. h
    BY <1>1, <1>2
  <2>1. n \in 0 .. Len(u) - k /\ o = k + n /\ o \in 1 .. Len(b) - 1 /\ o + 1 = k + m
    <3> HIDE DEF g, h
    <3>1. n \in 0 .. g - k /\ o = k + n /\ o \in 1 .. h - 1 /\ o + 1 = k + m
      BY <2>n
    <3>2. QED
      BY <3>1 DEF g, h
  <2> HIDE DEF n, o
  <2>2. Along(behind, u[k], n) = u[o]
    BY <1>1, <1>2, <2>1, AlongList
  <2>3. u[o] = x[b[o]]
    BY <1>2, <2>1
  <2>4. lastAddr[x[b[o]]] = x[b[o + 1] - 1]
    BY <2>1 DEF QueueRep
  <2>a. /\ x \in Seq(Descs) /\ Len(x) \in Nat /\ Len(b) \in Nat
        /\ \A v \in 1 .. Len(b) : b[v] \in 1 .. Len(x)
        /\ \A v \in 1 .. Len(b) - 1 : b[v] < b[v + 1]
    BY <1>0, ShapeFacts
  <2>b. o \in 1 .. Len(b) /\ o + 1 \in 1 .. Len(b)
    BY <2>1, <2>a
  <2>c. b[o] \in 1 .. Len(x) /\ b[o + 1] \in 1 .. Len(x) /\ b[o] < b[o + 1]
    BY <2>1, <2>a, <2>b
  <2>5. b[o] \in 1 .. Len(x) /\ b[o + 1] \in b[o] + 1 .. Len(x) + 1 /\ x \in Seq(Descs)
    BY <2>a, <2>c
  <2>6. PacketAt(x[b[o]]) = Payload(x, b[o], b[o + 1])
    BY <1>0, <2>4, <2>5, PacketAlong
  <2>7. QED
    BY <2>1, <2>2, <2>3, <2>6 DEF n, o
<1>5. QED
  BY <1>2, <1>3, <1>4 DEF Packets
-----------------------------------------------------------------------------
(* What a step leaves of a queue that it does not touch: nothing it does   *)
(* to the terminator matters, as long as the hardware does not own it.     *)
Untouched(q, x) ==
  /\ head'[q] = head[q] /\ cur'[q] = cur[q] /\ terminator'[q] = terminator[q]
  /\ \A i \in 1 .. Len(x) : own'[x[i]] = "HW" <=> own[x[i]] = "HW"
  /\ \A i \in 1 .. Len(x) - 1 :
       /\ nextAddr'[x[i]] = nextAddr[x[i]]
       /\ lastAddr'[x[i]] = lastAddr[x[i]]
       /\ dataAddr'[x[i]] = dataAddr[x[i]]

LEMMA PlaceFacts ==
  ASSUME NEW x, NEW b, NEW s, Shape(x, b, s)
  PROVE  /\ \A k \in 1 .. Len(b) - 1 : b[k] \in 1 .. Len(x) - 1
         /\ b[s + 1] \in 1 .. Len(x)
         /\ \A i \in 1 .. b[s + 1] - 1 : i \in 1 .. Len(x) - 1
<1>1. /\ Len(x) \in Nat /\ Len(b) \in Nat /\ s + 1 \in 1 .. Len(b)
      /\ \A k \in 1 .. Len(b) : b[k] \in 1 .. Len(x)
      /\ \A k \in 1 .. Len(b) - 1 : b[k] < b[k + 1]
  BY ShapeFacts
<1>2. ASSUME NEW k \in 1 .. Len(b) - 1 PROVE b[k] \in 1 .. Len(x) - 1
  <2>1. k \in 1 .. Len(b) /\ k + 1 \in 1 .. Len(b)
    BY <1>1
  <2>2. b[k] \in 1 .. Len(x) /\ b[k + 1] \in 1 .. Len(x) /\ b[k] < b[k + 1]
    BY <1>1, <2>1
  <2>3. QED
    BY <1>1, <2>2
<1>3. b[s + 1] \in 1 .. Len(x)
  BY <1>1
<1>4. QED
  BY <1>1, <1>2, <1>3

LEMMA QueueKept ==
  ASSUME NEW q, NEW x, NEW b, NEW s, QueueRep(q, x, b, s), Untouched(q, x)
  PROVE  QueueRep(q, x, b, s)'
<1>0. Shape(x, b, s) /\ Links(x)
  BY DEF QueueRep
<1>1. /\ \A k \in 1 .. Len(b) - 1 : b[k] \in 1 .. Len(x) - 1
      /\ b[s + 1] \in 1 .. Len(x)
      /\ \A i \in 1 .. b[s + 1] - 1 : i \in 1 .. Len(x) - 1
      /\ Len(x) \in Nat \ {0}
  BY <1>0, PlaceFacts, ShapeFacts
<1>2. Shape(x, b, s)'
  BY <1>0 DEF Shape
<1>3. Links(x)'
  BY <1>0 DEF Links, Untouched
<1>4. head'[q] = x[1] /\ cur'[q] = x[b[s + 1]] /\ terminator'[q] = x[Len(x)]
  BY DEF QueueRep, Untouched
<1>5. \A k \in 1 .. Len(b) - 1 : lastAddr'[x[b[k]]] = x[b[k + 1] - 1]
  <2> SUFFICES ASSUME NEW k \in 1 .. Len(b) - 1 PROVE lastAddr'[x[b[k]]] = x[b[k + 1] - 1]
    OBVIOUS
  <2> DEFINE m == b[k]
  <2>1. m \in 1 .. Len(x) - 1 /\ lastAddr[x[m]] = x[b[k + 1] - 1]
    BY <1>1 DEF QueueRep
  <2> HIDE DEF m
  <2>2. lastAddr'[x[m]] = lastAddr[x[m]]
    BY <2>1 DEF Untouched
  <2>3. QED
    BY <2>1, <2>2 DEF m
<1>6. \A i \in 1 .. b[s + 1] - 1 : own'[x[i]] # "HW"
  <2> SUFFICES ASSUME NEW i \in 1 .. b[s + 1] - 1 PROVE own'[x[i]] # "HW"
    OBVIOUS
  <2>1. i \in 1 .. Len(x) /\ own[x[i]] # "HW"
    BY <1>1 DEF QueueRep
  <2>2. QED
    BY <2>1 DEF Untouched
<1>7. \A i \in b[s + 1] .. Len(x) - 1 : own'[x[i]] = "HW"
  <2> SUFFICES ASSUME NEW i \in b[s + 1] .. Len(x) - 1 PROVE own'[x[i]] = "HW"
    OBVIOUS
  <2>1. i \in 1 .. Len(x) /\ own[x[i]] = "HW"
    BY <1>1 DEF QueueRep
  <2>2. QED
    BY <2>1 DEF Untouched
<1>8. own'[x[Len(x)]] # "HW"
  <2>1. Len(x) \in 1 .. Len(x) /\ own[x[Len(x)]] # "HW"
    BY <1>1 DEF QueueRep
  <2>2. QED
    BY <2>1 DEF Untouched
<1>9. \A i \in 1 .. Len(x) - 1 : dataAddr'[x[i]] # NULL
  BY DEF QueueRep, Untouched
<1>10. QED
  BY <1>2, <1>3, <1>4, <1>5, <1>6, <1>7, <1>8, <1>9 DEF QueueRep

LEMMA FillKept ==
  ASSUME NEW x, NEW b, NEW s, FillRep(x, b, s), Untouched(FillQ, x)
  PROVE  FillRep(x, b, s)'
<1>1. QueueRep(FillQ, x, b, s)'
  BY QueueKept DEF FillRep
<1>2. \A i \in 1 .. Len(x) - 1 : dataAddr'[x[i]] # Reserved
  BY DEF FillRep, Untouched
<1>3. QED
  BY <1>1, <1>2 DEF FillRep

LEMMA DrainKept ==
  ASSUME NEW x, NEW b, NEW s, DrainRep(x, b, s), Untouched(DrainQ, x)
  PROVE  DrainRep(x, b, s)'
<1>1. QueueRep(DrainQ, x, b, s)'
  BY QueueKept DEF DrainRep
<1>2. Len(x) \in Nat /\ Len(b) \in Nat /\ \A k \in 1 .. Len(b) : b[k] \in 1 .. Len(x)
  BY ShapeFacts DEF DrainRep, QueueRep
<1>3. ASSUME NEW k \in 1 .. Len(b) - 1, NEW i \in 1 .. Len(x),
             b[k] <= i, i < b[k + 1], dataAddr'[x[i]] = Reserved
      PROVE  b[k + 1] = b[k] + 1
  <2>1. b[k + 1] \in 1 .. Len(x)
    BY <1>2
  <2>2. i \in 1 .. Len(x) - 1
    BY <1>2, <1>3, <2>1
  <2>3. dataAddr[x[i]] = Reserved
    BY <1>3, <2>2 DEF Untouched
  <2>4. QED
    BY <1>3, <2>3 DEF DrainRep
<1>4. QED
  BY <1>1, <1>3 DEF DrainRep
-----------------------------------------------------------------------------
(* dma_unlink_head: the list from the second packet on stays, the first    *)
(* packet is in the firmware's hands.                                      *)
Part(x, n) == [i \in 1 .. n |-> x[i]]
Cut(x, n) == [i \in 1 .. Len(x) - n + 1 |-> x[i + n - 1]]
CutPlaces(b) == [k \in 1 .. Len(b) - 1 |-> b[k + 1] - b[2] + 1]

LEMMA SecondPlace ==
  ASSUME NEW x, NEW b, NEW s, Shape(x, b, s), s # 0
  PROVE  /\ s \in Nat \ {0} /\ s - 1 \in Nat /\ Len(b) \in Nat /\ 2 <= Len(b)
         /\ b[2] \in 2 .. Len(x)
         /\ \A k \in 2 .. Len(b) : b[k] \in b[2] .. Len(x)
<1>0. /\ Len(x) \in Nat /\ Len(b) \in Nat /\ s \in 0 .. Len(b) - 1
      /\ \A k \in 1 .. Len(b) : b[k] \in 1 .. Len(x)
      /\ \A k, l \in 1 .. Len(b) : k < l => b[k] < b[l]
      /\ b[1] = 1
  BY ShapeFacts DEF Shape
<1>1. s \in Nat \ {0} /\ s - 1 \in Nat /\ Len(b) \in Nat /\ 2 <= Len(b)
  BY <1>0
<1>2. b[2] \in 2 .. Len(x)
  <2>1. 1 \in 1 .. Len(b) /\ 2 \in 1 .. Len(b)
    BY <1>1
  <2>2. QED
    BY <1>0, <2>1
<1>3. ASSUME NEW k \in 2 .. Len(b) PROVE b[k] \in b[2] .. Len(x)
  <2>1. 2 \in 1 .. Len(b) /\ k \in 1 .. Len(b) /\ (k = 2 \/ 2 < k)
    BY <1>1
  <2>2. b[k] \in 1 .. Len(x) /\ (b[k] = b[2] \/ b[2] < b[k])
    BY <1>0, <2>1
  <2>3. QED
    BY <1>0, <1>2, <2>2
<1>4. QED
  BY <1>1, <1>2, <1>3

LEMMA CutShape ==
  ASSUME NEW x, NEW b, NEW s, Shape(x, b, s), s # 0
  PROVE  /\ Shape(Cut(x, b[2]), CutPlaces(b), s - 1)
         /\ Len(Cut(x, b[2])) = Len(x) - b[2] + 1 /\ Len(CutPlaces(b)) = Len(b) - 1
         /\ \A i \in 1 .. Len(x) - b[2] + 1 : Cut(x, b[2])[i] = x[i + b[2] - 1]
         /\ \A k \in 1 .. Len(b) - 1 : CutPlaces(b)[k] = b[k + 1] - b[2] + 1
<1> DEFINE m == b[2]
           u == Cut(x, m)
           c == CutPlaces(b)
<1>0. /\ Len(x) \in Nat /\ Len(b) \in Nat /\ 2 <= Len(b) /\ s \in 1 .. Len(b) - 1
      /\ \A i \in 1 .. Len(x) : x[i] \in Descs
      /\ \A k \in 1 .. Len(b) : b[k] \in 1 .. Len(x)
      /\ \A k, l \in 1 .. Len(b) : k < l => b[k] < b[l]
      /\ \A i, j \in 1 .. Len(x) : x[i] = x[j] => i = j
      /\ m \in 2 .. Len(x) /\ \A k \in 2 .. Len(b) : b[k] \in m .. Len(x)
  <2>1. /\ Len(x) \in Nat /\ Len(b) \in Nat /\ s \in 0 .. Len(b) - 1
        /\ \A i \in 1 .. Len(x) : x[i] \in Descs
        /\ \A k \in 1 .. Len(b) : b[k] \in 1 .. Len(x)
    BY ShapeFacts DEF Shape
  <2>2. /\ \A k, l \in 1 .. Len(b) : k < l => b[k] < b[l]
        /\ \A i, j \in 1 .. Len(x) : x[i] = x[j] => i = j
    BY DEF Shape, Distinct
  <2>3. 2 <= Len(b) /\ m \in 2 .. Len(x) /\ \A k \in 2 .. Len(b) : b[k] \in m .. Len(x)
    BY SecondPlace
  <2>4. s \in 1 .. Len(b) - 1
    BY <2>1
  <2>5. QED
    BY <2>1, <2>2, <2>3, <2>4
<1>a. m \in Nat /\ 2 <= m /\ m <= Len(x) /\ Len(x) \in Nat
  BY <1>0
<1>1. /\ \A i \in 1 .. Len(x) - m + 1 : i + m - 1 \in 1 .. Len(x)
      /\ Len(x) - m + 1 \in Nat \ {0} /\ Len(b) - 1 \in Nat \ {0}
  BY <1>0
<1>2. u \in [1 .. Len(x) - m + 1 -> Descs]
  BY <1>0, <1>1 DEF Cut
<1>3. u \in Seq(Descs) /\ Len(u) = Len(x) - m + 1
  BY <1>1, <1>2
<1>4. \A i \in 1 .. Len(u) : u[i] = x[i + m - 1]
  BY <1>3 DEF Cut
<1>5. ASSUME NEW k \in 1 .. Len(b) - 1
      PROVE  c[k] = b[k + 1] - m + 1 /\ c[k] \in 1 .. Len(u) /\ b[k + 1] \in Nat
  <2>1. c[k] = b[k + 1] - m + 1 /\ k + 1 \in 2 .. Len(b)
    BY <1>0 DEF CutPlaces
  <2>2. b[k + 1] \in m .. Len(x)
    BY <1>0, <2>1
  <2>3. QED
    <3> DEFINE e == b[k + 1]
    <3>1. e \in m .. Len(x) /\ Len(u) = Len(x) - m + 1
      BY <1>3, <2>2
    <3> HIDE DEF m, e, u, c
    <3>2. e - m + 1 \in 1 .. Len(u) /\ e \in Nat
      BY <1>a, <3>1
    <3>3. c[k] = e - m + 1
      BY <2>1 DEF e
    <3>4. QED
      BY <3>2, <3>3 DEF e
<1>6. c \in [1 .. Len(b) - 1 -> 1 .. Len(u)]
  BY <1>5 DEF CutPlaces
<1>7. c \in Seq(1 .. Len(u)) /\ Len(c) = Len(b) - 1
  BY <1>1, <1>6
<1>8. u # <<>> /\ c # <<>>
  BY <1>1, <1>3, <1>7, EmptySeq
<1>9. c[1] = 1
  <2>1. 1 \in 1 .. Len(b) - 1 /\ 1 + 1 = 2
    BY <1>0
  <2>2. QED
    BY <1>0, <1>5, <2>1
<1>10. ASSUME NEW k \in 1 .. Len(c), NEW l \in 1 .. Len(c), k < l PROVE c[k] < c[l]
  <2>1. k + 1 \in 1 .. Len(b) /\ l + 1 \in 1 .. Len(b) /\ k + 1 < l + 1
    BY <1>0, <1>7, <1>10
  <2>2. b[k + 1] < b[l + 1] /\ b[k + 1] \in Nat /\ b[l + 1] \in Nat
    BY <1>0, <2>1
  <2>3. c[k] = b[k + 1] - m + 1 /\ c[l] = b[l + 1] - m + 1
    BY <1>5, <1>7
  <2> DEFINE v == b[k + 1]
             w == b[l + 1]
  <2> HIDE DEF v, w, m, c
  <2>4. v < w /\ v \in Nat /\ w \in Nat /\ c[k] = v - m + 1 /\ c[l] = w - m + 1
    BY <2>2, <2>3 DEF v, w
  <2>5. v - m + 1 < w - m + 1
    BY <1>a, <2>4
  <2>6. QED
    BY <2>4, <2>5
<1>11. Distinct(u)
  <2> SUFFICES ASSUME NEW i \in 1 .. Len(u), NEW j \in 1 .. Len(u), u[i] = u[j] PROVE i = j
    BY DEF Distinct
  <2>1. i + m - 1 \in 1 .. Len(x) /\ j + m - 1 \in 1 .. Len(x)
    BY <1>1, <1>3
  <2>2. x[i + m - 1] = x[j + m - 1]
    BY <1>4
  <2>3. i + m - 1 = j + m - 1
    BY <1>0, <2>1, <2>2
  <2>4. QED
    BY <1>0, <2>3
<1>12. s - 1 \in 0 .. Len(c) - 1
  BY <1>0, <1>7
<1> HIDE DEF u, c
<1>13. Shape(u, c, s - 1)
  BY <1>3, <1>7, <1>8, <1>9, <1>10, <1>11, <1>12 DEF Shape
<1>14. QED
  BY <1>3, <1>4, <1>5, <1>7, <1>13 DEF u, c

(* Something is completed only where the engine is done with a packet.     *)
LEMMA CompletedFirst ==
  ASSUME NEW q, NEW x, NEW b, NEW s, QueueRep(q, x, b, s), Completed(q)
  PROVE  /\ s # 0 /\ head[q] = x[1]
         /\ lastAddr[x[1]] = x[b[2] - 1] /\ nextAddr[x[b[2] - 1]] = x[b[2]]
<1>0. /\ Shape(x, b, s) /\ Links(x) /\ head[q] = x[1] /\ terminator[q] = x[Len(x)]
      /\ \A i \in b[s + 1] .. Len(x) - 1 : own[x[i]] = "HW"
      /\ own[x[1]] # "HW" /\ x[1] # x[Len(x)]
  BY DEF QueueRep, Completed, queue_empty
<1>1. Len(x) \in Nat \ {0} /\ b[1] = 1 /\ Len(x) # 1
  BY <1>0, ShapeFacts
<1>a. Len(x) \in Nat /\ 2 <= Len(x)
  <2> DEFINE n == Len(x)
  <2>1. n \in Nat /\ n # 0 /\ n # 1
    BY <1>1
  <2> HIDE DEF n
  <2>2. n \in Nat /\ 2 <= n
    BY <2>1
  <2>3. QED
    BY <2>2 DEF n
<1>2. s # 0
  <2> SUFFICES ASSUME s = 0 PROVE FALSE
    OBVIOUS
  <2>1. s + 1 = 1 /\ 1 \in 1 .. Len(x) - 1
    BY <1>a
  <2>2. b[s + 1] = 1
    BY <1>1, <2>1
  <2>3. QED
    BY <1>0, <2>1, <2>2
<1>3. b[2] \in 2 .. Len(x) /\ Len(b) \in Nat /\ 2 <= Len(b)
  BY <1>0, <1>2, SecondPlace
<1>4. lastAddr[x[1]] = x[b[2] - 1]
  <2>1. 1 \in 1 .. Len(b) - 1 /\ 1 + 1 = 2
    BY <1>3
  <2>2. lastAddr[x[b[1]]] = x[b[1 + 1] - 1]
    BY <2>1 DEF QueueRep
  <2>3. QED
    BY <1>1, <2>1, <2>2
<1>5. nextAddr[x[b[2] - 1]] = x[b[2]]
  <2> DEFINE n == b[2] - 1
  <2>1. n \in 1 .. Len(x) - 1 /\ n + 1 = b[2]
    BY <1>1, <1>3
  <2> HIDE DEF n
  <2>2. nextAddr[x[n]] = x[n + 1]
    BY <1>0, <2>1 DEF Links
  <2>3. QED
    BY <2>1, <2>2 DEF n
<1>6. QED
  BY <1>0, <1>2, <1>4, <1>5

LEMMA Unlinked ==
  ASSUME TypeOK, NEW q \in Queues, NEW x, NEW b, NEW s, QueueRep(q, x, b, s),
         Completed(q), Unlink(q), UNCHANGED <<cur, terminator>>
  PROVE  QueueRep(q, Cut(x, b[2]), CutPlaces(b), s - 1)'
<1> DEFINE m == b[2]
           u == Cut(x, m)
           c == CutPlaces(b)
           last == x[m - 1]
<1>0. /\ Shape(x, b, s) /\ Links(x) /\ s # 0
      /\ head[q] = x[1] /\ lastAddr[x[1]] = last /\ nextAddr[last] = x[m]
      /\ cur[q] = x[b[s + 1]] /\ terminator[q] = x[Len(x)]
  BY CompletedFirst DEF QueueRep
<1>1. /\ Len(x) \in Nat /\ Len(b) \in Nat /\ 2 <= Len(b) /\ s \in 1 .. Len(b) - 1
      /\ \A i \in 1 .. Len(x) : x[i] \in Descs
      /\ \A i, j \in 1 .. Len(x) : x[i] = x[j] => i = j
      /\ m \in 2 .. Len(x) /\ \A k \in 2 .. Len(b) : b[k] \in m .. Len(x)
  <2>1. Shape(x, b, s) /\ s # 0
    BY <1>0
  <2>2. /\ Len(b) \in Nat /\ 2 <= Len(b) /\ m \in 2 .. Len(x)
        /\ \A k \in 2 .. Len(b) : b[k] \in m .. Len(x)
    BY <2>1, SecondPlace
  <2>3. Len(x) \in Nat /\ \A i \in 1 .. Len(x) : x[i] \in Descs
    BY <2>1, ShapeFacts
  <2>4. s \in 0 .. Len(b) - 1 /\ \A i, j \in 1 .. Len(x) : x[i] = x[j] => i = j
    BY <2>1 DEF Shape, Distinct
  <2>5. s \in 1 .. Len(b) - 1
    BY <2>1, <2>2, <2>4
  <2>6. QED
    BY <2>2, <2>3, <2>4, <2>5
<1>a. m \in Nat /\ 2 <= m /\ m <= Len(x) /\ Len(x) \in Nat
  BY <1>1
<1>2. /\ Shape(u, c, s - 1) /\ Len(u) = Len(x) - m + 1 /\ Len(c) = Len(b) - 1
      /\ \A i \in 1 .. Len(x) - m + 1 : u[i] = x[i + m - 1]
      /\ \A k \in 1 .. Len(b) - 1 : c[k] = b[k + 1] - m + 1
  <2>1. Shape(x, b, s) /\ s # 0
    BY <1>0
  <2>2. QED
    BY <2>1, CutShape
<1> HIDE DEF u, c
<1>3. m - 1 \in 1 .. Len(x) /\ last \in Descs
  BY <1>1
<1>4. ASSUME NEW i \in m .. Len(x) PROVE x[i] # last /\ x[i] \in Descs /\ i \in 1 .. Len(x)
  <2>1. i \in 1 .. Len(x) /\ i # m - 1
    BY <1>1
  <2>2. QED
    BY <1>1, <1>3, <2>1
<1>5. /\ head' = [head EXCEPT ![q] = x[m]]
      /\ nextAddr' = [nextAddr EXCEPT ![last] = last]
      /\ lastAddr' = [lastAddr EXCEPT ![last] = last]
      /\ own' = own /\ dataAddr' = dataAddr /\ cur' = cur /\ terminator' = terminator
  <2> HIDE DEF m
  <2>1. QED
    BY <1>0 DEF Unlink
<1> HIDE DEF last
<1>6. ASSUME NEW i \in m .. Len(x)
      PROVE  nextAddr'[x[i]] = nextAddr[x[i]] /\ lastAddr'[x[i]] = lastAddr[x[i]]
  BY <1>4, <1>5 DEF TypeOK
<1>7. Links(u)'
  <2> SUFFICES ASSUME NEW i \in 1 .. Len(u) - 1 PROVE nextAddr'[u[i]] = u[i + 1]
    BY DEF Links
  <2> DEFINE j == i + m - 1
  <2>a. i \in 1 .. (Len(x) - m + 1) - 1
    BY <1>2
  <2>1. /\ i \in 1 .. Len(x) - m + 1 /\ i + 1 \in 1 .. Len(x) - m + 1
        /\ j \in m .. Len(x) /\ j \in 1 .. Len(x) - 1 /\ (i + 1) + m - 1 = j + 1
    <3> HIDE DEF m
    <3>1. QED
      BY <1>a, <2>a
  <2>2. u[i] = x[j] /\ u[i + 1] = x[j + 1]
    BY <1>2, <2>1
  <2> HIDE DEF j
  <2>3. nextAddr[x[j]] = x[j + 1]
    BY <1>0, <2>1 DEF Links
  <2>4. QED
    BY <1>6, <2>1, <2>2, <2>3
<1>8. head'[q] = u[1]
  <2>1. 1 \in 1 .. Len(x) - m + 1 /\ 1 + m - 1 = m
    BY <1>1
  <2>2. u[1] = x[m]
    BY <1>2, <2>1
  <2>3. QED
    BY <1>5, <2>2 DEF TypeOK
<1>9. ASSUME NEW k \in 1 .. Len(c)
      PROVE  /\ u[c[k]] = x[b[k + 1]] /\ c[k] = b[k + 1] - m + 1
             /\ b[k + 1] \in m .. Len(x)
  <2>1. k \in 1 .. Len(b) - 1 /\ k + 1 \in 2 .. Len(b)
    BY <1>1, <1>2
  <2>2. c[k] = b[k + 1] - m + 1 /\ b[k + 1] \in m .. Len(x)
    BY <1>1, <1>2, <2>1
  <2> DEFINE v == b[k + 1]
  <2>a. v \in m .. Len(x)
    BY <2>2
  <2> HIDE DEF v, m
  <2>3. v - m + 1 \in 1 .. Len(x) - m + 1 /\ (v - m + 1) + m - 1 = v
    BY <1>a, <2>a
  <2>4. u[v - m + 1] = x[v]
    BY <1>2, <2>3
  <2>5. QED
    BY <2>2, <2>4 DEF v
<1>10. s \in 1 .. Len(c) /\ (s - 1) + 1 = s
  BY <1>1, <1>2
<1>11. cur'[q] = u[c[(s - 1) + 1]]
  BY <1>0, <1>5, <1>9, <1>10
<1>12. u[Len(u)] = x[Len(x)]
  <2>1. Len(u) \in 1 .. Len(x) - m + 1 /\ Len(u) + m - 1 = Len(x)
    BY <1>1, <1>2
  <2>2. QED
    BY <1>2, <2>1
<1>13. terminator'[q] = u[Len(u)]
  BY <1>0, <1>5, <1>12
<1>14. \A k \in 1 .. Len(c) - 1 : lastAddr'[u[c[k]]] = u[c[k + 1] - 1]
  <2> SUFFICES ASSUME NEW k \in 1 .. Len(c) - 1 PROVE lastAddr'[u[c[k]]] = u[c[k + 1] - 1]
    OBVIOUS
  <2> DEFINE l == k + 1
  <2>1. k \in 1 .. Len(c) /\ l \in 1 .. Len(c) /\ l \in 1 .. Len(b) - 1
    BY <1>1, <1>2
  <2> HIDE DEF l
  <2>2. u[c[k]] = x[b[k + 1]] /\ b[k + 1] \in m .. Len(x) /\ c[l] = b[l + 1] - m + 1
        /\ b[l + 1] \in m .. Len(x)
    BY <1>9, <2>1
  <2>3. lastAddr[x[b[l]]] = x[b[l + 1] - 1]
    BY <2>1 DEF QueueRep
  <2>4. b[l] < b[l + 1] /\ b[l] \in m .. Len(x)
    <3>1. l \in 1 .. Len(b) /\ l + 1 \in 1 .. Len(b) /\ l < l + 1
      BY <1>1, <2>1
    <3>2. b[l] < b[l + 1]
      BY <1>0, <3>1 DEF Shape
    <3>3. QED
      BY <2>2, <3>2 DEF l
  <2> DEFINE w == b[l + 1] - m
             e == b[l + 1]
             f == b[l]
  <2>a. f < e /\ f \in m .. Len(x) /\ e \in m .. Len(x) /\ c[l] = e - m + 1 /\ w = e - m
    BY <2>2, <2>4
  <2>5. c[l] - 1 = w /\ w \in 1 .. Len(x) - m + 1 /\ w + m - 1 = b[l + 1] - 1
    <3> HIDE DEF e, f, w, m
    <3>1. c[l] - 1 = w /\ w \in 1 .. Len(x) - m + 1 /\ w + m - 1 = e - 1
      BY <1>a, <2>a
    <3>2. QED
      BY <3>1 DEF e
  <2>6. u[w] = x[b[l + 1] - 1]
    <3> HIDE DEF w
    <3>1. QED
      BY <1>2, <2>5
  <2>7. lastAddr'[x[b[k + 1]]] = x[b[l + 1] - 1]
    BY <1>6, <2>2, <2>3 DEF l
  <2>8. u[c[l] - 1] = x[b[l + 1] - 1]
    BY <2>5, <2>6
  <2>9. QED
    BY <2>2, <2>7, <2>8 DEF l
<1>15. \A i \in 1 .. c[(s - 1) + 1] - 1 : own'[u[i]] # "HW"
  <2> SUFFICES ASSUME NEW i \in 1 .. c[s] - 1 PROVE own[u[i]] # "HW"
    BY <1>5, <1>10
  <2> DEFINE j == i + m - 1
  <2>1. c[s] = b[s + 1] - m + 1 /\ b[s + 1] \in m .. Len(x)
    BY <1>9, <1>10
  <2>2. i \in 1 .. Len(x) - m + 1 /\ j \in 1 .. b[s + 1] - 1
    BY <1>1, <2>1
  <2>3. u[i] = x[j]
    BY <1>2, <2>2
  <2> HIDE DEF j
  <2>4. QED
    BY <2>2, <2>3 DEF QueueRep
<1>16. \A i \in c[(s - 1) + 1] .. Len(u) - 1 : own'[u[i]] = "HW"
  <2> SUFFICES ASSUME NEW i \in c[s] .. Len(u) - 1 PROVE own[u[i]] = "HW"
    BY <1>5, <1>10
  <2> DEFINE j == i + m - 1
  <2>1. c[s] = b[s + 1] - m + 1 /\ b[s + 1] \in m .. Len(x)
    BY <1>9, <1>10
  <2>2. i \in 1 .. Len(x) - m + 1 /\ j \in b[s + 1] .. Len(x) - 1
    <3> DEFINE e == b[s + 1]
    <3>1. i \in e - m + 1 .. (Len(x) - m + 1) - 1 /\ e \in m .. Len(x)
      BY <1>2, <2>1
    <3> HIDE DEF e, m
    <3>2. i \in 1 .. Len(x) - m + 1 /\ i + m - 1 \in e .. Len(x) - 1
      BY <1>a, <3>1
    <3>3. QED
      BY <3>2 DEF e
  <2>3. u[i] = x[j]
    BY <1>2, <2>2
  <2> HIDE DEF j
  <2>4. QED
    BY <2>2, <2>3 DEF QueueRep
<1>17. own'[u[Len(u)]] # "HW"
  BY <1>5, <1>12 DEF QueueRep
<1>18. \A i \in 1 .. Len(u) - 1 : dataAddr'[u[i]] # NULL
  <2> SUFFICES ASSUME NEW i \in 1 .. Len(u) - 1 PROVE dataAddr[u[i]] # NULL
    BY <1>5
  <2> DEFINE j == i + m - 1
  <2>1. i \in 1 .. (Len(x) - m + 1) - 1
    BY <1>2
  <2>2. i \in 1 .. Len(x) - m + 1 /\ j \in 1 .. Len(x) - 1
    <3> HIDE DEF m
    <3>1. QED
      BY <1>a, <2>1
  <2>3. u[i] = x[j]
    BY <1>2, <2>2
  <2> HIDE DEF j
  <2>4. QED
    BY <2>2, <2>3 DEF QueueRep
<1>19. Shape(u, c, s - 1)'
  BY <1>2
<1>20. QueueRep(q, u, c, s - 1)'
  BY <1>7, <1>8, <1>11, <1>13, <1>14, <1>15, <1>16, <1>17, <1>18, <1>19 DEF QueueRep
<1>21. QED
  BY <1>20 DEF u, c

(* The packet that was unlinked.                                           *)
LEMMA Taken ==
  ASSUME TypeOK, NEW q \in Queues, NEW x, NEW b, NEW s, QueueRep(q, x, b, s),
         Completed(q), Unlink(q)
  PROVE  LET y == Part(x, b[2] - 1)
         IN  /\ y \in Seq(Descs) /\ Distinct(y) /\ Len(y) = b[2] - 1 /\ y # <<>>
             /\ \A i \in 1 .. Len(y) : y[i] = x[i]
             /\ y[1] = head[q] /\ Links(y)' /\ lastAddr'[head[q]] = y[Len(y)]
             /\ \A i \in 1 .. Len(y) : dataAddr'[y[i]] = dataAddr[y[i]] /\ dataAddr[y[i]] # NULL
<1> DEFINE m == b[2]
           n == m - 1
           y == Part(x, n)
           last == x[n]
<1>0. /\ Shape(x, b, s) /\ Links(x) /\ s # 0
      /\ head[q] = x[1] /\ lastAddr[x[1]] = last /\ nextAddr[last] = x[m]
  BY CompletedFirst DEF QueueRep
<1>1. /\ Len(x) \in Nat /\ \A i \in 1 .. Len(x) : x[i] \in Descs
      /\ \A i, j \in 1 .. Len(x) : x[i] = x[j] => i = j
      /\ m \in 2 .. Len(x) /\ n \in 1 .. Len(x) - 1 /\ n \in Nat
  <2>1. Shape(x, b, s) /\ s # 0
    BY <1>0
  <2>2. m \in 2 .. Len(x)
    BY <2>1, SecondPlace
  <2>3. Len(x) \in Nat /\ \A i \in 1 .. Len(x) : x[i] \in Descs
    BY <2>1, ShapeFacts
  <2>4. \A i, j \in 1 .. Len(x) : x[i] = x[j] => i = j
    BY <2>1 DEF Shape, Distinct
  <2>5. n \in 1 .. Len(x) - 1 /\ n \in Nat
    <3> HIDE DEF m
    <3>1. QED
      BY <2>2, <2>3
  <2>6. QED
    BY <2>2, <2>3, <2>4, <2>5
<1>2. /\ nextAddr' = [nextAddr EXCEPT ![last] = last]
      /\ lastAddr' = [lastAddr EXCEPT ![last] = last]
      /\ dataAddr' = dataAddr
  <2> HIDE DEF n
  <2>1. QED
    BY <1>0 DEF Unlink
<1> HIDE DEF n
<1>3. y \in [1 .. n -> Descs]
  BY <1>1 DEF Part
<1>4. y \in Seq(Descs) /\ Len(y) = n
  BY <1>1, <1>3
<1>5. \A i \in 1 .. n : y[i] = x[i] /\ i \in 1 .. Len(x) - 1
  BY <1>1 DEF Part
<1> HIDE DEF y
<1>6. Distinct(y)
  <2> SUFFICES ASSUME NEW i \in 1 .. n, NEW j \in 1 .. n, y[i] = y[j] PROVE i = j
    BY <1>4 DEF Distinct
  <2>1. x[i] = x[j] /\ i \in 1 .. Len(x) - 1 /\ j \in 1 .. Len(x) - 1 /\ Len(x) \in Nat
    BY <1>1, <1>5
  <2>2. i \in 1 .. Len(x) /\ j \in 1 .. Len(x)
    BY <2>1
  <2>3. QED
    BY <1>1, <2>1, <2>2
<1>7. y # <<>> /\ y[1] = head[q] /\ y[n] = last
  BY <1>0, <1>1, <1>4, <1>5, EmptySeq
<1>8. Links(y)'
  <2> SUFFICES ASSUME NEW i \in 1 .. n - 1 PROVE nextAddr'[y[i]] = y[i + 1]
    BY <1>4 DEF Links
  <2>1. i \in 1 .. n /\ i + 1 \in 1 .. n /\ i # n /\ n \in 1 .. Len(x) /\ i \in 1 .. Len(x)
    BY <1>1
  <2>2. x[i] # last /\ x[i] \in Descs /\ nextAddr[x[i]] = x[i + 1]
    BY <1>0, <1>1, <1>5, <2>1 DEF Links
  <2>3. nextAddr'[x[i]] = nextAddr[x[i]]
    BY <1>2, <2>2 DEF TypeOK
  <2>4. QED
    BY <1>5, <2>1, <2>2, <2>3
<1>9. lastAddr'[head[q]] = y[n]
  <2>1. x[1] \in Descs /\ last \in Descs
    BY <1>1
  <2>2. QED
    BY <1>0, <1>2, <1>7, <2>1 DEF TypeOK
<1>10. \A i \in 1 .. n : dataAddr'[y[i]] = dataAddr[y[i]] /\ dataAddr[y[i]] # NULL
  BY <1>2, <1>5 DEF QueueRep
<1>11. QED
  BY <1>4, <1>5, <1>6, <1>7, <1>8, <1>9, <1>10 DEF n, y
-----------------------------------------------------------------------------
(* Publish: the packet in the firmware's hands, or what will follow the    *)
(* old terminator, is linked behind the list.  k is the new list of        *)
(* places: a packet to send becomes one, freed descriptors do not.         *)
LEMMA JoinedList ==
  ASSUME NEW x \in Seq(Descs), NEW y \in Seq(Descs), x # <<>>, y # <<>>,
         Distinct(x), Distinct(y), On(x) \cap On(y) = {}
  PROVE  /\ x \o y \in Seq(Descs) /\ x \o y # <<>> /\ Distinct(x \o y)
         /\ Len(x) \in Nat \ {0} /\ Len(y) \in Nat \ {0}
         /\ Len(x \o y) = Len(x) + Len(y)
         /\ \A n \in 1 .. Len(x) : (x \o y)[n] = x[n]
         /\ \A n \in Len(x) + 1 .. Len(x) + Len(y) : (x \o y)[n] = y[n - Len(x)]
<1> DEFINE u == x \o y
<1>1. /\ u \in Seq(Descs) /\ Len(x) \in Nat /\ Len(y) \in Nat
      /\ Len(u) = Len(x) + Len(y)
      /\ \A n \in 1 .. Len(x) : u[n] = x[n]
      /\ \A n \in Len(x) + 1 .. Len(x) + Len(y) : u[n] = y[n - Len(x)]
  BY Joined
<1> HIDE DEF u
<1>2. Len(x) \in Nat \ {0} /\ Len(y) \in Nat \ {0}
  BY <1>1, EmptySeq
<1>3. u # <<>>
  BY <1>1, <1>2, EmptySeq
<1>4. ASSUME NEW i \in 1 .. Len(u), NEW j \in 1 .. Len(u), u[i] = u[j] PROVE i = j
  <2>1. CASE i \in 1 .. Len(x) /\ j \in 1 .. Len(x)
    BY <1>1, <1>4, <2>1 DEF Distinct
  <2>2. ASSUME i \notin 1 .. Len(x), j \notin 1 .. Len(x) PROVE i = j
    <3> DEFINE a == i - Len(x)
               c == j - Len(x)
    <3>1. /\ i \in Len(x) + 1 .. Len(x) + Len(y) /\ j \in Len(x) + 1 .. Len(x) + Len(y)
          /\ a \in 1 .. Len(y) /\ c \in 1 .. Len(y)
      BY <1>1, <2>2
    <3>2. y[a] = y[c]
      BY <1>1, <1>4, <3>1
    <3>3. a = c
      <4> HIDE DEF a, c
      <4>1. QED
        BY <3>1, <3>2 DEF Distinct
    <3>4. QED
      BY <1>1, <3>3
  <2>3. ASSUME NEW k \in 1 .. Len(u), NEW l \in 1 .. Len(u),
               k \in 1 .. Len(x), l \notin 1 .. Len(x), u[k] = u[l]
        PROVE  FALSE
    <3> DEFINE c == l - Len(x)
    <3>1. l \in Len(x) + 1 .. Len(x) + Len(y) /\ c \in 1 .. Len(y)
      BY <1>1, <2>3
    <3>2. u[k] = x[k] /\ u[l] = y[c]
      BY <1>1, <2>3, <3>1
    <3> HIDE DEF c
    <3>3. x[k] \in On(x) /\ y[c] \in On(y)
      BY <2>3, <3>1 DEF On
    <3>4. QED
      BY <2>3, <3>2, <3>3
  <2>4. QED
    BY <1>4, <2>1, <2>2, <2>3
<1>5. QED
  BY <1>1, <1>2, <1>3, <1>4 DEF u, Distinct

LEMMA Published ==
  ASSUME TypeOK, NEW q \in Queues, NEW x, NEW b, NEW s, QueueRep(q, x, b, s),
         NEW y \in Seq(Descs), y # <<>>, Distinct(y), On(x) \cap On(y) = {},
         pc = "publish", dest = q, LinkRep(y, Copied(terminator[q]), terminator[q]),
         Publish,
         NEW k, Shape(x \o y, k, s), Len(k) \in Nat,
         \A i \in 1 .. Len(b) : k[i] = b[i],
         \/ Len(k) = Len(b)
         \/ /\ Len(k) = Len(b) + 1 /\ b[Len(b)] = Len(x) /\ k[Len(b) + 1] = Len(x) + Len(y)
            /\ q = DrainQ
  PROVE  QueueRep(q, x \o y, k, s)'
<1> DEFINE u == x \o y
           to == x[Len(x)]
<1>0. /\ Shape(x, b, s) /\ Links(x) /\ Links(y)
      /\ head[q] = x[1] /\ cur[q] = x[b[s + 1]] /\ terminator[q] = to
  BY DEF QueueRep, LinkRep
<1>1. /\ x \in Seq(Descs) /\ x # <<>> /\ Distinct(x)
      /\ Len(x) \in Nat \ {0} /\ Len(b) \in Nat \ {0} /\ s + 1 \in 1 .. Len(b)
      /\ \A i \in 1 .. Len(b) : b[i] \in 1 .. Len(x)
      /\ \A i \in 1 .. Len(x) : x[i] \in Descs
      /\ \A i, j \in 1 .. Len(x) : x[i] = x[j] => i = j
      /\ b[1] = 1
  BY <1>0, ShapeFacts DEF Shape, Distinct
<1>2. /\ u \in Seq(Descs) /\ Len(y) \in Nat \ {0}
      /\ Len(u) = Len(x) + Len(y)
      /\ \A n \in 1 .. Len(x) : u[n] = x[n]
      /\ \A n \in Len(x) + 1 .. Len(x) + Len(y) : u[n] = y[n - Len(x)]
      /\ \A i, j \in 1 .. Len(u) : u[i] = u[j] => i = j
  BY <1>1, JoinedList DEF Distinct
<1>3. /\ nextAddr[to] = y[1] /\ dataAddr[to] # NULL /\ y[Len(y)] = desc
      /\ q = DrainQ => lastAddr[to] = IF Len(y) = 1 THEN to ELSE y[Len(y) - 1]
      /\ \A i \in 1 .. Len(y) - 1 : own[y[i]] = "HW" /\ dataAddr[y[i]] # NULL
      /\ own[desc] # "HW"
  BY <1>0 DEF LinkRep, Copied
<1>4. /\ own' = [own EXCEPT ![to] = "HW"]
      /\ terminator' = [terminator EXCEPT ![q] = desc]
      /\ UNCHANGED <<nextAddr, lastAddr, dataAddr, head, cur>>
  BY <1>0 DEF Publish, engines
<1> HIDE DEF u
<1>5. ASSUME NEW n \in Len(x) + 1 .. Len(x) + Len(y)
      PROVE  /\ n - Len(x) \in 1 .. Len(y) /\ u[n] = y[n - Len(x)] /\ u[n] \in Descs
             /\ u[n] # to
  <2>1. n - Len(x) \in 1 .. Len(y) /\ n \in 1 .. Len(u) /\ Len(x) \in 1 .. Len(u) /\ n # Len(x)
    BY <1>1, <1>2
  <2>2. u[Len(x)] = to
    <3>1. Len(x) \in 1 .. Len(x)
      BY <1>1
    <3>2. QED
      BY <1>2, <3>1
  <2>3. QED
    BY <1>2, <2>1, <2>2
<1>6. ASSUME NEW n \in 1 .. Len(x)
      PROVE  own'[u[n]] = (IF n = Len(x) THEN "HW" ELSE own[x[n]])
  <2>1. u[n] = x[n] /\ x[n] \in Descs
    BY <1>1, <1>2
  <2>2. n # Len(x) => x[n] # to
    BY <1>1
  <2>3. QED
    BY <1>4, <2>1, <2>2 DEF TypeOK
<1>7. ASSUME NEW n \in Len(x) + 1 .. Len(x) + Len(y) PROVE own'[u[n]] = own[y[n - Len(x)]]
  BY <1>4, <1>5 DEF TypeOK
<1>8. u[Len(u)] = desc
  <2>1. Len(u) \in Len(x) + 1 .. Len(x) + Len(y) /\ Len(u) - Len(x) = Len(y)
    BY <1>1, <1>2
  <2>2. QED
    BY <1>3, <1>5, <2>1
<1>9. Links(u)'
  <2> SUFFICES ASSUME NEW i \in 1 .. Len(u) - 1 PROVE nextAddr[u[i]] = u[i + 1]
    BY <1>4 DEF Links
  <2>1. CASE i < Len(x)
    <3>1. i \in 1 .. Len(x) - 1 /\ i \in 1 .. Len(x) /\ i + 1 \in 1 .. Len(x)
      BY <1>1, <2>1
    <3>2. QED
      BY <1>0, <1>2, <3>1 DEF Links
  <2>2. CASE i = Len(x)
    <3>1. i + 1 \in Len(x) + 1 .. Len(x) + Len(y) /\ (i + 1) - Len(x) = 1 /\ i \in 1 .. Len(x)
      BY <1>1, <1>2, <2>2
    <3>2. u[i + 1] = y[1]
      BY <1>5, <3>1
    <3>3. QED
      BY <1>2, <1>3, <2>2, <3>1, <3>2
  <2>3. CASE i > Len(x)
    <3> DEFINE j == i - Len(x)
    <3>1. /\ i \in Len(x) + 1 .. Len(x) + Len(y) /\ i + 1 \in Len(x) + 1 .. Len(x) + Len(y)
          /\ j \in 1 .. Len(y) - 1 /\ (i + 1) - Len(x) = j + 1
      BY <1>1, <1>2, <2>3
    <3>2. u[i] = y[j] /\ u[i + 1] = y[j + 1]
      BY <1>5, <3>1
    <3> HIDE DEF j
    <3>3. QED
      BY <1>0, <3>1, <3>2 DEF Links
  <2>4. QED
    BY <1>1, <1>2, <2>1, <2>2, <2>3
<1>10. head'[q] = u[1]
  <2>1. 1 \in 1 .. Len(x)
    BY <1>1
  <2>2. QED
    BY <1>0, <1>2, <1>4, <2>1
<1>11. k[s + 1] = b[s + 1] /\ b[s + 1] \in 1 .. Len(x) /\ u[b[s + 1]] = x[b[s + 1]]
  BY <1>1, <1>2
<1>12. cur'[q] = u[k[s + 1]]
  BY <1>0, <1>4, <1>11
<1>13. terminator'[q] = u[Len(u)]
  BY <1>4, <1>8 DEF TypeOK
<1>14. \A l \in 1 .. Len(k) - 1 : lastAddr'[u[k[l]]] = u[k[l + 1] - 1]
  <2> SUFFICES ASSUME NEW l \in 1 .. Len(k) - 1 PROVE lastAddr[u[k[l]]] = u[k[l + 1] - 1]
    BY <1>4
  <2>1. CASE l < Len(b)
    <3>1. l \in 1 .. Len(b) - 1 /\ l \in 1 .. Len(b) /\ l + 1 \in 1 .. Len(b)
      BY <1>1, <2>1
    <3>2. k[l] = b[l] /\ k[l + 1] = b[l + 1] /\ lastAddr[x[b[l]]] = x[b[l + 1] - 1]
      BY <3>1 DEF QueueRep
    <3>3. b[l] \in 1 .. Len(x) /\ b[l + 1] - 1 \in b[l] .. Len(x) - 1
      BY <1>0, <1>1, <3>1, ShapeFacts
    <3> DEFINE v == b[l]
               w == b[l + 1] - 1
    <3>a. v \in 1 .. Len(x) /\ w \in v .. Len(x) - 1 /\ Len(x) \in Nat
      BY <1>1, <3>3
    <3> HIDE DEF v, w
    <3>4. v \in 1 .. Len(x) /\ w \in 1 .. Len(x)
      BY <3>a
    <3> HIDE DEF v, w
    <3>5. u[v] = x[v] /\ u[w] = x[w]
      BY <1>2, <3>4
    <3>6. QED
      BY <3>2, <3>5 DEF v, w
  <2>2. CASE ~(l < Len(b))
    <3>1. /\ l = Len(b) /\ Len(k) = Len(b) + 1 /\ q = DrainQ /\ b[Len(b)] = Len(x)
          /\ k[Len(b) + 1] = Len(x) + Len(y) /\ l \in 1 .. Len(b)
      BY <1>1, <2>2
    <3>2. k[l] = Len(x) /\ k[l + 1] - 1 = Len(x) + Len(y) - 1
      BY <3>1
    <3>3. u[Len(x)] = to
      <4>1. Len(x) \in 1 .. Len(x)
        BY <1>1
      <4>2. QED
        BY <1>2, <4>1
    <3>4. u[Len(x) + Len(y) - 1] = IF Len(y) = 1 THEN to ELSE y[Len(y) - 1]
      <4>1. CASE Len(y) = 1
        <5>1. Len(x) + Len(y) - 1 = Len(x)
          BY <1>1, <4>1
        <5>2. QED
          BY <3>3, <4>1, <5>1
      <4>2. CASE Len(y) # 1
        <5> DEFINE n == Len(x) + Len(y) - 1
        <5>1. n \in Len(x) + 1 .. Len(x) + Len(y) /\ n - Len(x) = Len(y) - 1
          <6> DEFINE v == Len(x)
                     w == Len(y)
          <6>1. v \in Nat /\ w \in Nat /\ w # 0 /\ w # 1
            BY <1>1, <1>2, <4>2
          <6> HIDE DEF v, w
          <6>2. v + w - 1 \in v + 1 .. v + w /\ (v + w - 1) - v = w - 1
            BY <6>1
          <6>3. QED
            BY <6>2 DEF v, w
        <5> HIDE DEF n
        <5>2. u[n] = y[Len(y) - 1]
          BY <1>5, <5>1
        <5>3. QED
          BY <4>2, <5>2 DEF n
      <4>3. QED
        BY <4>1, <4>2
    <3>5. QED
      BY <1>3, <3>1, <3>2, <3>3, <3>4
  <2>3. QED
    BY <2>1, <2>2
<1>15. \A i \in 1 .. k[s + 1] - 1 : own'[u[i]] # "HW"
  <2> SUFFICES ASSUME NEW i \in 1 .. b[s + 1] - 1 PROVE own'[u[i]] # "HW"
    BY <1>11
  <2>1. i \in 1 .. Len(x) /\ i # Len(x)
    BY <1>1, <1>11
  <2>2. own'[u[i]] = own[x[i]] /\ own[x[i]] # "HW"
    BY <1>6, <2>1 DEF QueueRep
  <2>3. QED
    BY <2>2
<1>16. \A i \in k[s + 1] .. Len(u) - 1 : own'[u[i]] = "HW"
  <2> SUFFICES ASSUME NEW i \in b[s + 1] .. Len(u) - 1 PROVE own'[u[i]] = "HW"
    BY <1>11
  <2>1. CASE i <= Len(x)
    <3>1. i \in 1 .. Len(x) /\ (i = Len(x) \/ i \in b[s + 1] .. Len(x) - 1)
      BY <1>1, <1>11, <2>1
    <3>2. i # Len(x) => own[x[i]] = "HW"
      BY <3>1 DEF QueueRep
    <3>3. QED
      BY <1>6, <3>1, <3>2
  <2>2. CASE ~(i <= Len(x))
    <3> DEFINE j == i - Len(x)
    <3>1. i \in Len(x) + 1 .. Len(x) + Len(y) /\ j \in 1 .. Len(y) - 1
      BY <1>1, <1>2, <1>11, <2>2
    <3>2. own'[u[i]] = own[y[j]]
      BY <1>7, <3>1
    <3> HIDE DEF j
    <3>3. QED
      BY <1>3, <3>1, <3>2
  <2>3. QED
    BY <2>1, <2>2
<1>17. own'[u[Len(u)]] # "HW"
  <2>1. Len(u) \in Len(x) + 1 .. Len(x) + Len(y) /\ Len(u) - Len(x) = Len(y)
    BY <1>1, <1>2
  <2>2. QED
    BY <1>3, <1>7, <2>1
<1>18. \A i \in 1 .. Len(u) - 1 : dataAddr'[u[i]] # NULL
  <2> SUFFICES ASSUME NEW i \in 1 .. Len(u) - 1 PROVE dataAddr[u[i]] # NULL
    BY <1>4
  <2>1. CASE i <= Len(x)
    <3>1. i \in 1 .. Len(x) /\ (i = Len(x) \/ i \in 1 .. Len(x) - 1)
      BY <1>1, <2>1
    <3>2. i # Len(x) => dataAddr[x[i]] # NULL
      BY <3>1 DEF QueueRep
    <3>3. u[i] = x[i] /\ x[Len(x)] = to
      BY <1>1, <1>2, <3>1
    <3>4. QED
      BY <1>3, <3>2, <3>3
  <2>2. CASE ~(i <= Len(x))
    <3> DEFINE j == i - Len(x)
    <3>1. i \in Len(x) + 1 .. Len(x) + Len(y) /\ j \in 1 .. Len(y) - 1
      BY <1>1, <1>2, <2>2
    <3>2. u[i] = y[j]
      BY <1>5, <3>1
    <3> HIDE DEF j
    <3>3. QED
      BY <1>3, <3>1, <3>2
  <2>3. QED
    BY <1>1, <1>2, <2>1, <2>2
<1>19. Shape(u, k, s)'
  BY DEF u
<1>20. QueueRep(q, u, k, s)'
  BY <1>9, <1>10, <1>12, <1>13, <1>14, <1>15, <1>16, <1>17, <1>18, <1>19 DEF QueueRep
<1>21. QED
  BY <1>20 DEF u
-----------------------------------------------------------------------------
(* The engines: the frame that HWFill stores is the next n descriptors of  *)
(* the list, and becomes a packet of it.                                   *)
FrameAt(frame, n, q) ==
  /\ n \in Nat \ {0} /\ frame \in [1 .. n -> Descs] /\ frame[1] = cur[q]
  /\ \A i \in 1 .. n - 1 : frame[i + 1] = nextAddr[frame[i]]
  /\ \A i \in 1 .. n : own[frame[i]] = "HW"

LEMMA FrameAlong ==
  ASSUME NEW q, NEW x, NEW b, NEW s, QueueRep(q, x, b, s),
         NEW n, NEW frame, FrameAt(frame, n, q)
  PROVE  /\ b[s + 1] + n \in 1 .. Len(x)
         /\ \A i \in 1 .. n : frame[i] = x[b[s + 1] + i - 1]
<1> DEFINE p == b[s + 1]
<1>0. /\ Shape(x, b, s) /\ Links(x) /\ cur[q] = x[p]
      /\ Len(x) \in Nat /\ p \in 1 .. Len(x) /\ own[x[Len(x)]] # "HW"
  BY ShapeFacts DEF QueueRep
<1> HIDE DEF p
<1>f. /\ n \in Nat \ {0} /\ frame[1] = cur[q]
      /\ \A i \in 1 .. n - 1 : frame[i + 1] = nextAddr[frame[i]]
      /\ \A i \in 1 .. n : own[frame[i]] = "HW"
  BY DEF FrameAt
<1> DEFINE At(i) == p + i - 1 \in 1 .. Len(x) - 1 /\ frame[i] = x[p + i - 1]
           T == {i \in 1 .. n : ~At(i)}
<1>1. T = {}
  <2> SUFFICES ASSUME T # {} PROVE FALSE
    OBVIOUS
  <2>1. PICK m \in T : \A i \in T : m <= i
    <3>1. T \in SUBSET Nat
      BY <1>f
    <3> HIDE DEF T
    <3>2. QED
      BY <3>1, LeastNatural
  <2>2. CASE m = 1
    <3>1. p + m - 1 = p /\ frame[m] = x[p] /\ own[x[p]] = "HW"
      BY <1>0, <1>f, <2>1, <2>2
    <3>2. p # Len(x)
      BY <1>0, <3>1
    <3>3. At(m)
      BY <1>0, <3>1, <3>2
    <3>4. QED
      BY <2>1, <3>3
  <2>3. CASE m # 1
    <3> DEFINE l == m - 1
    <3>1. l \in 1 .. n - 1 /\ l \in 1 .. n /\ l + 1 = m /\ m \in 1 .. n /\ ~(m <= l)
      BY <1>f, <2>1, <2>3
    <3>2. At(l)
      BY <2>1, <3>1
    <3> DEFINE j == p + l - 1
    <3>3. j \in 1 .. Len(x) - 1 /\ frame[l] = x[j] /\ p + m - 1 = j + 1
      BY <1>0, <3>1, <3>2
    <3> HIDE DEF l, j
    <3>4. frame[m] = x[j + 1]
      <4>1. nextAddr[x[j]] = x[j + 1]
        BY <1>0, <3>3 DEF Links
      <4>2. frame[l + 1] = nextAddr[frame[l]]
        BY <1>f, <3>1
      <4>3. QED
        BY <3>1, <3>3, <4>1, <4>2
    <3>5. own[x[j + 1]] = "HW"
      BY <1>f, <3>1, <3>4
    <3>6. j + 1 # Len(x)
      BY <1>0, <3>5
    <3>7. At(m)
      BY <1>0, <3>3, <3>4, <3>6
    <3>8. QED
      BY <2>1, <3>7
  <2>4. QED
    BY <2>2, <2>3
<1>2. \A i \in 1 .. n : At(i)
  BY <1>1
<1>3. p + n \in 1 .. Len(x)
  <2>1. p + n - 1 \in 1 .. Len(x) - 1
    BY <1>2, <1>f
  <2>2. QED
    BY <1>0, <1>f, <2>1
<1>4. QED
  BY <1>2, <1>3 DEF p

(* One more packet of n descriptors.                                       *)
LEMMA LongerShape ==
  ASSUME NEW x, NEW b, NEW s, Shape(x, b, s), NEW r \in 0 .. Len(b),
         NEW n \in 1 .. Len(x), b[Len(b)] < n
  PROVE  /\ Shape(x, Append(b, n), r) /\ Len(Append(b, n)) = Len(b) + 1
         /\ \A k \in 1 .. Len(b) : Append(b, n)[k] = b[k]
         /\ Append(b, n)[Len(b) + 1] = n
<1> DEFINE c == Append(b, n)
<1>0. /\ x \in Seq(Descs) /\ x # <<>> /\ Distinct(x)
      /\ b \in Seq(1 .. Len(x)) /\ b[1] = 1 /\ Len(b) \in Nat \ {0}
      /\ Len(x) \in Nat
      /\ \A k \in 1 .. Len(b) : b[k] \in 1 .. Len(x)
      /\ \A k, l \in 1 .. Len(b) : k < l => b[k] < b[l]
  BY ShapeFacts DEF Shape
<1>1. /\ c \in Seq(1 .. Len(x)) /\ c # <<>> /\ Len(c) = Len(b) + 1
      /\ \A k \in 1 .. Len(b) : c[k] = b[k]
      /\ c[Len(b) + 1] = n
  BY <1>0, Pushed
<1> HIDE DEF c
<1>2. ASSUME NEW k \in 1 .. Len(c), NEW l \in 1 .. Len(c), k < l PROVE c[k] < c[l]
  <2>a. Len(b) \in Nat /\ Len(c) = Len(b) + 1 /\ Len(x) \in Nat
    BY <1>0, <1>1
  <2> DEFINE m == Len(b)
             u == Len(c)
  <2>k. k \in 1 .. u /\ l \in 1 .. u /\ k < l /\ m \in Nat /\ u = m + 1
    BY <1>2, <2>a
  <2>b. k \in 1 .. Len(b)
    <3> HIDE DEF m, u
    <3>1. k \in 1 .. m
      BY <2>k
    <3>2. QED
      BY <3>1 DEF m
  <2>c. c[k] = b[k] /\ b[k] \in 1 .. Len(x)
    BY <1>0, <1>1, <2>b
  <2>1. k \in 1 .. Len(b) /\ c[k] = b[k] /\ b[k] \in Nat
    BY <2>a, <2>b, <2>c
  <2>2. CASE l \in 1 .. Len(b)
    BY <1>0, <1>1, <1>2, <2>1, <2>2
  <2>3. CASE l \notin 1 .. Len(b)
    <3>1. l = Len(b) + 1 /\ c[l] = n
      BY <1>0, <1>1, <2>3
    <3>2. k = Len(b) \/ k < Len(b)
      BY <1>0, <2>1
    <3>3. b[k] <= b[Len(b)] /\ b[Len(b)] \in Nat
      BY <1>0, <2>1, <3>2
    <3>4. QED
      BY <2>1, <3>1, <3>3
  <2>4. QED
    BY <2>2, <2>3
<1>3. c[1] = 1
  <2>1. 1 \in 1 .. Len(b)
    BY <1>0
  <2>2. QED
    BY <1>0, <1>1, <2>1
<1>4. r \in 0 .. Len(c) - 1
  BY <1>0, <1>1
<1>5. Shape(x, c, r)
  BY <1>0, <1>1, <1>2, <1>3, <1>4 DEF Shape
<1>6. QED
  BY <1>1, <1>5 DEF c

(* The engine has dealt with one packet more.                              *)
LEMMA Advanced ==
  ASSUME NEW q, NEW x, NEW b, NEW s, QueueRep(q, x, b, s),
         NEW c, Shape(x, c, s + 1), c[s + 1] = b[s + 1],
         \A k \in 1 .. Len(c) - 1 : lastAddr'[x[c[k]]] = x[c[k + 1] - 1],
         \A i \in 1 .. Len(x) :
           own'[x[i]] = IF i \in c[s + 1] .. c[s + 2] - 1 THEN "SE" ELSE own[x[i]],
         cur'[q] = x[c[s + 2]], head'[q] = head[q], terminator'[q] = terminator[q],
         UNCHANGED <<nextAddr, dataAddr>>
  PROVE  QueueRep(q, x, c, s + 1)'
<1>0. /\ Shape(x, b, s) /\ Links(x) /\ head[q] = x[1] /\ terminator[q] = x[Len(x)]
      /\ Len(x) \in Nat \ {0} /\ Len(c) \in Nat /\ (s + 1) + 1 \in 1 .. Len(c) /\ s + 1 \in Nat
      /\ s \in Nat
      /\ \A k \in 1 .. Len(c) : c[k] \in 1 .. Len(x)
      /\ \A k, l \in 1 .. Len(c) : k < l => c[k] < c[l]
  BY ShapeFacts DEF QueueRep, Shape
<1>1. (s + 1) + 1 = s + 2 /\ s + 2 \in 1 .. Len(c) /\ s + 1 \in 1 .. Len(c) /\ s + 1 < s + 2
  BY <1>0
<1>2. c[s + 1] \in 1 .. Len(x) /\ c[s + 2] \in 1 .. Len(x) /\ c[s + 1] < c[s + 2]
  BY <1>0, <1>1
<1>3. Links(x)' /\ Shape(x, c, s + 1)'
  BY <1>0 DEF Links
<1>4. cur'[q] = x[c[(s + 1) + 1]]
  BY <1>1
<1>5. \A i \in 1 .. c[(s + 1) + 1] - 1 : own'[x[i]] # "HW"
  <2> SUFFICES ASSUME NEW i \in 1 .. c[s + 2] - 1 PROVE own'[x[i]] # "HW"
    BY <1>1
  <2>1. i \in 1 .. Len(x) /\ (i \in c[s + 1] .. c[s + 2] - 1 \/ i \in 1 .. b[s + 1] - 1)
    BY <1>0, <1>2
  <2>2. i \in 1 .. b[s + 1] - 1 => own[x[i]] # "HW"
    BY DEF QueueRep
  <2>3. own'[x[i]] = IF i \in c[s + 1] .. c[s + 2] - 1 THEN "SE" ELSE own[x[i]]
    BY <2>1
  <2>4. QED
    BY <2>1, <2>2, <2>3
<1>6. \A i \in c[(s + 1) + 1] .. Len(x) - 1 : own'[x[i]] = "HW"
  <2> SUFFICES ASSUME NEW i \in c[s + 2] .. Len(x) - 1 PROVE own'[x[i]] = "HW"
    BY <1>1
  <2>1. i \in 1 .. Len(x) /\ i \notin c[s + 1] .. c[s + 2] - 1 /\ i \in b[s + 1] .. Len(x) - 1
    BY <1>0, <1>2
  <2>2. own[x[i]] = "HW"
    BY <2>1 DEF QueueRep
  <2>3. QED
    BY <2>1, <2>2
<1>7. own'[x[Len(x)]] # "HW"
  <2>1. Len(x) \in 1 .. Len(x) /\ own[x[Len(x)]] # "HW"
    BY <1>0 DEF QueueRep
  <2>2. QED
    BY <2>1
<1>8. \A i \in 1 .. Len(x) - 1 : dataAddr'[x[i]] # NULL
  BY DEF QueueRep
<1>9. head'[q] = x[1] /\ terminator'[q] = x[Len(x)]
  BY <1>0
<1>10. QED
  BY <1>3, <1>4, <1>5, <1>6, <1>7, <1>8, <1>9 DEF QueueRep

LEMMA HWFilled ==
  ASSUME TypeOK, NEW x, NEW b, NEW s, FillRep(x, b, s),
         NEW n \in 1 .. MaxLen, HWFill(n)
  PROVE  LET c == Append(b, b[s + 1] + n)
         IN  /\ FillRep(x, c, s + 1)'
             /\ \A d \in Descs : d \notin On(x) => own'[d] = own[d] /\ lastAddr'[d] = lastAddr[d]
             /\ \A q \in Queues : q # FillQ => cur'[q] = cur[q]
             /\ \A d \in Descs : own'[d] = "SE" \/ own'[d] = own[d]
             /\ UNCHANGED <<nextAddr, dataAddr, head, terminator, running, spare,
                            available, locals>>
             /\ b[s + 1] + n \in 1 .. Len(x)
<1> DEFINE p == b[s + 1]
           c == Append(b, p + n)
<1>0. /\ QueueRep(FillQ, x, b, s) /\ Shape(x, b, s) /\ Links(x) /\ Len(b) = s + 1
      /\ n \in Nat \ {0}
  BY DmaQueueAssumption DEF FillRep, QueueRep
<1>1. /\ Len(x) \in Nat \ {0} /\ Len(b) \in Nat \ {0} /\ p \in 1 .. Len(x)
      /\ \A i \in 1 .. Len(x) : x[i] \in Descs
      /\ \A i, j \in 1 .. Len(x) : x[i] = x[j] => i = j
      /\ \A k \in 1 .. Len(b) : b[k] \in 1 .. Len(x)
      /\ \A k, l \in 1 .. Len(b) : k < l => b[k] < b[l]
      /\ s \in Nat
  BY <1>0, ShapeFacts DEF Shape, Distinct
<1>a. p \in Nat /\ n \in Nat
  BY <1>0, <1>1
<1>2. PICK frame \in [1 .. n -> Descs] :
        /\ frame[1] = cur[FillQ]
        /\ \A i \in 1 .. n - 1 : frame[i + 1] = nextAddr[frame[i]]
        /\ \A i \in 1 .. n : own[frame[i]] = "HW"
        /\ own' = [d \in Descs |-> IF \E i \in 1 .. n : frame[i] = d THEN "SE" ELSE own[d]]
        /\ lastAddr' = [lastAddr EXCEPT ![frame[1]] = frame[n]]
        /\ cur' = [cur EXCEPT ![FillQ] = nextAddr[frame[n]]]
        /\ UNCHANGED <<nextAddr, dataAddr, head, terminator, running, spare,
                       available, locals>>
  BY DEF HWFill
<1>3. p + n \in 1 .. Len(x) /\ \A i \in 1 .. n : frame[i] = x[p + i - 1]
  <2>1. FrameAt(frame, n, FillQ)
    BY <1>0, <1>2 DEF FrameAt
  <2>2. QueueRep(FillQ, x, b, s)
    BY <1>0
  <2> HIDE DEF c
  <2>3. /\ b[s + 1] + n \in 1 .. Len(x)
        /\ \A i \in 1 .. n : frame[i] = x[b[s + 1] + i - 1]
    BY ONLY <2>1, <2>2, FrameAlong
  <2>4. QED
    BY <2>3
<1>4. b[Len(b)] < p + n
  BY <1>0, <1>1
<1>5. /\ Shape(x, c, s + 1) /\ Len(c) = Len(b) + 1
      /\ \A k \in 1 .. Len(b) : c[k] = b[k]
      /\ c[Len(b) + 1] = p + n
  <2>1. Shape(x, b, s) /\ s + 1 \in 0 .. Len(b)
    BY <1>0, <1>1
  <2> DEFINE m == p + n
  <2>2. m \in 1 .. Len(x) /\ b[Len(b)] < m
    BY <1>3, <1>4
  <2> HIDE DEF m
  <2>3. /\ Shape(x, Append(b, m), s + 1) /\ Len(Append(b, m)) = Len(b) + 1
        /\ \A k \in 1 .. Len(b) : Append(b, m)[k] = b[k]
        /\ Append(b, m)[Len(b) + 1] = m
    BY <2>1, <2>2, LongerShape
  <2>4. QED
    BY <2>3 DEF m
<1> HIDE DEF c, p
<1>6. c[s + 1] = p /\ c[s + 2] = p + n /\ c[s + 1] = b[s + 1]
  <2>1. s + 1 \in 1 .. Len(b) /\ s + 2 = Len(b) + 1
    BY <1>0, <1>1
  <2>2. QED
    BY <1>5, <2>1 DEF p
<1>7. ASSUME NEW i \in 1 .. Len(x)
      PROVE  /\ own'[x[i]] = IF i \in c[s + 1] .. c[s + 2] - 1 THEN "SE" ELSE own[x[i]]
             /\ i # p => lastAddr'[x[i]] = lastAddr[x[i]]
             /\ i = p => lastAddr'[x[i]] = x[p + n - 1]
  <2>1. x[i] \in Descs
    BY <1>1
  <2>2. (\E j \in 1 .. n : frame[j] = x[i]) <=> i \in p .. p + n - 1
    <3>1. ASSUME NEW j \in 1 .. n, frame[j] = x[i] PROVE i \in p .. p + n - 1
      <4>1. p + j - 1 \in 1 .. Len(x) /\ x[p + j - 1] = x[i]
        BY <1>0, <1>1, <1>3, <3>1
      <4>2. p + j - 1 = i
        BY <1>1, <4>1
      <4>3. QED
        BY <1>0, <1>1, <4>2
    <3>2. ASSUME i \in p .. p + n - 1 PROVE \E j \in 1 .. n : frame[j] = x[i]
      <4>1. i - p + 1 \in 1 .. n /\ p + (i - p + 1) - 1 = i
        BY <1>0, <1>1, <3>2
      <4>2. QED
        BY <1>3, <4>1
    <3>3. QED
      BY <3>1, <3>2
  <2>3. own'[x[i]] = IF i \in p .. p + n - 1 THEN "SE" ELSE own[x[i]]
    BY <1>2, <2>1, <2>2
  <2>4. frame[1] = x[p] /\ frame[n] = x[p + n - 1] /\ x[p] \in Descs
    <3>1. 1 \in 1 .. n /\ n \in 1 .. n /\ p + 1 - 1 = p
      BY <1>0, <1>1
    <3>2. QED
      BY <1>1, <1>3, <3>1
  <2>5. i # p => x[i] # x[p]
    BY <1>1
  <2>6. (i # p => lastAddr'[x[i]] = lastAddr[x[i]]) /\ (i = p => lastAddr'[x[i]] = x[p + n - 1])
    BY <1>2, <2>1, <2>4, <2>5 DEF TypeOK
  <2>7. own'[x[i]] = IF i \in c[s + 1] .. c[s + 2] - 1 THEN "SE" ELSE own[x[i]]
    <3> DEFINE e == c[s + 1]
               f == c[s + 2]
    <3>1. e = p /\ f = p + n
      BY <1>6
    <3> HIDE DEF e, f
    <3>a. f - 1 = p + n - 1
      BY <1>a, <3>1
    <3>2. own'[x[i]] = IF i \in e .. f - 1 THEN "SE" ELSE own[x[i]]
      BY <2>3, <3>1, <3>a, Zenon
    <3>3. QED
      BY <3>2 DEF e, f
  <2>8. QED
    BY <2>6, <2>7
<1>8. ASSUME NEW k \in 1 .. Len(c) - 1 PROVE lastAddr'[x[c[k]]] = x[c[k + 1] - 1]
  <2>1. k \in 1 .. Len(b) /\ c[k] = b[k] /\ b[k] \in 1 .. Len(x)
    BY <1>1, <1>5
  <2>2. CASE k = s + 1
    <3>1. c[k] = p /\ c[k + 1] = p + n
      <4>1. k + 1 = s + 2
        BY <1>1, <2>2
      <4>2. QED
        BY <1>6, <2>2, <4>1
    <3>2. QED
      BY <1>1, <1>7, <3>1
  <2>3. CASE k # s + 1
    <3>1. k \in 1 .. Len(b) - 1 /\ k + 1 \in 1 .. Len(b) /\ k < s + 1 /\ s + 1 \in 1 .. Len(b)
      BY <1>0, <1>1, <2>1, <2>3
    <3>2. b[k] # p /\ c[k + 1] = b[k + 1] /\ lastAddr[x[b[k]]] = x[b[k + 1] - 1]
      <4>1. b[k] < b[s + 1] /\ b[k] \in Nat /\ b[s + 1] \in Nat
        BY <1>1, <3>1
      <4>2. c[k + 1] = b[k + 1] /\ lastAddr[x[b[k]]] = x[b[k + 1] - 1]
        BY <1>0, <1>5, <3>1 DEF QueueRep
      <4>3. QED
        BY <4>1, <4>2 DEF p
    <3> DEFINE v == b[k]
    <3>3. v \in 1 .. Len(x) /\ v # p
      BY <2>1, <3>2
    <3> HIDE DEF v
    <3>4. lastAddr'[x[v]] = lastAddr[x[v]]
      BY <1>7, <3>3
    <3>5. QED
      BY <2>1, <3>2, <3>4 DEF v
  <2>4. QED
    BY <2>2, <2>3
<1>9. cur'[FillQ] = x[c[s + 2]]
  <2> DEFINE j == p + n - 1
  <2>1. n \in 1 .. n /\ j \in 1 .. Len(x) - 1 /\ j + 1 = p + n
    BY <1>0, <1>1, <1>3
  <2>2. frame[n] = x[j]
    BY <1>3, <2>1
  <2> HIDE DEF j
  <2>3. nextAddr[frame[n]] = x[p + n]
    BY <1>0, <2>1, <2>2 DEF Links
  <2>4. cur'[FillQ] = nextAddr[frame[n]]
    BY <1>2 DEF TypeOK, Queues
  <2>5. QED
    BY <1>6, <2>3, <2>4
<1>10. QueueRep(FillQ, x, c, s + 1)'
  BY <1>0, <1>2, <1>5, <1>6, <1>7, <1>8, <1>9, Advanced
<1>11. FillRep(x, c, s + 1)'
  <2>1. \A i \in 1 .. Len(x) - 1 : dataAddr'[x[i]] # Reserved
    BY <1>2 DEF FillRep
  <2>2. Len(c) = (s + 1) + 1
    BY <1>0, <1>1, <1>5
  <2>3. QED
    BY <1>10, <2>1, <2>2 DEF FillRep
<1>12. \A i \in 1 .. n : frame[i] \in On(x)
  <2> SUFFICES ASSUME NEW i \in 1 .. n PROVE frame[i] \in On(x)
    OBVIOUS
  <2>1. p + i - 1 \in 1 .. Len(x)
    BY <1>0, <1>1, <1>3
  <2>2. QED
    BY <1>3, <2>1 DEF On
<1>13. \A d \in Descs : d \notin On(x) => own'[d] = own[d] /\ lastAddr'[d] = lastAddr[d]
  <2> SUFFICES ASSUME NEW d \in Descs, d \notin On(x)
               PROVE  own'[d] = own[d] /\ lastAddr'[d] = lastAddr[d]
    OBVIOUS
  <2>1. 1 \in 1 .. n
    BY <1>0
  <2>2. d # frame[1] /\ ~(\E i \in 1 .. n : frame[i] = d)
    BY <1>12, <2>1
  <2>3. QED
    BY <1>2, <2>2 DEF TypeOK
<1>14. \A d \in Descs : own'[d] = "SE" \/ own'[d] = own[d]
  BY <1>2
<1>15. \A q \in Queues : q # FillQ => cur'[q] = cur[q]
  BY <1>2 DEF TypeOK
<1>16. p + n \in 1 .. Len(x) /\ UNCHANGED <<nextAddr, dataAddr, head, terminator, running, spare,
                                             available, locals>>
  BY <1>2, <1>3
<1>17. QED
  BY <1>11, <1>13, <1>14, <1>15, <1>16 DEF c, p

LEMMA HWDrained ==
  ASSUME TypeOK, NEW z, NEW c, NEW t, DrainRep(z, c, t), HWDrain
  PROVE  /\ DrainRep(z, c, t + 1)' /\ t + 2 \in 1 .. Len(c)
         /\ \A d \in Descs : d \notin On(z) => own'[d] = own[d]
         /\ \A d \in Descs : own'[d] = "SE" \/ own'[d] = own[d]
         /\ \A q \in Queues : q # DrainQ => cur'[q] = cur[q]
         /\ UNCHANGED <<nextAddr, lastAddr, dataAddr, head, terminator, running,
                        spare, available, locals>>
<1> DEFINE p == c[t + 1]
           n == c[t + 2]
<1>0. /\ QueueRep(DrainQ, z, c, t) /\ Shape(z, c, t) /\ Links(z) /\ c[Len(c)] = Len(z)
      /\ z \in Seq(Descs) /\ Distinct(z)
      /\ cur[DrainQ] = z[p] /\ own[z[Len(z)]] # "HW"
      /\ own[cur[DrainQ]] = "HW"
  BY DEF DrainRep, QueueRep, HWDrain, Shape
<1>1. /\ Len(z) \in Nat \ {0} /\ Len(c) \in Nat \ {0} /\ t + 1 \in 1 .. Len(c) /\ t \in Nat
      /\ \A i \in 1 .. Len(z) : z[i] \in Descs
      /\ \A i, j \in 1 .. Len(z) : z[i] = z[j] => i = j
      /\ \A k \in 1 .. Len(c) : c[k] \in 1 .. Len(z)
      /\ \A k, l \in 1 .. Len(c) : k < l => c[k] < c[l]
      /\ c \in Seq(1 .. Len(z)) /\ c # <<>> /\ c[1] = 1 /\ z # <<>>
  BY <1>0, ShapeFacts DEF Shape, Distinct
<1>2. t + 1 # Len(c)
  BY <1>0
<1>3. t + 2 \in 1 .. Len(c) /\ t + 1 \in 1 .. Len(c) - 1 /\ (t + 1) + 1 = t + 2
  BY <1>1, <1>2
<1>4. p \in 1 .. Len(z) /\ n \in 1 .. Len(z) /\ p < n /\ lastAddr[z[p]] = z[n - 1]
  <2>1. lastAddr[z[c[t + 1]]] = z[c[(t + 1) + 1] - 1]
    BY <1>0, <1>3 DEF QueueRep
  <2>2. QED
    BY <1>1, <1>3, <2>1
<1> HIDE DEF p, n
<1>5. n - 1 \in p .. Len(z) /\ n - 1 \in 1 .. Len(z) - 1 /\ (n - 1) + 1 = n
  BY <1>1, <1>4
<1>6. InChain(z[p], z[n - 1]) = {z[k] : k \in p .. n - 1}
  BY <1>0, <1>4, <1>5, ChainAlong
<1>7. nextAddr[z[n - 1]] = z[n]
  <2> DEFINE j == n - 1
  <2>1. j \in 1 .. Len(z) - 1 /\ j + 1 = n
    BY <1>5
  <2> HIDE DEF j
  <2>2. nextAddr[z[j]] = z[j + 1]
    BY <1>0, <2>1 DEF Links
  <2>3. QED
    BY <2>1, <2>2 DEF j
<1>8. /\ own' = [d \in Descs |-> IF d \in {z[k] : k \in p .. n - 1} THEN "SE" ELSE own[d]]
      /\ cur' = [cur EXCEPT ![DrainQ] = z[n]]
      /\ UNCHANGED <<nextAddr, lastAddr, dataAddr, head, terminator, running,
                     spare, available, locals>>
  BY <1>0, <1>4, <1>6, <1>7 DEF HWDrain
<1>9. ASSUME NEW i \in 1 .. Len(z)
      PROVE  own'[z[i]] = IF i \in c[t + 1] .. c[t + 2] - 1 THEN "SE" ELSE own[z[i]]
  <2>1. z[i] \in Descs
    BY <1>1
  <2>2. z[i] \in {z[k] : k \in p .. n - 1} <=> i \in p .. n - 1
    <3>1. \A k \in p .. n - 1 : k \in 1 .. Len(z)
      BY <1>1, <1>4
    <3>2. QED
      BY <1>1, <3>1
  <2>3. QED
    BY <1>8, <2>1, <2>2 DEF p, n
<1>10. Shape(z, c, t + 1)
  <2>1. t + 1 \in 0 .. Len(c) - 1
    BY <1>1, <1>3
  <2>2. QED
    BY <1>0, <2>1 DEF Shape
<1>11. cur'[DrainQ] = z[c[t + 2]]
  BY <1>8 DEF TypeOK, Queues, n
<1>12. \A k \in 1 .. Len(c) - 1 : lastAddr'[z[c[k]]] = z[c[k + 1] - 1]
  BY <1>0, <1>8 DEF QueueRep
<1>13. QueueRep(DrainQ, z, c, t + 1)'
  BY <1>0, <1>8, <1>9, <1>10, <1>11, <1>12, Advanced
<1>14. DrainRep(z, c, t + 1)'
  BY <1>8, <1>13 DEF DrainRep
<1>15. \A d \in Descs : d \notin On(z) => own'[d] = own[d]
  <2> SUFFICES ASSUME NEW d \in Descs, d \notin On(z) PROVE own'[d] = own[d]
    OBVIOUS
  <2>1. \A k \in p .. n - 1 : k \in 1 .. Len(z)
    BY <1>1, <1>4
  <2>2. d \notin {z[k] : k \in p .. n - 1}
    BY <2>1 DEF On
  <2>3. QED
    BY <1>8, <2>2
<1>16. \A d \in Descs : own'[d] = "SE" \/ own'[d] = own[d]
  BY <1>8
<1>17. \A q \in Queues : q # DrainQ => cur'[q] = cur[q]
  BY <1>8 DEF TypeOK
<1>18. UNCHANGED <<nextAddr, lastAddr, dataAddr, head, terminator, running,
                   spare, available, locals>>
  BY <1>8
<1>19. QED
  BY <1>3, <1>14, <1>15, <1>16, <1>17, <1>18
-----------------------------------------------------------------------------
(* Prepare: what follows the first descriptor comes first, then the first  *)
(* descriptor itself, as the new terminator.                               *)
Rotated(y) == [i \in 1 .. Len(y) |-> IF i = Len(y) THEN y[1] ELSE y[i + 1]]

LEMMA RotatedList ==
  ASSUME NEW y \in Seq(Descs), y # <<>>, Distinct(y)
  PROVE  /\ Rotated(y) \in Seq(Descs) /\ Rotated(y) # <<>> /\ Distinct(Rotated(y))
         /\ Len(Rotated(y)) = Len(y) /\ On(Rotated(y)) = On(y)
         /\ Len(y) \in Nat \ {0} /\ Rotated(y)[Len(y)] = y[1]
         /\ \A i \in 1 .. Len(y) - 1 : Rotated(y)[i] = y[i + 1]
<1> DEFINE w == Rotated(y)
           n == Len(y)
<1>0. n \in Nat \ {0} /\ \A i \in 1 .. n : y[i] \in Descs
  BY EmptySeq, LenProperties
<1>1. \A i \in 1 .. n : i # n => i + 1 \in 1 .. n
  BY <1>0
<1>2. w \in [1 .. n -> Descs]
  BY <1>0, <1>1 DEF Rotated
<1>3. w \in Seq(Descs) /\ Len(w) = n
  BY <1>0, <1>2
<1>4. w[n] = y[1] /\ \A i \in 1 .. n - 1 : w[i] = y[i + 1]
  BY <1>0 DEF Rotated
<1>5. w # <<>>
  BY <1>0, <1>3, EmptySeq
<1> HIDE DEF w
<1>6. ASSUME NEW i \in 1 .. n, NEW j \in 1 .. n, w[i] = w[j] PROVE i = j
  <2> DEFINE k == IF i = n THEN 1 ELSE i + 1
             l == IF j = n THEN 1 ELSE j + 1
  <2>1. k \in 1 .. n /\ l \in 1 .. n /\ (k = l => i = j)
    BY <1>0
  <2>2. w[i] = y[k] /\ w[j] = y[l]
    BY <1>0, <1>4
  <2> HIDE DEF k, l
  <2>3. k = l
    BY <1>6, <2>1, <2>2 DEF Distinct
  <2>4. QED
    BY <2>1, <2>3
<1>7. On(w) = On(y)
  <2>1. ASSUME NEW i \in 1 .. n PROVE \E j \in 1 .. n : w[i] = y[j]
    <3>1. CASE i = n
      BY <1>0, <1>4, <3>1
    <3>2. CASE i # n
      <4>1. i + 1 \in 1 .. n /\ i \in 1 .. n - 1
        BY <1>0, <3>2
      <4>2. QED
        BY <1>4, <4>1
    <3>3. QED
      BY <3>1, <3>2
  <2>2. ASSUME NEW i \in 1 .. n PROVE \E j \in 1 .. n : y[i] = w[j]
    <3>1. CASE i = 1
      BY <1>0, <1>4, <3>1
    <3>2. CASE i # 1
      <4> DEFINE j == i - 1
      <4>1. j \in 1 .. n - 1 /\ j + 1 = i /\ j \in 1 .. n
        BY <1>0, <3>2
      <4> HIDE DEF j
      <4>2. w[j] = y[i]
        BY <1>4, <4>1
      <4>3. QED
        BY <4>1, <4>2
    <3>3. QED
      BY <3>1, <3>2
  <2>3. On(w) \subseteq On(y)
    BY <1>3, <2>1 DEF On
  <2>4. On(y) \subseteq On(w)
    BY <1>3, <2>2 DEF On
  <2>5. QED
    BY <2>3, <2>4
<1>8. Distinct(w)
  BY <1>3, <1>6 DEF Distinct
<1>9. QED
  BY <1>0, <1>3, <1>4, <1>5, <1>7, <1>8 DEF w

LEMMA Prepared ==
  ASSUME TypeOK, NEW y \in Seq(Descs), y # <<>>, Distinct(y), PutRep(y), Prepare
  PROVE  /\ LinkRep(Rotated(y), tdesc, terminator[dest])' /\ tdesc'.own = "SW"
         /\ tdesc'.dataAddr = dataAddr[desc] /\ dataAddr' = [dataAddr EXCEPT ![desc] = NULL]
         /\ desc = y[1] /\ dataAddr[desc] # NULL
         /\ \A d \in Descs : d \notin On(y) =>
              /\ own'[d] = own[d] /\ nextAddr'[d] = nextAddr[d]
              /\ lastAddr'[d] = lastAddr[d] /\ dataAddr'[d] = dataAddr[d]
         /\ pc' = "status"
         /\ UNCHANGED <<head, terminator, engines, spare, available, desc, dest>>
<1> DEFINE w == Rotated(y)
           n == Len(y)
           last == y[n]
<1>0. /\ w \in Seq(Descs) /\ Len(w) = n /\ n \in Nat \ {0}
      /\ w[n] = y[1] /\ \A i \in 1 .. n - 1 : w[i] = y[i + 1]
  BY RotatedList
<1>1. /\ \A i \in 1 .. n : y[i] \in Descs
      /\ \A i, j \in 1 .. n : y[i] = y[j] => i = j
  BY LenProperties DEF Distinct
<1>2. /\ Links(y) /\ y[1] = desc /\ lastAddr[desc] = last
      /\ \A i \in 1 .. n :
           /\ dataAddr[y[i]] # NULL
           /\ dataAddr[y[i]] = Reserved => n = 1 /\ dest = DrainQ
  BY DEF PutRep
<1>3. 1 \in 1 .. n /\ n \in 1 .. n /\ desc \in Descs /\ last \in Descs
  BY <1>0, <1>1, <1>2
<1>4. InChain(desc, last) = {y[k] : k \in 1 .. n}
  BY <1>2, <1>3, ChainAlong
<1>5. last = desc <=> n = 1
  BY <1>1, <1>2, <1>3
<1> DEFINE R == {y[k] : k \in 1 .. n} \ {desc}
<1>6. /\ own' = [d \in Descs |-> IF d = desc THEN "SW" ELSE IF d \in R THEN "HW" ELSE own[d]]
      /\ nextAddr' = [nextAddr EXCEPT ![last] = desc, ![desc] = desc]
      /\ lastAddr' = [d \in Descs |-> IF d = desc THEN desc
                                      ELSE IF d \notin R THEN lastAddr[d]
                                      ELSE IF dest = DrainQ THEN last ELSE d]
      /\ dataAddr' = [dataAddr EXCEPT ![desc] = NULL]
      /\ tdesc' = [own |-> "SW",
                   nextAddr |-> IF n = 1 THEN desc ELSE nextAddr[desc],
                   lastAddr |-> IF n = 1 \/ dest = FillQ THEN terminator[dest] ELSE last,
                   dataAddr |-> dataAddr[desc]]
      /\ pc' = "status"
      /\ UNCHANGED <<head, terminator, engines, spare, available, desc, dest>>
  <2> HIDE DEF w, n, last
  <2>1. QED
    BY <1>2, <1>4, <1>5 DEF Prepare
<1>7. ASSUME NEW i \in 2 .. n PROVE y[i] \in Descs /\ y[i] # desc /\ y[i] \in R
  BY <1>0, <1>1, <1>2, <1>3
<1>8. ASSUME NEW i \in 1 .. n - 1
      PROVE  /\ i + 1 \in 2 .. n /\ w[i] = y[i + 1]
             /\ own'[w[i]] = "HW" /\ dataAddr'[w[i]] = dataAddr[y[i + 1]]
             /\ dataAddr[y[i + 1]] \notin {NULL, Reserved}
  <2>1. i + 1 \in 2 .. n /\ w[i] = y[i + 1] /\ i + 1 \in 1 .. n /\ n # 1
    BY <1>0
  <2> DEFINE d == y[i + 1]
  <2>2. d \in Descs /\ d # desc /\ d \in R
    BY <1>7, <2>1
  <2>3. dataAddr[d] \notin {NULL, Reserved}
    BY <1>2, <2>1
  <2> HIDE DEF d, R
  <2>4. own'[d] = "HW" /\ dataAddr'[d] = dataAddr[d]
    BY <1>6, <2>2 DEF TypeOK
  <2>5. QED
    BY <2>1, <2>3, <2>4 DEF d
<1>9. Links(w)'
  <2> SUFFICES ASSUME NEW i \in 1 .. n - 1 PROVE nextAddr'[w[i]] = w[i + 1]
    BY <1>0 DEF Links
  <2>1. i + 1 \in 2 .. n /\ w[i] = y[i + 1]
    BY <1>8
  <2> DEFINE j == i + 1
  <2>2. CASE j = n
    <3>1. y[j] = last /\ last \in Descs /\ last # desc
      BY <1>7, <2>1, <2>2
    <3>2. nextAddr'[last] = desc
      <4> HIDE DEF last
      <4>1. QED
        BY <1>6, <3>1 DEF TypeOK
    <3>3. w[j] = desc
      BY <1>0, <1>2, <2>2
    <3>4. QED
      BY <2>1, <3>1, <3>2, <3>3
  <2>3. CASE j # n
    <3>1. j \in 1 .. n - 1 /\ j \in 2 .. n /\ j \in 1 .. n
      BY <1>0, <2>1, <2>3
    <3>2. w[j] = y[j + 1] /\ nextAddr[y[j]] = y[j + 1]
      BY <1>0, <1>2, <3>1 DEF Links
    <3>3. y[j] # last /\ y[j] # desc /\ y[j] \in Descs
      BY <1>1, <1>3, <1>7, <2>3, <3>1
    <3>4. nextAddr'[y[j]] = nextAddr[y[j]]
      <4> HIDE DEF last, j
      <4>1. QED
        BY <1>6, <3>3 DEF TypeOK
    <3>5. QED
      BY <2>1, <3>2, <3>4
  <2>4. QED
    BY <2>2, <2>3
<1>10. /\ tdesc'.nextAddr = w[1] /\ tdesc'.own = "SW" /\ tdesc'.dataAddr = dataAddr[desc]
       /\ dest = DrainQ => tdesc'.lastAddr = IF n = 1 THEN terminator[dest] ELSE w[n - 1]
  <2>1. CASE n = 1
    <3>1. w[1] = desc
      BY <1>0, <1>2, <2>1
    <3>2. QED
      BY <1>6, <2>1, <3>1
  <2>2. CASE n # 1
    <3>1. 1 \in 1 .. n - 1 /\ n - 1 \in 1 .. n - 1 /\ (n - 1) + 1 = n /\ 1 + 1 = 2
      BY <1>0, <2>2
    <3>2. w[1] = y[2] /\ nextAddr[y[1]] = y[2] /\ w[n - 1] = last
      BY <1>0, <1>2, <3>1 DEF Links
    <3>3. DrainQ # FillQ
      BY DmaQueueAssumption
    <3>4. tdesc'.nextAddr = nextAddr[desc]
      BY <1>6, <2>2
    <3>5. dest = DrainQ => tdesc'.lastAddr = last
      <4> HIDE DEF last
      <4>1. QED
        BY <1>6, <2>2, <3>3
    <3>6. QED
      BY <1>2, <1>6, <2>2, <3>2, <3>4, <3>5
  <2>3. QED
    BY <2>1, <2>2
<1>11. own'[desc] # "HW" /\ dataAddr'[desc] = NULL
  BY <1>3, <1>6 DEF TypeOK
<1>12. ASSUME NEW d \in Descs, d \notin On(y)
       PROVE  /\ own'[d] = own[d] /\ nextAddr'[d] = nextAddr[d]
              /\ lastAddr'[d] = lastAddr[d] /\ dataAddr'[d] = dataAddr[d]
  <2>1. d \notin R /\ d # desc /\ d # last
    BY <1>2, <1>3, <1>12 DEF On
  <2> HIDE DEF R, last
  <2>2. QED
    BY <1>6, <2>1 DEF TypeOK
<1>13. dataAddr[desc] # NULL /\ (dataAddr[desc] = Reserved => n = 1 /\ dest = DrainQ)
  BY <1>2, <1>3
<1> HIDE DEF w
<1>14. LinkRep(w, tdesc, terminator[dest])'
  <2>1. w[Len(w)] = desc'
    BY <1>0, <1>2, <1>6
  <2>2. \A i \in 1 .. Len(w) - 1 : own'[w[i]] = "HW" /\ dataAddr'[w[i]] \notin {NULL, Reserved}
    BY <1>0, <1>8
  <2>3. own'[desc'] # "HW" /\ dataAddr'[desc'] = NULL
    BY <1>6, <1>11
  <2>4. tdesc'.dataAddr # NULL /\ (tdesc'.dataAddr = Reserved => Len(w) = 1 /\ dest' = DrainQ)
    BY <1>0, <1>6, <1>10, <1>13
  <2>5. dest' = DrainQ => tdesc'.lastAddr = IF Len(w) = 1 THEN terminator'[dest'] ELSE w[Len(w) - 1]
    BY <1>0, <1>6, <1>10
  <2>6. QED
    BY <1>9, <1>10, <2>1, <2>2, <2>3, <2>4, <2>5 DEF LinkRep
<1>15. pc' = "status" /\ UNCHANGED <<head, terminator, engines, spare, available, desc, dest>>
       /\ dataAddr' = [dataAddr EXCEPT ![desc] = NULL] /\ desc = y[1]
  BY <1>2, <1>6
<1>16. QED
  BY <1>10, <1>12, <1>13, <1>14, <1>15 DEF w
-----------------------------------------------------------------------------
(* The steps, one by one, and the lists they lead to.                      *)
SideInv == Ends /\ SpareRep /\ Carriers

LEMMA Apart ==
  ASSUME NEW x, NEW b, NEW s, NEW z, NEW c, NEW t, NEW y, Rep(x, b, s, z, c, t, y)
  PROVE  /\ x \in Seq(Descs) /\ Len(x) \in Nat \ {0} /\ Distinct(x)
         /\ z \in Seq(Descs) /\ Len(z) \in Nat \ {0} /\ Distinct(z)
         /\ y \in Seq(Descs) /\ Len(y) \in Nat /\ Distinct(y)
         /\ \A i \in 1 .. Len(x) : x[i] \in On(x) /\ x[i] \in Descs /\ x[i] \notin On(y) /\ x[i] \notin On(z)
         /\ \A i \in 1 .. Len(z) : z[i] \in On(z) /\ z[i] \in Descs /\ z[i] \notin On(y) /\ z[i] \notin On(x)
         /\ \A i \in 1 .. Len(y) : y[i] \in On(y) /\ y[i] \in Descs /\ y[i] \notin On(x) /\ y[i] \notin On(z)
         /\ terminator[FillQ] = x[Len(x)] /\ terminator[DrainQ] = z[Len(z)]
         /\ terminator[FillQ] \in On(x) /\ terminator[DrainQ] \in On(z)
         /\ Shape(x, b, s) /\ Shape(z, c, t)
         /\ FillQ # DrainQ /\ FillQ \in Queues /\ DrainQ \in Queues
<1>1. /\ Shape(x, b, s) /\ Shape(z, c, t)
      /\ terminator[FillQ] = x[Len(x)] /\ terminator[DrainQ] = z[Len(z)]
  BY DEF Rep, FillRep, DrainRep, QueueRep
<1>2. /\ x \in Seq(Descs) /\ Len(x) \in Nat \ {0} /\ \A i \in 1 .. Len(x) : x[i] \in Descs
      /\ z \in Seq(Descs) /\ Len(z) \in Nat \ {0} /\ \A i \in 1 .. Len(z) : z[i] \in Descs
      /\ Distinct(x) /\ Distinct(z)
  BY <1>1, ShapeFacts DEF Shape
<1>3. y \in Seq(Descs) /\ Distinct(y)
  BY DEF Rep, HeldRep
<1>4. Len(y) \in Nat /\ \A i \in 1 .. Len(y) : y[i] \in Descs
  BY <1>3, LenProperties
<1>5. /\ \A i \in 1 .. Len(x) : x[i] \in On(x)
      /\ \A i \in 1 .. Len(z) : z[i] \in On(z)
      /\ \A i \in 1 .. Len(y) : y[i] \in On(y)
  BY DEF On
<1>6. On(x) \cap On(z) = {} /\ On(x) \cap On(y) = {} /\ On(z) \cap On(y) = {}
  BY DEF Rep, ApartRep
<1>7. /\ \A i \in 1 .. Len(x) : x[i] \notin On(y) /\ x[i] \notin On(z)
      /\ \A i \in 1 .. Len(z) : z[i] \notin On(y) /\ z[i] \notin On(x)
      /\ \A i \in 1 .. Len(y) : y[i] \notin On(x) /\ y[i] \notin On(z)
  BY <1>5, <1>6
<1>8. Len(x) \in 1 .. Len(x) /\ Len(z) \in 1 .. Len(z)
  BY <1>2
<1>9. FillQ # DrainQ /\ FillQ \in Queues /\ DrainQ \in Queues
  BY DmaQueueAssumption DEF Queues
<1>10. terminator[FillQ] \in On(x) /\ terminator[DrainQ] \in On(z)
  BY <1>1, <1>5, <1>8
<1>11. QED
  BY <1>1, <1>2, <1>3, <1>4, <1>5, <1>7, <1>9, <1>10

LEMMA NoneOn == On(<<>>) = {} /\ <<>> \in Seq(Descs) /\ Distinct(<<>>)
BY DEF On, Distinct

LEMMA OneOn ==
  ASSUME NEW d \in Descs
  PROVE  /\ <<d>> \in Seq(Descs) /\ Len(<<d>>) = 1 /\ <<d>>[1] = d /\ <<d>> # <<>>
         /\ On(<<d>>) = {d} /\ Distinct(<<d>>)
<1>1. <<d>> \in Seq(Descs) /\ Len(<<d>>) = 1 /\ <<d>>[1] = d /\ <<d>> # <<>>
  OBVIOUS
<1> DEFINE v == <<d>>
<1> HIDE DEF v
<1>2. Len(v) = 1 /\ v[1] = d
  BY <1>1 DEF v
<1>3. \A i \in 1 .. 1 : i = 1
  OBVIOUS
<1>4. On(v) = {d} /\ Distinct(v)
  BY <1>2, <1>3 DEF On, Distinct
<1>5. QED
  BY <1>1, <1>4 DEF v

(* Where nothing is linked and no payload moves.                           *)
LEMMA SidesKept ==
  ASSUME SideInv, UNCHANGED <<dataAddr, terminator>>, SpareRep',
         pc \notin {"status", "copy", "publish"}, pc' \notin {"status", "copy"}
  PROVE  SideInv'
<1>1. Ends'
  BY DEF SideInv, Ends
<1>2. Carriers'
  <2>1. \A p : ~InHand(p) /\ ~InHand(p)'
    BY DEF InHand
  <2>2. QED
    BY <2>1 DEF SideInv, Carriers
<1>3. QED
  BY <1>1, <1>2 DEF SideInv

LEMMA SpareStep ==
  ASSUME TypeOK, SideInv, NEW x, NEW b, NEW s, NEW z, NEW c, NEW t, NEW y,
         Rep(x, b, s, z, c, t, y), TakeSpare,
         NEW d, d = spare
  PROVE  Rep(x, b, s, z, c, t, <<d>>)' /\ SideInv'
<1>0. /\ pc = "idle" /\ available /\ available' = FALSE /\ pc' = "put"
      /\ desc' = d /\ dest' = DrainQ /\ d \in Descs
      /\ UNCHANGED <<own, nextAddr, lastAddr, dataAddr, head, terminator, cur, spare>>
  BY DEF TakeSpare, TypeOK, memory, engines
<1>1. Untouched(FillQ, x) /\ Untouched(DrainQ, z)
  BY <1>0 DEF Untouched
<1>2. FillRep(x, b, s)' /\ DrainRep(z, c, t)'
  BY <1>1, FillKept, DrainKept DEF Rep
<1> DEFINE v == <<d>>
<1>3. /\ v \in Seq(Descs) /\ Len(v) = 1 /\ v[1] = d /\ v # <<>> /\ On(v) = {d} /\ Distinct(v)
  BY <1>0, OneOn
<1> HIDE DEF v
<1>4. HeldRep(v)'
  <2>1. DrainQ \in Queues
    BY DEF Queues
  <2>2. QED
    BY <1>0, <1>3, <2>1 DEF HeldRep
<1>5. lastAddr[d] = d /\ dataAddr[d] = Reserved /\ Reserved # NULL
  <2>1. Reserved # NULL
    BY DmaQueueAssumption DEF Payloads
  <2>2. QED
    BY <1>0, <2>1 DEF SideInv, SpareRep
<1>6. PutRep(v)'
  <2>1. Links(v)'
    BY <1>3 DEF Links
  <2>2. lastAddr'[desc'] = v[Len(v)]
    BY <1>0, <1>3, <1>5
  <2>3. \A i \in 1 .. Len(v) : dataAddr'[v[i]] # NULL
    <3>1. \A i \in 1 .. Len(v) : i = 1
      BY <1>3
    <3>2. QED
      BY <1>0, <1>3, <1>5, <3>1
  <2>4. QED
    BY <1>0, <1>3, <2>1, <2>2, <2>3 DEF PutRep
<1>7. StepRep(v)'
  BY <1>0, <1>6 DEF StepRep
<1>8. ApartRep(x, z, v)'
  <2>1. On(x) \cap On(z) = {} /\ d \notin On(x) /\ d \notin On(z)
    BY <1>0 DEF Rep, ApartRep
  <2>2. QED
    BY <1>0, <1>3, <2>1 DEF ApartRep
<1>9. Rep(x, b, s, z, c, t, v)'
  BY <1>2, <1>4, <1>7, <1>8 DEF Rep
<1>10. SideInv'
  <2>1. SpareRep'
    BY <1>0 DEF SpareRep
  <2>2. QED
    BY <1>0, <2>1, SidesKept
<1>11. QED
  BY <1>9, <1>10 DEF v

LEMMA TriggerStep ==
  ASSUME TypeOK, SideInv, NEW x, NEW b, NEW s, NEW z, NEW c, NEW t, NEW y,
         Rep(x, b, s, z, c, t, y), Trigger
  PROVE  Rep(x, b, s, z, c, t, y)' /\ SideInv' /\ y = <<>>
<1>0. /\ pc = "trigger" /\ pc' = "idle"
      /\ UNCHANGED <<own, nextAddr, lastAddr, dataAddr, head, terminator, cur, spare, available>>
  BY DEF Trigger, memory
<1>1. Untouched(FillQ, x) /\ Untouched(DrainQ, z)
  BY <1>0 DEF Untouched
<1>2. FillRep(x, b, s)' /\ DrainRep(z, c, t)'
  BY <1>1, FillKept, DrainKept DEF Rep
<1>3. y = <<>> /\ HeldRep(y)'
  BY <1>0 DEF Rep, HeldRep
<1>4. StepRep(y)'
  BY <1>0 DEF StepRep
<1>5. ApartRep(x, z, y)'
  BY <1>0 DEF Rep, ApartRep
<1>6. SideInv'
  <2>1. SpareRep'
    BY <1>0 DEF SideInv, SpareRep
  <2>2. QED
    BY <1>0, <2>1, SidesKept
<1>7. QED
  BY <1>2, <1>3, <1>4, <1>5, <1>6 DEF Rep

(* Steps that change nothing the lists or the payloads depend on.          *)
LEMMA IdleStep ==
  ASSUME TypeOK, SideInv, NEW x, NEW b, NEW s, NEW z, NEW c, NEW t, NEW y,
         Rep(x, b, s, z, c, t, y),
         UNCHANGED <<own, nextAddr, lastAddr, dataAddr, head, terminator, cur, spare,
                     available, locals>>
  PROVE  Rep(x, b, s, z, c, t, y)' /\ SideInv'
<1>0. UNCHANGED <<pc, desc, dest, tdesc>>
  BY DEF locals
<1>1. Untouched(FillQ, x) /\ Untouched(DrainQ, z)
  BY DEF Untouched
<1>2. FillRep(x, b, s)' /\ DrainRep(z, c, t)'
  BY <1>1, FillKept, DrainKept DEF Rep
<1>3. HeldRep(y)'
  BY <1>0 DEF Rep, HeldRep
<1>4. StepRep(y)'
  BY <1>0 DEF Rep, StepRep, PutRep, LinkRep, Links, Copied
<1>5. ApartRep(x, z, y)'
  BY DEF Rep, ApartRep
<1>6. SideInv'
  BY <1>0 DEF SideInv, Ends, SpareRep, Carriers, InHand
<1>7. QED
  BY <1>2, <1>3, <1>4, <1>5, <1>6 DEF Rep

(* A completed packet is taken: the firmware has it, or it is its own.     *)
LEMMA TakeFilledStep ==
  ASSUME TypeOK, SideInv, NEW x, NEW b, NEW s, NEW z, NEW c, NEW t, NEW y,
         Rep(x, b, s, z, c, t, y), TakeFilled
  PROVE  /\ Rep(Cut(x, b[2]), CutPlaces(b), s - 1, z, c, t, Part(x, b[2] - 1))'
         /\ SideInv' /\ s # 0
<1> DEFINE u == Cut(x, b[2])
           k == CutPlaces(b)
           v == Part(x, b[2] - 1)
<1>0. /\ pc = "idle" /\ pc' = "put" /\ desc' = head[FillQ] /\ dest' \in Queues
      /\ Completed(FillQ) /\ Unlink(FillQ)
      /\ UNCHANGED <<cur, terminator, spare, available>>
  BY DEF TakeFilled, engines
<1>1. /\ FillRep(x, b, s) /\ QueueRep(FillQ, x, b, s) /\ DrainRep(z, c, t)
      /\ FillQ \in Queues /\ FillQ # DrainQ /\ DrainQ \in Queues
  BY Apart DEF Rep, FillRep
<1>2. QueueRep(FillQ, u, k, s - 1)'
  BY <1>0, <1>1, Unlinked
<1>3. /\ v \in Seq(Descs) /\ Distinct(v) /\ Len(v) = b[2] - 1 /\ v # <<>>
      /\ \A i \in 1 .. Len(v) : v[i] = x[i]
      /\ v[1] = head[FillQ] /\ Links(v)' /\ lastAddr'[head[FillQ]] = v[Len(v)]
      /\ \A i \in 1 .. Len(v) : dataAddr'[v[i]] = dataAddr[v[i]] /\ dataAddr[v[i]] # NULL
  BY <1>0, <1>1, Taken
<1>4. s # 0 /\ head[FillQ] = x[1] /\ lastAddr[x[1]] = x[b[2] - 1]
  BY <1>0, <1>1, CompletedFirst
<1>5. /\ Shape(x, b, s) /\ b[2] \in 2 .. Len(x) /\ Len(b) \in Nat /\ 2 <= Len(b) /\ Len(x) \in Nat
  BY <1>1, <1>4, SecondPlace, ShapeFacts DEF QueueRep
<1>6. /\ Len(u) = Len(x) - b[2] + 1 /\ Len(k) = Len(b) - 1
      /\ \A i \in 1 .. Len(x) - b[2] + 1 : u[i] = x[i + b[2] - 1]
  BY <1>4, <1>5, CutShape
<1>7. /\ dataAddr' = dataAddr /\ own' = own
      /\ nextAddr' = [nextAddr EXCEPT ![x[b[2] - 1]] = x[b[2] - 1]]
      /\ lastAddr' = [lastAddr EXCEPT ![x[b[2] - 1]] = x[b[2] - 1]]
      /\ \A q \in Queues : q # FillQ => head'[q] = head[q]
  BY <1>0, <1>4 DEF Unlink, TypeOK
<1> HIDE DEF u, k, v
<1>8. FillRep(u, k, s - 1)'
  <2>1. Len(k) = (s - 1) + 1
    BY <1>1, <1>5, <1>6, ShapeFacts DEF FillRep
  <2>2. \A i \in 1 .. Len(u) - 1 : dataAddr'[u[i]] # Reserved
    <3> SUFFICES ASSUME NEW i \in 1 .. Len(u) - 1 PROVE dataAddr[u[i]] # Reserved
      BY <1>7
    <3> DEFINE j == i + b[2] - 1
    <3>1. i \in 1 .. Len(x) - b[2] + 1 /\ j \in 1 .. Len(x) - 1
      BY <1>5, <1>6
    <3>2. u[i] = x[j]
      BY <1>6, <3>1
    <3> HIDE DEF j
    <3>3. QED
      BY <1>1, <3>1, <3>2 DEF FillRep
  <2>3. QED
    BY <1>2, <2>1, <2>2 DEF FillRep
<1>9. b[2] - 1 \in 1 .. Len(x) - 1 /\ b[2] - 1 \in 1 .. Len(x)
  BY <1>5
<1>10. DrainRep(z, c, t)'
  <2>1. ASSUME NEW i \in 1 .. Len(z)
        PROVE nextAddr'[z[i]] = nextAddr[z[i]] /\ lastAddr'[z[i]] = lastAddr[z[i]]
    <3>1. z[i] # x[b[2] - 1] /\ z[i] \in Descs
      BY <1>9, Apart
    <3>2. QED
      BY <1>7, <3>1 DEF TypeOK
  <2>2. Len(z) \in Nat
    BY Apart
  <2>3. Untouched(DrainQ, z)
    BY <1>0, <1>1, <1>7, <2>1, <2>2 DEF Untouched
  <2>4. QED
    BY <1>1, <2>3, DrainKept
<1>11. HeldRep(v)'
  <2>1. head[FillQ] \in Descs
    BY <1>1 DEF TypeOK
  <2>2. QED
    BY <1>0, <1>3, <2>1 DEF HeldRep
<1>12. PutRep(v)'
  <2>1. \A i \in 1 .. Len(v) : dataAddr'[v[i]] # NULL /\ dataAddr'[v[i]] # Reserved
    <3> SUFFICES ASSUME NEW i \in 1 .. Len(v)
                 PROVE  dataAddr'[v[i]] # NULL /\ dataAddr'[v[i]] # Reserved
      OBVIOUS
    <3>1. i \in 1 .. Len(x) - 1
      BY <1>3, <1>5
    <3>2. QED
      BY <1>1, <1>3, <3>1 DEF FillRep
  <2>2. QED
    BY <1>0, <1>3, <2>1 DEF PutRep
<1>13. StepRep(v)'
  BY <1>0, <1>12 DEF StepRep
<1>14. ApartRep(u, z, v)'
  <2>1. ASSUME NEW d, d \in On(u) PROVE d \in On(x) /\ d \notin On(v)
    <3>1. PICK i \in 1 .. Len(u) : d = u[i]
      BY <2>1 DEF On
    <3> DEFINE j == i + b[2] - 1
    <3>2. i \in 1 .. Len(x) - b[2] + 1 /\ j \in b[2] .. Len(x) /\ j \in 1 .. Len(x)
      BY <1>5, <1>6
    <3>3. d = x[j]
      BY <1>6, <3>1, <3>2
    <3> HIDE DEF j
    <3>4. d \in On(x)
      BY <3>2, <3>3 DEF On
    <3>5. ASSUME NEW l \in 1 .. Len(v), v[l] = d PROVE FALSE
      <4>1. l \in 1 .. Len(x) /\ l # j /\ x[l] = x[j]
        BY <1>3, <1>5, <3>2, <3>3, <3>5
      <4>2. QED
        BY <1>5, <3>2, <4>1 DEF Shape, Distinct
    <3>6. QED
      BY <3>4, <3>5 DEF On
  <2>2. ASSUME NEW d, d \in On(v) PROVE d \in On(x)
    <3>1. PICK i \in 1 .. Len(v) : d = v[i]
      BY <2>2 DEF On
    <3>2. i \in 1 .. Len(x) /\ d = x[i]
      BY <1>3, <1>5, <3>1
    <3>3. QED
      BY <3>2 DEF On
  <2>3. On(x) \cap On(z) = {} /\ (available => spare \notin On(x) \cup On(z))
    BY DEF Rep, ApartRep
  <2>a. On(u) \subseteq On(x) /\ On(v) \subseteq On(x)
    BY <2>1, <2>2
  <2>b. On(u) \cap On(v) = {}
    BY <2>1
  <2>4. On(u) \cap On(z) = {} /\ On(z) \cap On(v) = {}
    BY <2>3, <2>a
  <2>5. available => spare \notin On(u) \cup On(z) \cup On(v)
    BY <2>3, <2>a
  <2>6. QED
    BY <1>0, <2>b, <2>4, <2>5 DEF ApartRep
<1>15. SideInv'
  <2>1. available => spare # x[b[2] - 1] /\ spare \in Descs
    <3>1. available => spare \notin On(x)
      BY DEF Rep, ApartRep
    <3>2. x[b[2] - 1] \in On(x)
      BY <1>9 DEF On
    <3>3. QED
      BY <3>1, <3>2 DEF TypeOK
  <2>2. SpareRep'
    BY <1>0, <1>7, <2>1 DEF SideInv, SpareRep, TypeOK
  <2>3. QED
    BY <1>0, <1>7, <2>2, SidesKept
<1>16. Rep(u, k, s - 1, z, c, t, v)'
  BY <1>8, <1>10, <1>11, <1>13, <1>14 DEF Rep
<1>17. QED
  BY <1>4, <1>15, <1>16 DEF u, k, v

LEMMA SentUnlinked ==
  ASSUME TypeOK, NEW x, NEW b, NEW s, NEW z, NEW c, NEW t, NEW y,
         Rep(x, b, s, z, c, t, y), TakeSent,
         NEW u, NEW k, NEW v,
         u = Cut(z, c[2]), k = CutPlaces(c), v = Part(z, c[2] - 1)
  PROVE  /\ FillRep(x, b, s)' /\ DrainRep(u, k, t - 1)' /\ t # 0
         /\ v \in Seq(Descs) /\ Distinct(v) /\ Len(v) = c[2] - 1 /\ v # <<>>
         /\ \A i \in 1 .. Len(v) : v[i] = z[i]
         /\ v[1] = head[DrainQ] /\ Links(v)' /\ lastAddr'[head[DrainQ]] = v[Len(v)]
         /\ \A i \in 1 .. Len(v) : dataAddr[v[i]] # NULL
         /\ \A i \in 1 .. Len(v) : dataAddr[v[i]] = Reserved => Len(v) = 1
         /\ dataAddr' = dataAddr /\ head[DrainQ] \in On(z)
         /\ On(u) \cap On(v) = {} /\ On(u) \subseteq On(z) /\ On(v) \subseteq On(z)
         /\ On(x) \cap On(z) = {}
         /\ \A d \in Descs : d \notin On(z) => lastAddr'[d] = lastAddr[d]
<1>0. Completed(DrainQ) /\ Unlink(DrainQ) /\ UNCHANGED <<cur, terminator>>
  BY DEF TakeSent, engines
<1>1. /\ FillRep(x, b, s) /\ QueueRep(DrainQ, z, c, t) /\ DrainRep(z, c, t)
      /\ FillQ \in Queues /\ FillQ # DrainQ /\ DrainQ \in Queues
  BY Apart DEF Rep, DrainRep
<1>2. QueueRep(DrainQ, u, k, t - 1)'
  BY <1>0, <1>1, Unlinked
<1>3. /\ v \in Seq(Descs) /\ Distinct(v) /\ Len(v) = c[2] - 1 /\ v # <<>>
      /\ \A i \in 1 .. Len(v) : v[i] = z[i]
      /\ v[1] = head[DrainQ] /\ Links(v)' /\ lastAddr'[head[DrainQ]] = v[Len(v)]
      /\ \A i \in 1 .. Len(v) : dataAddr'[v[i]] = dataAddr[v[i]] /\ dataAddr[v[i]] # NULL
  BY <1>0, <1>1, Taken
<1>4. t # 0 /\ head[DrainQ] = z[1] /\ lastAddr[z[1]] = z[c[2] - 1]
  BY <1>0, <1>1, CompletedFirst
<1>5. /\ Shape(z, c, t) /\ c[2] \in 2 .. Len(z) /\ Len(c) \in Nat /\ 2 <= Len(c) /\ Len(z) \in Nat
      /\ \A i \in 2 .. Len(c) : c[i] \in c[2] .. Len(z)
      /\ c[1] = 1
  BY <1>1, <1>4, SecondPlace, ShapeFacts DEF QueueRep
<1>6. /\ Len(u) = Len(z) - c[2] + 1 /\ Len(k) = Len(c) - 1
      /\ \A i \in 1 .. Len(z) - c[2] + 1 : u[i] = z[i + c[2] - 1]
      /\ \A i \in 1 .. Len(c) - 1 : k[i] = c[i + 1] - c[2] + 1
  <2>1. Shape(z, c, t) /\ t # 0
    BY <1>4, <1>5
  <2>2. /\ Len(Cut(z, c[2])) = Len(z) - c[2] + 1 /\ Len(CutPlaces(c)) = Len(c) - 1
        /\ \A i \in 1 .. Len(z) - c[2] + 1 : Cut(z, c[2])[i] = z[i + c[2] - 1]
        /\ \A i \in 1 .. Len(c) - 1 : CutPlaces(c)[i] = c[i + 1] - c[2] + 1
    BY ONLY <2>1, CutShape
  <2>3. u = Cut(z, c[2]) /\ k = CutPlaces(c)
    OBVIOUS
  <2>4. QED
    BY <2>2, <2>3, Zenon
<1>7. /\ dataAddr' = dataAddr /\ own' = own
      /\ nextAddr' = [nextAddr EXCEPT ![z[c[2] - 1]] = z[c[2] - 1]]
      /\ lastAddr' = [lastAddr EXCEPT ![z[c[2] - 1]] = z[c[2] - 1]]
      /\ \A q \in Queues : q # DrainQ => head'[q] = head[q]
  BY <1>0, <1>4 DEF Unlink, TypeOK
<1>8. DrainRep(u, k, t - 1)'
  <2>1. k[Len(k)] = Len(u)
    <3>1. Len(k) \in 1 .. Len(c) - 1 /\ Len(k) + 1 = Len(c) /\ c[Len(c)] = Len(z)
      BY <1>1, <1>5, <1>6 DEF DrainRep
    <3>2. QED
      BY <1>6, <3>1
  <2>2. ASSUME NEW l \in 1 .. Len(k) - 1, NEW i \in 1 .. Len(u),
               k[l] <= i, i < k[l + 1], dataAddr'[u[i]] = Reserved
        PROVE  k[l + 1] = k[l] + 1
    <3> DEFINE m == l + 1
               j == i + c[2] - 1
    <3>1. /\ l \in 1 .. Len(c) - 1 /\ m \in 1 .. Len(c) - 1 /\ m \in 2 .. Len(c)
          /\ m + 1 \in 2 .. Len(c) /\ i \in 1 .. Len(z) - c[2] + 1 /\ j \in 1 .. Len(z)
      BY <1>5, <1>6
    <3>2. k[l] = c[m] - c[2] + 1 /\ k[m] = c[m + 1] - c[2] + 1 /\ u[i] = z[j]
      BY <1>6, <3>1
    <3>a. k[l] <= i /\ i < k[m] /\ j = i + c[2] - 1
      BY <2>2
    <3> HIDE DEF m, j
    <3>3. c[m] \in Nat /\ c[m + 1] \in Nat /\ c[2] \in Nat /\ i \in Nat
      <4>1. c[2] \in Nat
        BY <1>5
      <4>2. c[m] \in c[2] .. Len(z) /\ c[m + 1] \in c[2] .. Len(z)
        <5> DEFINE g == m + 1
        <5>1. m \in 2 .. Len(c) /\ g \in 2 .. Len(c)
          BY <3>1
        <5> HIDE DEF g
        <5>2. c[m] \in c[2] .. Len(z) /\ c[g] \in c[2] .. Len(z)
          BY <1>5, <5>1
        <5>3. QED
          BY <5>2 DEF g
      <4> DEFINE v1 == c[m]
                 v2 == c[m + 1]
                 v3 == c[2]
      <4>3. v3 \in Nat /\ v1 \in v3 .. Len(z) /\ v2 \in v3 .. Len(z)
        BY <4>1, <4>2
      <4>4. i \in Nat
        BY <3>1
      <4>5. v1 \in Nat /\ v2 \in Nat
        <5> HIDE DEF v1, v2, v3
        <5>1. QED
          BY <4>3
      <4>6. QED
        BY <4>3, <4>4, <4>5 DEF v1, v2, v3
    <3>4. c[m] <= j /\ j < c[m + 1]
      <4> DEFINE v1 == c[m]
                 v2 == c[m + 1]
                 v3 == c[2]
      <4>1. /\ v1 - v3 + 1 <= i /\ i < v2 - v3 + 1 /\ j = i + v3 - 1
            /\ v1 \in Nat /\ v2 \in Nat /\ v3 \in Nat /\ i \in Nat
        BY <3>2, <3>3, <3>a
      <4> HIDE DEF v1, v2, v3
      <4>2. v1 <= j /\ j < v2
        BY <4>1
      <4>3. QED
        BY <4>2 DEF v1, v2
    <3>5. c[m + 1] = c[m] + 1
      BY <1>1, <1>7, <2>2, <3>1, <3>2, <3>4 DEF DrainRep
    <3>6. QED
      <4> DEFINE v1 == c[m]
                 v2 == c[m + 1]
                 v3 == c[2]
      <4>1. /\ k[l] = v1 - v3 + 1 /\ k[m] = v2 - v3 + 1
            /\ v1 \in Nat /\ v2 \in Nat /\ v3 \in Nat /\ v2 = v1 + 1
        BY <3>2, <3>3, <3>5
      <4> HIDE DEF v1, v2, v3
      <4>2. k[m] = k[l] + 1
        BY <4>1
      <4>3. QED
        BY <4>2 DEF m
  <2>3. QED
    BY <1>2, <2>1, <2>2 DEF DrainRep
<1>9. c[2] - 1 \in 1 .. Len(z) - 1 /\ c[2] - 1 \in 1 .. Len(z)
  BY <1>5
<1>10. FillRep(x, b, s)'
  <2>1. ASSUME NEW i \in 1 .. Len(x)
        PROVE nextAddr'[x[i]] = nextAddr[x[i]] /\ lastAddr'[x[i]] = lastAddr[x[i]]
    <3>1. x[i] # z[c[2] - 1] /\ x[i] \in Descs
      BY <1>9, Apart
    <3>2. QED
      BY <1>7, <3>1 DEF TypeOK
  <2>2. Len(x) \in Nat
    BY Apart
  <2>3. Untouched(FillQ, x)
    BY <1>0, <1>1, <1>7, <2>1, <2>2 DEF Untouched
  <2>4. QED
    BY <1>1, <2>3, FillKept
<1>11. ASSUME NEW d, d \in On(u) PROVE d \in On(z) /\ d \notin On(v)
  <2>1. PICK i \in 1 .. Len(u) : d = u[i]
    BY <1>11 DEF On
  <2> DEFINE j == i + c[2] - 1
  <2>2. i \in 1 .. Len(z) - c[2] + 1 /\ j \in c[2] .. Len(z) /\ j \in 1 .. Len(z)
    BY <1>5, <1>6
  <2>3. d = z[j]
    BY <1>6, <2>1, <2>2
  <2> HIDE DEF j
  <2>4. d \in On(z)
    BY <2>2, <2>3 DEF On
  <2>5. ASSUME NEW l \in 1 .. Len(v), v[l] = d PROVE FALSE
    <3> DEFINE m == c[2]
    <3>n. l \in 1 .. m - 1 /\ m \in 2 .. Len(z) /\ j \in m .. Len(z) /\ Len(z) \in Nat
      BY <1>3, <1>5, <2>2
    <3>v. v[l] = z[l]
      BY <1>3
    <3> HIDE DEF m
    <3>0. l \in 1 .. Len(z) /\ l # j
      BY <3>n
    <3>1. l \in 1 .. Len(z) /\ l # j /\ z[l] = z[j]
      BY <2>3, <2>5, <3>0, <3>v
    <3>2. QED
      BY <1>5, <2>2, <3>1 DEF Shape, Distinct
  <2>6. QED
    BY <2>4, <2>5 DEF On
<1>12. ASSUME NEW d, d \in On(v) PROVE d \in On(z)
  <2>1. PICK i \in 1 .. Len(v) : d = v[i]
    BY <1>12 DEF On
  <2>2. i \in 1 .. Len(z) /\ d = z[i]
    BY <1>3, <1>5, <2>1
  <2>3. QED
    BY <2>2 DEF On
<1>13. ASSUME NEW i \in 1 .. Len(v), dataAddr[v[i]] = Reserved PROVE Len(v) = 1
  <2>1. 1 \in 1 .. Len(c) - 1 /\ 1 + 1 = 2 /\ i \in 1 .. Len(z) /\ c[1] <= i /\ i < c[2] /\ v[i] = z[i]
    BY <1>3, <1>5
  <2>2. c[1 + 1] = c[1] + 1
    BY <1>1, <1>13, <2>1 DEF DrainRep
  <2>3. c[2] = 2
    BY <1>5, <2>1, <2>2
  <2>4. QED
    BY <1>3, <2>3
<1>14. \A d \in Descs : d \notin On(z) => lastAddr'[d] = lastAddr[d]
  <2>1. z[c[2] - 1] \in On(z)
    BY <1>9 DEF On
  <2>2. QED
    BY <1>7, <2>1 DEF TypeOK
<1>15. head[DrainQ] \in On(z)
  <2>1. 1 \in 1 .. Len(z)
    BY <1>5
  <2>2. QED
    BY <1>4, <2>1 DEF On
<1>16. On(x) \cap On(z) = {}
  BY DEF Rep, ApartRep
<1>17. On(u) \cap On(v) = {} /\ On(u) \subseteq On(z) /\ On(v) \subseteq On(z)
  BY <1>11, <1>12
<1>18. QED
  BY <1>3, <1>4, <1>7, <1>8, <1>10, <1>13, <1>14, <1>15, <1>16, <1>17

LEMMA TakeSentStep ==
  ASSUME TypeOK, SideInv, NEW x, NEW b, NEW s, NEW z, NEW c, NEW t, NEW y,
         Rep(x, b, s, z, c, t, y), TakeSent, dataAddr[head[DrainQ]] # Reserved
  PROVE  /\ Rep(x, b, s, Cut(z, c[2]), CutPlaces(c), t - 1, Part(z, c[2] - 1))'
         /\ SideInv' /\ t # 0
<1> DEFINE u == Cut(z, c[2])
           k == CutPlaces(c)
           v == Part(z, c[2] - 1)
<1>1. /\ FillRep(x, b, s)' /\ DrainRep(u, k, t - 1)' /\ t # 0
      /\ v \in Seq(Descs) /\ Distinct(v) /\ v # <<>>
      /\ v[1] = head[DrainQ] /\ Links(v)' /\ lastAddr'[head[DrainQ]] = v[Len(v)]
      /\ \A i \in 1 .. Len(v) : dataAddr[v[i]] # NULL
      /\ \A i \in 1 .. Len(v) : dataAddr[v[i]] = Reserved => Len(v) = 1
      /\ dataAddr' = dataAddr
      /\ On(u) \cap On(v) = {} /\ On(u) \subseteq On(z) /\ On(v) \subseteq On(z)
      /\ On(x) \cap On(z) = {}
      /\ \A d \in Descs : d \notin On(z) => lastAddr'[d] = lastAddr[d]
  BY SentUnlinked
<1>0. /\ pc = "idle" /\ pc' = "put" /\ desc' = head[DrainQ] /\ dest' \in Queues
      /\ UNCHANGED <<terminator, spare, available>>
      /\ head[DrainQ] \in Descs
  BY DEF TakeSent, TypeOK, Queues
<1>2. \A i \in 1 .. Len(v) : dataAddr[v[i]] # Reserved
  <2> SUFFICES ASSUME NEW i \in 1 .. Len(v), dataAddr[v[i]] = Reserved PROVE FALSE
    OBVIOUS
  <2>1. i = 1
    BY <1>1
  <2>2. QED
    BY <1>1, <2>1
<1> HIDE DEF u, k, v
<1>3. HeldRep(v)'
  BY <1>0, <1>1 DEF HeldRep
<1>4. PutRep(v)'
  BY <1>0, <1>1, <1>2 DEF PutRep
<1>5. StepRep(v)'
  BY <1>0, <1>4 DEF StepRep
<1>6. available => spare \notin On(x) \cup On(z)
  BY DEF Rep, ApartRep
<1>7. ApartRep(x, u, v)'
  BY <1>0, <1>1, <1>6 DEF ApartRep
<1>8. SpareRep'
  BY <1>0, <1>1, <1>6 DEF SideInv, SpareRep, TypeOK
<1>9. SideInv'
  BY <1>0, <1>1, <1>8, SidesKept
<1>10. Rep(x, b, s, u, k, t - 1, v)'
  BY <1>1, <1>3, <1>5, <1>7 DEF Rep
<1>11. QED
  BY <1>1, <1>9, <1>10 DEF u, k, v

LEMMA SpareSentStep ==
  ASSUME TypeOK, SideInv, NEW x, NEW b, NEW s, NEW z, NEW c, NEW t, NEW y,
         Rep(x, b, s, z, c, t, y), TakeSent, dataAddr[head[DrainQ]] = Reserved
  PROVE  /\ Rep(x, b, s, Cut(z, c[2]), CutPlaces(c), t - 1, y)'
         /\ SideInv' /\ t # 0 /\ y = <<>> /\ c[2] = 2 /\ head[DrainQ] = z[1]
<1> DEFINE u == Cut(z, c[2])
           k == CutPlaces(c)
           v == Part(z, c[2] - 1)
<1>1. /\ FillRep(x, b, s)' /\ DrainRep(u, k, t - 1)' /\ t # 0
      /\ v \in Seq(Descs) /\ Distinct(v) /\ v # <<>>
      /\ v[1] = head[DrainQ] /\ Links(v)' /\ lastAddr'[head[DrainQ]] = v[Len(v)]
      /\ \A i \in 1 .. Len(v) : dataAddr[v[i]] = Reserved => Len(v) = 1
      /\ dataAddr' = dataAddr
      /\ On(u) \cap On(v) = {} /\ On(u) \subseteq On(z)
      /\ On(x) \cap On(z) = {}
  <2> HIDE DEF u, k, v
  <2>1. u = Cut(z, c[2]) /\ k = CutPlaces(c) /\ v = Part(z, c[2] - 1)
    BY DEF u, k, v
  <2>2. QED
    BY <2>1, SentUnlinked
<1>a. /\ Len(v) = c[2] - 1 /\ \A i \in 1 .. Len(v) : v[i] = z[i]
  BY SentUnlinked
<1>b. head[DrainQ] \in On(z)
  BY SentUnlinked
<1>0. /\ pc = "idle" /\ spare' = head[DrainQ] /\ available' = TRUE
      /\ UNCHANGED <<pc, desc, dest, tdesc, terminator>>
  BY DEF TakeSent, locals
<1> HIDE DEF u, k, v
<1>2. 1 \in 1 .. Len(v)
  BY <1>1, EmptySeq, LenProperties
<1>3. Len(v) = 1 /\ head[DrainQ] \in On(v) /\ v[1] = z[1]
  BY <1>1, <1>2, <1>a DEF On
<1>4. y = <<>> /\ HeldRep(y)'
  BY <1>0 DEF Rep, HeldRep
<1>5. StepRep(y)'
  BY <1>0 DEF StepRep
<1>6. ApartRep(x, u, y)'
  <2>1. On(y) = {}
    BY <1>4, NoneOn
  <2>2. head[DrainQ] \notin On(x) /\ head[DrainQ] \notin On(u)
    BY <1>1, <1>3, <1>b
  <2>3. QED
    BY <1>0, <1>1, <2>1, <2>2 DEF ApartRep
<1>7. SpareRep'
  BY <1>0, <1>1, <1>3 DEF SpareRep
<1>8. SideInv'
  BY <1>0, <1>1, <1>7, SidesKept
<1>9. c[2] = 2
  <2>1. c[2] \in Nat
    <3>1. Shape(z, c, t)
      BY Apart
    <3>2. QED
      BY <1>1, <3>1, SecondPlace
  <2>2. QED
    BY <1>3, <1>a, <2>1
<1>10. Rep(x, b, s, u, k, t - 1, y)'
  BY <1>1, <1>4, <1>5, <1>6 DEF Rep
<1>11. QED
  BY <1>1, <1>3, <1>4, <1>8, <1>9, <1>10 DEF u, k, v
-----------------------------------------------------------------------------
(* Linking: the packet is turned round; the copy goes over the terminator; *)
(* the list grows.                                                         *)
LEMMA PrepareStep ==
  ASSUME TypeOK, SideInv, NEW x, NEW b, NEW s, NEW z, NEW c, NEW t, NEW y,
         Rep(x, b, s, z, c, t, y), Prepare
  PROVE  Rep(x, b, s, z, c, t, Rotated(y))' /\ SideInv'
<1> DEFINE w == Rotated(y)
<1>0. /\ pc = "put" /\ y \in Seq(Descs) /\ Distinct(y) /\ y # <<>> /\ PutRep(y)
      /\ FillRep(x, b, s) /\ DrainRep(z, c, t)
      /\ desc \in Descs /\ dest \in Queues
  BY DEF Rep, HeldRep, StepRep, Prepare
<1>1. /\ LinkRep(w, tdesc, terminator[dest])' /\ tdesc'.own = "SW"
      /\ tdesc'.dataAddr = dataAddr[desc] /\ dataAddr' = [dataAddr EXCEPT ![desc] = NULL]
      /\ desc = y[1] /\ dataAddr[desc] # NULL
      /\ \A d \in Descs : d \notin On(y) =>
           /\ own'[d] = own[d] /\ nextAddr'[d] = nextAddr[d]
           /\ lastAddr'[d] = lastAddr[d] /\ dataAddr'[d] = dataAddr[d]
      /\ pc' = "status"
      /\ UNCHANGED <<head, terminator, cur, spare, available, desc, dest>>
  BY <1>0, Prepared DEF engines
<1>2. /\ w \in Seq(Descs) /\ w # <<>> /\ Distinct(w) /\ On(w) = On(y)
  BY <1>0, RotatedList
<1> HIDE DEF w
<1>3. Untouched(FillQ, x) /\ Untouched(DrainQ, z)
  <2>1. /\ \A i \in 1 .. Len(x) : x[i] \in Descs /\ x[i] \notin On(y)
        /\ \A i \in 1 .. Len(z) : z[i] \in Descs /\ z[i] \notin On(y)
        /\ Len(x) \in Nat /\ Len(z) \in Nat
    BY Apart
  <2>2. Untouched(FillQ, x)
    BY <1>1, <2>1 DEF Untouched
  <2>3. Untouched(DrainQ, z)
    BY <1>1, <2>1 DEF Untouched
  <2>4. QED
    BY <2>2, <2>3
<1>4. FillRep(x, b, s)' /\ DrainRep(z, c, t)'
  BY <1>0, <1>3, FillKept, DrainKept
<1>5. HeldRep(w)'
  BY <1>0, <1>1, <1>2 DEF HeldRep
<1>6. StepRep(w)'
  BY <1>1 DEF StepRep
<1>7. ApartRep(x, z, w)'
  BY <1>1, <1>2 DEF Rep, ApartRep
<1>8. Ends'
  <2>1. \A q \in Queues : dataAddr[terminator[q]] = NULL /\ terminator[q] \in Descs
    BY <1>0 DEF SideInv, Ends, TypeOK
  <2>2. \A q \in Queues : dataAddr'[terminator[q]] = NULL
    BY <1>0, <1>1, <2>1 DEF TypeOK
  <2>3. QED
    BY <1>1, <2>2 DEF Ends
<1>9. SpareRep'
  <2>1. available => spare \notin On(y) /\ spare \in Descs
    BY DEF Rep, ApartRep, TypeOK
  <2>2. QED
    BY <1>1, <2>1 DEF SideInv, SpareRep
<1>10. Carriers'
  <2>1. \A p \in Payloads : /\ p # NULL
                            /\ \A d, e \in Descs : dataAddr[d] = p /\ dataAddr[e] = p => d = e
                            /\ \E d \in Descs : dataAddr[d] = p
    BY <1>0, DmaQueueAssumption DEF SideInv, Carriers, InHand
  <2>2. \A d \in Descs : dataAddr'[d] = IF d = desc THEN NULL ELSE dataAddr[d]
    BY <1>1 DEF TypeOK
  <2>3. \A p : InHand(p)' <=> dataAddr[desc] = p
    BY <1>1 DEF InHand
  <2> SUFFICES ASSUME NEW p \in Payloads
               PROVE  /\ \A d, e \in Descs : dataAddr'[d] = p /\ dataAddr'[e] = p => d = e
                      /\ InHand(p)' <=> \A d \in Descs : dataAddr'[d] # p
    BY DEF Carriers
  <2>4. \A d, e \in Descs : dataAddr'[d] = p /\ dataAddr'[e] = p => d = e
    BY <2>1, <2>2
  <2>5. dataAddr[desc] = p <=> \A d \in Descs : dataAddr'[d] # p
    BY <1>0, <2>1, <2>2
  <2>6. QED
    BY <2>3, <2>4, <2>5
<1>11. QED
  BY <1>4, <1>5, <1>6, <1>7, <1>8, <1>9, <1>10 DEF Rep, SideInv, w

(* A step that writes nothing but the old terminator.                      *)
LEMMA TermOnly ==
  ASSUME NEW x, NEW b, NEW s, NEW z, NEW c, NEW t, NEW y,
         Rep(x, b, s, z, c, t, y), dest \in Queues, NEW to, to = terminator[dest],
         own'[to] # "HW",
         \A d \in Descs : d # to =>
           /\ own'[d] = own[d] /\ nextAddr'[d] = nextAddr[d]
           /\ lastAddr'[d] = lastAddr[d] /\ dataAddr'[d] = dataAddr[d],
         UNCHANGED <<head, terminator, cur>>
  PROVE  /\ FillRep(x, b, s)' /\ DrainRep(z, c, t)'
         /\ to \notin On(y) /\ to \in Descs /\ (available => spare # to)
<1>0. /\ FillRep(x, b, s) /\ DrainRep(z, c, t)
      /\ own[x[Len(x)]] # "HW" /\ own[z[Len(z)]] # "HW"
  BY DEF Rep, FillRep, DrainRep, QueueRep
<1>1. /\ terminator[FillQ] = x[Len(x)] /\ terminator[DrainQ] = z[Len(z)]
      /\ Len(x) \in Nat \ {0} /\ Len(z) \in Nat \ {0}
      /\ \A i \in 1 .. Len(x) : x[i] \in On(x) /\ x[i] \in Descs /\ x[i] \notin On(y) /\ x[i] \notin On(z)
      /\ \A i \in 1 .. Len(z) : z[i] \in On(z) /\ z[i] \in Descs /\ z[i] \notin On(y) /\ z[i] \notin On(x)
      /\ \A i, j \in 1 .. Len(x) : x[i] = x[j] => i = j
      /\ \A i, j \in 1 .. Len(z) : z[i] = z[j] => i = j
  <2>1. Distinct(x) /\ Distinct(z)
    BY Apart
  <2>2. /\ terminator[FillQ] = x[Len(x)] /\ terminator[DrainQ] = z[Len(z)]
        /\ Len(x) \in Nat \ {0} /\ Len(z) \in Nat \ {0}
    BY Apart
  <2>3. \A i \in 1 .. Len(x) : x[i] \in On(x) /\ x[i] \in Descs /\ x[i] \notin On(y) /\ x[i] \notin On(z)
    BY Apart
  <2>4. \A i \in 1 .. Len(z) : z[i] \in On(z) /\ z[i] \in Descs /\ z[i] \notin On(y) /\ z[i] \notin On(x)
    BY Apart
  <2>5. /\ \A i, j \in 1 .. Len(x) : x[i] = x[j] => i = j
        /\ \A i, j \in 1 .. Len(z) : z[i] = z[j] => i = j
    BY <2>1 DEF Distinct
  <2>6. QED
    BY <2>2, <2>3, <2>4, <2>5
<1>2. to = x[Len(x)] \/ to = z[Len(z)]
  BY <1>1 DEF Queues
<1>3. Len(x) \in 1 .. Len(x) /\ Len(z) \in 1 .. Len(z)
  BY <1>1
<1>4. ASSUME NEW i \in 1 .. Len(x), i # Len(x) PROVE x[i] # to /\ x[i] \in Descs
  BY <1>1, <1>2, <1>3, <1>4
<1>5. ASSUME NEW i \in 1 .. Len(z), i # Len(z) PROVE z[i] # to /\ z[i] \in Descs
  BY <1>1, <1>2, <1>3, <1>5
<1>6. Untouched(FillQ, x)
  <2>1. ASSUME NEW i \in 1 .. Len(x) PROVE own'[x[i]] = "HW" <=> own[x[i]] = "HW"
    <3>1. CASE i # Len(x)
      BY <1>4, <3>1
    <3>2. CASE i = Len(x)
      BY <1>0, <1>1, <3>2
    <3>3. QED
      BY <3>1, <3>2
  <2>2. ASSUME NEW i \in 1 .. Len(x) - 1
        PROVE  /\ nextAddr'[x[i]] = nextAddr[x[i]] /\ lastAddr'[x[i]] = lastAddr[x[i]]
               /\ dataAddr'[x[i]] = dataAddr[x[i]]
    <3>1. i \in 1 .. Len(x) /\ i # Len(x)
      BY <1>1
    <3>2. QED
      BY <1>4, <3>1
  <2>3. QED
    BY <2>1, <2>2 DEF Untouched
<1>7. Untouched(DrainQ, z)
  <2>1. ASSUME NEW i \in 1 .. Len(z) PROVE own'[z[i]] = "HW" <=> own[z[i]] = "HW"
    <3>1. CASE i # Len(z)
      BY <1>5, <3>1
    <3>2. CASE i = Len(z)
      BY <1>0, <1>1, <3>2
    <3>3. QED
      BY <3>1, <3>2
  <2>2. ASSUME NEW i \in 1 .. Len(z) - 1
        PROVE  /\ nextAddr'[z[i]] = nextAddr[z[i]] /\ lastAddr'[z[i]] = lastAddr[z[i]]
               /\ dataAddr'[z[i]] = dataAddr[z[i]]
    <3>1. i \in 1 .. Len(z) /\ i # Len(z)
      BY <1>1
    <3>2. QED
      BY <1>5, <3>1
  <2>3. QED
    BY <2>1, <2>2 DEF Untouched
<1>8. FillRep(x, b, s)' /\ DrainRep(z, c, t)'
  BY <1>0, <1>6, <1>7, FillKept, DrainKept
<1>9. to \notin On(y) /\ to \in Descs /\ to \in On(x) \cup On(z)
  BY <1>1, <1>2, <1>3
<1>10. available => spare # to
  BY <1>9 DEF Rep, ApartRep
<1>11. QED
  BY <1>8, <1>9, <1>10

LEMMA StatusStep ==
  ASSUME TypeOK, SideInv, NEW x, NEW b, NEW s, NEW z, NEW c, NEW t, NEW y,
         Rep(x, b, s, z, c, t, y), CopyStatus
  PROVE  Rep(x, b, s, z, c, t, y)' /\ SideInv'
<1> DEFINE to == terminator[dest]
<1>0. /\ pc = "status" /\ pc' = "copy" /\ dest \in Queues
      /\ own' = [own EXCEPT ![to] = tdesc.own]
      /\ UNCHANGED <<nextAddr, lastAddr, dataAddr, head, terminator, cur,
                     spare, available, desc, dest, tdesc>>
  BY DEF CopyStatus, TypeOK, engines
<1>1. LinkRep(y, tdesc, to) /\ tdesc.own # "HW" /\ HeldRep(y)
  BY <1>0 DEF Rep, StepRep
<1>2. to \in Descs
  BY <1>0 DEF TypeOK
<1>3. own'[to] = tdesc.own /\ \A d \in Descs : d # to => own'[d] = own[d]
  BY <1>0, <1>2 DEF TypeOK
<1>4. FillRep(x, b, s)' /\ DrainRep(z, c, t)' /\ to \notin On(y)
  <2> HIDE DEF to
  <2>1. to = terminator[dest]
    BY DEF to
  <2>2. QED
    BY <1>0, <1>1, <1>3, <2>1, TermOnly
<1>5. HeldRep(y)'
  BY <1>0, <1>1 DEF HeldRep
<1>6. \A i \in 1 .. Len(y) : own'[y[i]] = own[y[i]] /\ y[i] \in Descs
  BY <1>3, <1>4, Apart
<1>7. LinkRep(y, tdesc, terminator[dest])'
  <2>1. Len(y) \in Nat /\ y # <<>> /\ y \in Seq(Descs)
    BY <1>0, Apart DEF Rep, HeldRep
  <2>2. Len(y) \in 1 .. Len(y)
    BY <2>1, EmptySeq
  <2>3. own'[desc] = own[desc]
    BY <1>1, <1>6, <2>2 DEF LinkRep
  <2>4. \A i \in 1 .. Len(y) - 1 : own'[y[i]] = own[y[i]]
    BY <1>6, <2>1
  <2>5. Links(y)'
    BY <1>0, <1>1 DEF LinkRep, Links
  <2>6. QED
    BY <1>0, <1>1, <2>3, <2>4, <2>5 DEF LinkRep
<1>8. StepRep(y)'
  BY <1>0, <1>1, <1>7 DEF StepRep
<1>9. ApartRep(x, z, y)'
  BY <1>0 DEF Rep, ApartRep
<1>10. SideInv'
  BY <1>0 DEF SideInv, Ends, SpareRep, Carriers, InHand
<1>11. QED
  BY <1>4, <1>5, <1>8, <1>9, <1>10 DEF Rep

LEMMA RestStep ==
  ASSUME TypeOK, SideInv, NEW x, NEW b, NEW s, NEW z, NEW c, NEW t, NEW y,
         Rep(x, b, s, z, c, t, y), CopyRest
  PROVE  Rep(x, b, s, z, c, t, y)' /\ SideInv'
<1> DEFINE to == terminator[dest]
<1>0. /\ pc = "copy" /\ pc' = "publish" /\ dest \in Queues
      /\ nextAddr' = [nextAddr EXCEPT ![to] = tdesc.nextAddr]
      /\ lastAddr' = [lastAddr EXCEPT ![to] = tdesc.lastAddr]
      /\ dataAddr' = [dataAddr EXCEPT ![to] = tdesc.dataAddr]
      /\ UNCHANGED <<own, head, terminator, cur, spare, available, desc, dest>>
  BY DEF CopyRest, TypeOK, engines
<1>1. LinkRep(y, tdesc, to) /\ HeldRep(y)
  BY <1>0 DEF Rep, StepRep
<1>2. to \in Descs
  BY <1>0 DEF TypeOK
<1>3. /\ nextAddr'[to] = tdesc.nextAddr /\ lastAddr'[to] = tdesc.lastAddr
      /\ dataAddr'[to] = tdesc.dataAddr
      /\ \A d \in Descs : d # to =>
           /\ nextAddr'[d] = nextAddr[d] /\ lastAddr'[d] = lastAddr[d]
           /\ dataAddr'[d] = dataAddr[d]
  BY <1>0, <1>2 DEF TypeOK
<1>4. own[to] # "HW"
  <2>1. own[terminator[FillQ]] # "HW" /\ own[terminator[DrainQ]] # "HW"
    BY DEF Rep, FillRep, DrainRep, QueueRep
  <2>2. QED
    BY <1>0, <2>1 DEF Queues
<1>5. /\ FillRep(x, b, s)' /\ DrainRep(z, c, t)' /\ to \notin On(y) /\ (available => spare # to)
  <2> HIDE DEF to
  <2>1. to = terminator[dest]
    BY DEF to
  <2>2. QED
    BY <1>0, <1>3, <1>4, <2>1, TermOnly
<1>6. HeldRep(y)'
  BY <1>0, <1>1 DEF HeldRep
<1>7. \A i \in 1 .. Len(y) : nextAddr'[y[i]] = nextAddr[y[i]] /\ dataAddr'[y[i]] = dataAddr[y[i]]
  <2>1. \A i \in 1 .. Len(y) : y[i] \in On(y) /\ y[i] \in Descs
    BY Apart
  <2>2. to \notin On(y)
    BY <1>5
  <2> HIDE DEF to
  <2>3. QED
    BY <1>3, <2>1, <2>2
<1>8. LinkRep(y, Copied(terminator[dest]), terminator[dest])'
  <2>1. Len(y) \in Nat /\ y # <<>> /\ y \in Seq(Descs)
    BY <1>0, Apart DEF Rep, HeldRep
  <2>2. Len(y) \in 1 .. Len(y) /\ \A i \in 1 .. Len(y) - 1 : i \in 1 .. Len(y)
    BY <2>1, EmptySeq
  <2>3. dataAddr'[desc] = dataAddr[desc]
    BY <1>1, <1>7, <2>2 DEF LinkRep
  <2>4. \A i \in 1 .. Len(y) - 1 : dataAddr'[y[i]] = dataAddr[y[i]]
    BY <1>7, <2>2
  <2>5. Links(y)'
    BY <1>1, <1>7, <2>2 DEF LinkRep, Links
  <2>6. /\ Copied(terminator[dest])'.nextAddr = tdesc.nextAddr
        /\ Copied(terminator[dest])'.lastAddr = tdesc.lastAddr
        /\ Copied(terminator[dest])'.dataAddr = tdesc.dataAddr
    BY <1>0, <1>3 DEF Copied
  <2>7. QED
    BY <1>0, <1>1, <2>3, <2>4, <2>5, <2>6 DEF LinkRep
<1>9. StepRep(y)'
  BY <1>0, <1>8 DEF StepRep
<1>10. ApartRep(x, z, y)'
  BY <1>0 DEF Rep, ApartRep
<1>11. Ends'
  <2>1. ASSUME NEW q \in Queues, q # dest PROVE dataAddr'[terminator[q]] = NULL
    <3>1. terminator[q] # to
      <4>1. terminator[FillQ] # terminator[DrainQ]
        <5>1. terminator[FillQ] \in On(x) /\ terminator[DrainQ] \in On(z) /\ On(x) \cap On(z) = {}
          BY Apart DEF Rep, ApartRep
        <5>2. QED
          BY <5>1
      <4>2. QED
        BY <1>0, <2>1, <4>1 DEF Queues
    <3>2. dataAddr[terminator[q]] = NULL /\ terminator[q] \in Descs
      BY <1>0 DEF SideInv, Ends, TypeOK
    <3>3. QED
      BY <1>3, <3>1, <3>2
  <2>2. QED
    BY <1>0, <2>1 DEF Ends
<1>12. SpareRep'
  BY <1>0, <1>3, <1>5 DEF SideInv, SpareRep, TypeOK
<1>13. Carriers'
  <2>1. dataAddr[to] = NULL
    BY <1>0 DEF SideInv, Ends
  <2>2. \A p \in Payloads : p # NULL
    BY DmaQueueAssumption
  <2>3. \A p : (InHand(p) <=> tdesc.dataAddr = p) /\ ~InHand(p)'
    BY <1>0 DEF InHand
  <2> SUFFICES ASSUME NEW p \in Payloads
               PROVE  /\ \A d, e \in Descs : dataAddr'[d] = p /\ dataAddr'[e] = p => d = e
                      /\ \E d \in Descs : dataAddr'[d] = p
    BY <2>3 DEF Carriers
  <2>4. /\ \A d, e \in Descs : dataAddr[d] = p /\ dataAddr[e] = p => d = e
        /\ tdesc.dataAddr = p <=> \A d \in Descs : dataAddr[d] # p
        /\ p # NULL
    BY <2>2, <2>3 DEF SideInv, Carriers
  <2>5. \A d \in Descs : dataAddr'[d] = IF d = to THEN tdesc.dataAddr ELSE dataAddr[d]
    BY <1>3
  <2> HIDE DEF to
  <2>6. CASE tdesc.dataAddr = p
    BY <1>2, <2>4, <2>5, <2>6
  <2>7. CASE tdesc.dataAddr # p
    BY <1>2, <2>1, <2>4, <2>5, <2>7
  <2>8. QED
    BY <2>6, <2>7
<1>14. QED
  BY <1>5, <1>6, <1>9, <1>10, <1>11, <1>12, <1>13 DEF Rep, SideInv

LEMMA JoinedShape ==
  ASSUME NEW x, NEW b, NEW s, Shape(x, b, s), NEW y \in Seq(Descs), y # <<>>, Distinct(y),
         On(x) \cap On(y) = {}
  PROVE  /\ Shape(x \o y, b, s) /\ On(x \o y) = On(x) \cup On(y)
<1> DEFINE u == x \o y
<1>0. /\ x \in Seq(Descs) /\ x # <<>> /\ Distinct(x)
      /\ b \in Seq(1 .. Len(x)) /\ b # <<>> /\ b[1] = 1
      /\ \A k, l \in 1 .. Len(b) : k < l => b[k] < b[l]
      /\ s \in 0 .. Len(b) - 1
  BY DEF Shape
<1>1. /\ u \in Seq(Descs) /\ u # <<>> /\ Distinct(u)
      /\ Len(x) \in Nat \ {0} /\ Len(y) \in Nat \ {0} /\ Len(u) = Len(x) + Len(y)
      /\ \A n \in 1 .. Len(x) : u[n] = x[n]
      /\ \A n \in Len(x) + 1 .. Len(x) + Len(y) : u[n] = y[n - Len(x)]
  BY <1>0, JoinedList
<1> HIDE DEF u
<1>2. b \in Seq(1 .. Len(u))
  <2>1. Len(b) \in Nat /\ b \in [1 .. Len(b) -> 1 .. Len(x)]
    BY <1>0, LenProperties
  <2>a. \A i \in 1 .. Len(x) : i \in 1 .. Len(u)
    <3> DEFINE m == Len(x)
               n == Len(y)
               o == Len(u)
    <3>1. m \in Nat /\ n \in Nat /\ o = m + n
      BY <1>1
    <3> HIDE DEF m, n, o
    <3>2. \A i \in 1 .. m : i \in 1 .. o
      BY <3>1
    <3>3. QED
      BY <3>2 DEF m, o
  <2>2. \A i \in 1 .. Len(b) : b[i] \in 1 .. Len(u)
    BY <2>1, <2>a
  <2>3. b \in [1 .. Len(b) -> 1 .. Len(u)]
    BY <2>1, <2>2
  <2>4. QED
    BY <2>1, <2>3
<1>3. Shape(u, b, s)
  BY <1>0, <1>1, <1>2 DEF Shape
<1>4. On(u) \subseteq On(x) \cup On(y)
  <2> SUFFICES ASSUME NEW n \in 1 .. Len(u) PROVE u[n] \in On(x) \cup On(y)
    BY DEF On
  <2>1. CASE n \in 1 .. Len(x)
    BY <1>1, <2>1 DEF On
  <2>2. CASE n \notin 1 .. Len(x)
    <3>1. n \in Len(x) + 1 .. Len(x) + Len(y) /\ n - Len(x) \in 1 .. Len(y)
      BY <1>1, <2>2
    <3>2. QED
      BY <1>1, <3>1 DEF On
  <2>3. QED
    BY <2>1, <2>2
<1>5. On(x) \cup On(y) \subseteq On(u)
  <2>1. ASSUME NEW n \in 1 .. Len(x) PROVE x[n] \in On(u)
    <3>1. n \in 1 .. Len(u)
      BY <1>1
    <3>2. QED
      BY <1>1, <3>1 DEF On
  <2>2. ASSUME NEW n \in 1 .. Len(y) PROVE y[n] \in On(u)
    <3> DEFINE m == n + Len(x)
    <3>1. m \in Len(x) + 1 .. Len(x) + Len(y) /\ m - Len(x) = n /\ m \in 1 .. Len(u)
      BY <1>1
    <3> HIDE DEF m
    <3>2. QED
      BY <1>1, <3>1 DEF On
  <2>3. QED
    BY <2>1, <2>2 DEF On
<1>6. QED
  BY <1>3, <1>4, <1>5 DEF u

(* What both kinds of Publish have in common.                              *)
LEMMA PublishCommon ==
  ASSUME TypeOK, SideInv, NEW x, NEW b, NEW s, NEW z, NEW c, NEW t, NEW y,
         Rep(x, b, s, z, c, t, y), Publish
  PROVE  /\ dest \in Queues /\ pc = "publish" /\ pc' = "trigger"
         /\ LinkRep(y, Copied(terminator[dest]), terminator[dest])
         /\ y \in Seq(Descs) /\ y # <<>> /\ Distinct(y) /\ Len(y) \in Nat \ {0}
         /\ dataAddr' = dataAddr /\ HeldRep(<<>>)' /\ StepRep(<<>>)' /\ SideInv'
         /\ UNCHANGED <<available, spare, head, cur, nextAddr, lastAddr, desc, dest>>
         /\ \A d \in Descs : d # terminator[dest] => own'[d] = own[d]
         /\ \A q \in Queues : q # dest => terminator'[q] = terminator[q]
<1>0. /\ pc = "publish" /\ pc' = "trigger" /\ dest \in Queues /\ desc \in Descs
      /\ own' = [own EXCEPT ![terminator[dest]] = "HW"]
      /\ terminator' = [terminator EXCEPT ![dest] = desc]
      /\ UNCHANGED <<nextAddr, lastAddr, dataAddr, head, cur, spare, available, desc, dest, tdesc>>
  BY DEF Publish, TypeOK, engines
<1>1. LinkRep(y, Copied(terminator[dest]), terminator[dest]) /\ HeldRep(y)
  BY <1>0 DEF Rep, StepRep
<1>2. y \in Seq(Descs) /\ y # <<>> /\ Distinct(y)
  BY <1>0, <1>1 DEF HeldRep
<1>3. Len(y) \in Nat \ {0}
  BY <1>2, EmptySeq, LenProperties
<1>4. HeldRep(<<>>)'
  BY <1>0, NoneOn DEF HeldRep
<1>5. StepRep(<<>>)'
  BY <1>0 DEF StepRep
<1>6. Ends'
  <2> SUFFICES ASSUME NEW q \in Queues PROVE dataAddr'[terminator'[q]] = NULL
    BY DEF Ends
  <2>1. CASE q = dest
    <3>1. terminator'[q] = desc /\ dataAddr[desc] = NULL
      BY <1>0, <1>1, <2>1 DEF TypeOK, LinkRep
    <3>2. QED
      BY <1>0, <3>1
  <2>2. CASE q # dest
    <3>1. terminator'[q] = terminator[q] /\ dataAddr[terminator[q]] = NULL
      BY <1>0, <2>2 DEF TypeOK, SideInv, Ends
    <3>2. QED
      BY <1>0, <3>1
  <2>3. QED
    BY <2>1, <2>2
<1>7. SpareRep'
  BY <1>0 DEF SideInv, SpareRep
<1>8. Carriers'
  <2>1. \A p : ~InHand(p) /\ ~InHand(p)'
    BY <1>0 DEF InHand
  <2>2. QED
    BY <1>0, <2>1 DEF SideInv, Carriers
<1>9. \A d \in Descs : d # terminator[dest] => own'[d] = own[d]
  BY <1>0 DEF TypeOK
<1>10. \A q \in Queues : q # dest => terminator'[q] = terminator[q]
  BY <1>0 DEF TypeOK
<1>11. QED
  BY <1>0, <1>1, <1>2, <1>3, <1>4, <1>5, <1>6, <1>7, <1>8, <1>9, <1>10 DEF SideInv

LEMMA PublishFillStep ==
  ASSUME TypeOK, SideInv, NEW x, NEW b, NEW s, NEW z, NEW c, NEW t, NEW y,
         Rep(x, b, s, z, c, t, y), Publish, dest = FillQ
  PROVE  Rep(x \o y, b, s, z, c, t, <<>>)' /\ SideInv'
<1> DEFINE u == x \o y
<1>0. /\ pc = "publish"
      /\ LinkRep(y, Copied(terminator[FillQ]), terminator[FillQ])
      /\ y \in Seq(Descs) /\ y # <<>> /\ Distinct(y) /\ Len(y) \in Nat \ {0}
      /\ dataAddr' = dataAddr /\ HeldRep(<<>>)' /\ StepRep(<<>>)' /\ SideInv'
      /\ UNCHANGED <<available, spare, head, cur, nextAddr, lastAddr>>
      /\ \A d \in Descs : d # terminator[FillQ] => own'[d] = own[d]
      /\ \A q \in Queues : q # FillQ => terminator'[q] = terminator[q]
  BY PublishCommon
<1>1. /\ x \in Seq(Descs) /\ Len(x) \in Nat \ {0} /\ Distinct(x) /\ Shape(x, b, s)
      /\ \A i \in 1 .. Len(z) : z[i] \in Descs /\ z[i] \notin On(x)
      /\ Len(z) \in Nat
      /\ terminator[FillQ] = x[Len(x)] /\ terminator[FillQ] \in On(x)
      /\ FillQ # DrainQ /\ FillQ \in Queues /\ DrainQ \in Queues
  BY Apart
<1>2. /\ On(x) \cap On(z) = {} /\ On(x) \cap On(y) = {} /\ On(z) \cap On(y) = {}
      /\ (available => spare \notin On(x) \cup On(z) \cup On(y))
      /\ FillRep(x, b, s) /\ DrainRep(z, c, t) /\ QueueRep(FillQ, x, b, s)
  BY DEF Rep, ApartRep, FillRep
<1>3. x # <<>>
  BY <1>1, EmptySeq
<1>4. Shape(u, b, s) /\ On(u) = On(x) \cup On(y)
  BY <1>0, <1>1, <1>2, JoinedShape
<1>5. Len(b) \in Nat
  BY <1>1, ShapeFacts
<1>6. QueueRep(FillQ, u, b, s)'
  BY <1>0, <1>1, <1>2, <1>4, <1>5, Published
<1>7. /\ Len(u) = Len(x) + Len(y)
      /\ \A n \in 1 .. Len(x) : u[n] = x[n]
      /\ \A n \in Len(x) + 1 .. Len(x) + Len(y) : u[n] = y[n - Len(x)]
  BY <1>0, <1>1, <1>2, <1>3, JoinedList
<1> HIDE DEF u
<1>8. \A i \in 1 .. Len(u) - 1 : dataAddr'[u[i]] # Reserved
  <2> SUFFICES ASSUME NEW i \in 1 .. Len(u) - 1 PROVE dataAddr[u[i]] # Reserved
    BY <1>0
  <2>1. CASE i < Len(x)
    <3>1. i \in 1 .. Len(x) - 1 /\ i \in 1 .. Len(x)
      BY <1>1, <2>1
    <3>2. QED
      BY <1>2, <1>7, <3>1 DEF FillRep
  <2>2. CASE i = Len(x)
    <3>1. i \in 1 .. Len(x)
      BY <1>1, <2>2
    <3>2. u[i] = terminator[FillQ]
      BY <1>1, <1>7, <2>2, <3>1
    <3>3. dataAddr[terminator[FillQ]] # Reserved
      BY <1>0, <1>1 DEF LinkRep, Copied
    <3>4. QED
      BY <3>2, <3>3
  <2>3. CASE i > Len(x)
    <3> DEFINE j == i - Len(x)
    <3>1. i \in Len(x) + 1 .. Len(x) + Len(y) /\ j \in 1 .. Len(y) - 1
      BY <1>0, <1>1, <1>7, <2>3
    <3>2. u[i] = y[j]
      BY <1>7, <3>1
    <3> HIDE DEF j
    <3>3. QED
      BY <1>0, <3>1, <3>2 DEF LinkRep
  <2>4. QED
    BY <1>1, <2>1, <2>2, <2>3
<1>9. FillRep(u, b, s)'
  BY <1>2, <1>6, <1>8 DEF FillRep
<1>10. DrainRep(z, c, t)'
  <2>1. \A i \in 1 .. Len(z) : own'[z[i]] = own[z[i]]
    BY <1>0, <1>1
  <2>2. Untouched(DrainQ, z)
    BY <1>0, <1>1, <2>1 DEF Untouched
  <2>3. QED
    BY <1>2, <2>2, DrainKept
<1>11. ApartRep(u, z, <<>>)'
  <2>1. On(<<>>) = {}
    BY NoneOn
  <2>2. On(u) \cap On(z) = {} /\ (available => spare \notin On(u) \cup On(z))
    BY <1>2, <1>4
  <2>3. QED
    BY <1>0, <2>1, <2>2 DEF ApartRep
<1>12. QED
  BY <1>0, <1>9, <1>10, <1>11 DEF Rep, u

LEMMA PublishDrainStep ==
  ASSUME TypeOK, SideInv, NEW x, NEW b, NEW s, NEW z, NEW c, NEW t, NEW y,
         Rep(x, b, s, z, c, t, y), Publish, dest = DrainQ
  PROVE  Rep(x, b, s, z \o y, Append(c, Len(z) + Len(y)), t, <<>>)' /\ SideInv'
<1> DEFINE u == z \o y
           k == Append(c, Len(z) + Len(y))
<1>0. /\ pc = "publish"
      /\ LinkRep(y, Copied(terminator[DrainQ]), terminator[DrainQ])
      /\ y \in Seq(Descs) /\ y # <<>> /\ Distinct(y) /\ Len(y) \in Nat \ {0}
      /\ dataAddr' = dataAddr /\ HeldRep(<<>>)' /\ StepRep(<<>>)' /\ SideInv'
      /\ UNCHANGED <<available, spare, head, cur, nextAddr, lastAddr>>
      /\ \A d \in Descs : d # terminator[DrainQ] => own'[d] = own[d]
      /\ \A q \in Queues : q # DrainQ => terminator'[q] = terminator[q]
  BY PublishCommon
<1>1. /\ z \in Seq(Descs) /\ Len(z) \in Nat \ {0} /\ Distinct(z) /\ Shape(z, c, t)
      /\ \A i \in 1 .. Len(x) : x[i] \in Descs /\ x[i] \notin On(z)
      /\ Len(x) \in Nat
      /\ terminator[DrainQ] = z[Len(z)] /\ terminator[DrainQ] \in On(z)
      /\ FillQ # DrainQ /\ FillQ \in Queues /\ DrainQ \in Queues
  BY Apart
<1>2. /\ On(x) \cap On(z) = {} /\ On(x) \cap On(y) = {} /\ On(z) \cap On(y) = {}
      /\ (available => spare \notin On(x) \cup On(z) \cup On(y))
      /\ FillRep(x, b, s) /\ DrainRep(z, c, t) /\ QueueRep(DrainQ, z, c, t)
      /\ c[Len(c)] = Len(z)
  BY DEF Rep, ApartRep, DrainRep
<1>3. z # <<>>
  BY <1>1, EmptySeq
<1>4. Shape(u, c, t) /\ On(u) = On(z) \cup On(y)
  BY <1>0, <1>1, <1>2, JoinedShape
<1>5. /\ Len(c) \in Nat \ {0} /\ \A i \in 1 .. Len(c) : c[i] \in 1 .. Len(z)
      /\ t \in 0 .. Len(c) - 1
  BY <1>1, ShapeFacts DEF Shape
<1>6. /\ Len(u) = Len(z) + Len(y)
      /\ \A n \in 1 .. Len(z) : u[n] = z[n]
      /\ \A n \in Len(z) + 1 .. Len(z) + Len(y) : u[n] = y[n - Len(z)]
  BY <1>0, <1>1, <1>2, <1>3, JoinedList
<1> HIDE DEF u
<1>7. /\ Shape(u, k, t) /\ Len(k) = Len(c) + 1
      /\ \A l \in 1 .. Len(c) : k[l] = c[l]
      /\ k[Len(c) + 1] = Len(z) + Len(y)
  <2> DEFINE m == Len(z) + Len(y)
  <2>1. m \in 1 .. Len(u) /\ c[Len(c)] < m
    BY <1>0, <1>1, <1>2, <1>6
  <2>2. t \in 0 .. Len(c)
    BY <1>5
  <2> HIDE DEF m
  <2>3. /\ Shape(u, Append(c, m), t) /\ Len(Append(c, m)) = Len(c) + 1
        /\ \A l \in 1 .. Len(c) : Append(c, m)[l] = c[l]
        /\ Append(c, m)[Len(c) + 1] = m
    BY <1>4, <2>1, <2>2, LongerShape
  <2>4. QED
    BY <2>3 DEF m
<1> HIDE DEF k
<1>8. Len(k) \in Nat
  BY <1>5, <1>7
<1>9. QueueRep(DrainQ, u, k, t)'
  <2>1. dest = DrainQ /\ Shape(z \o y, k, t)
    BY <1>7 DEF u
  <2>2. QueueRep(DrainQ, z \o y, k, t)'
    BY <1>0, <1>1, <1>2, <1>7, <1>8, <2>1, Published
  <2>3. QED
    BY <2>2 DEF u
<1>10. ASSUME NEW l \in 1 .. Len(k) - 1, NEW i \in 1 .. Len(u),
              k[l] <= i, i < k[l + 1], dataAddr'[u[i]] = Reserved
       PROVE  k[l + 1] = k[l] + 1
  <2>1. CASE l < Len(c)
    <3>1. l \in 1 .. Len(c) - 1 /\ l \in 1 .. Len(c) /\ l + 1 \in 1 .. Len(c)
      BY <1>5, <1>7, <2>1
    <3>2. k[l] = c[l] /\ k[l + 1] = c[l + 1] /\ c[l + 1] \in 1 .. Len(z)
      BY <1>5, <1>7, <3>1
    <3>3. c[l] <= i /\ i < c[l + 1] /\ i \in 1 .. Len(z)
      BY <1>1, <1>10, <3>2
    <3>4. dataAddr[z[i]] = Reserved
      BY <1>0, <1>6, <1>10, <3>3
    <3>5. c[l + 1] = c[l] + 1
      BY <1>2, <3>1, <3>3, <3>4 DEF DrainRep
    <3>6. QED
      BY <3>2, <3>5
  <2>2. CASE ~(l < Len(c))
    <3>1. l = Len(c) /\ l \in 1 .. Len(c)
      BY <1>5, <1>7, <2>2
    <3>2. k[l] = Len(z) /\ k[l + 1] = Len(z) + Len(y)
      BY <1>2, <1>7, <3>1
    <3>3. CASE i = Len(z)
      <4>1. i \in 1 .. Len(z)
        BY <1>1, <3>3
      <4>2. u[i] = terminator[DrainQ]
        BY <1>1, <1>6, <3>3, <4>1
      <4>3. dataAddr[terminator[DrainQ]] = Reserved
        BY <1>0, <1>10, <4>2
      <4>4. Len(y) = 1
        BY <1>0, <4>3 DEF LinkRep, Copied
      <4>5. QED
        BY <3>2, <4>4
    <3>4. CASE i # Len(z)
      <4> DEFINE j == i - Len(z)
      <4>1. i \in Len(z) + 1 .. Len(z) + Len(y) /\ j \in 1 .. Len(y) - 1
        BY <1>0, <1>1, <1>10, <3>2, <3>4
      <4>2. u[i] = y[j]
        BY <1>6, <4>1
      <4> HIDE DEF j
      <4>3. dataAddr[u[i]] # Reserved
        BY <1>0, <4>1, <4>2 DEF LinkRep
      <4>4. QED
        BY <1>0, <1>10, <4>3
    <3>5. QED
      BY <3>3, <3>4
  <2>3. QED
    BY <2>1, <2>2
<1>11. DrainRep(u, k, t)'
  <2>1. k[Len(k)] = Len(u)
    BY <1>6, <1>7
  <2>2. QED
    BY <1>9, <1>10, <2>1 DEF DrainRep
<1>12. FillRep(x, b, s)'
  <2>1. \A i \in 1 .. Len(x) : own'[x[i]] = own[x[i]]
    BY <1>0, <1>1
  <2>2. Untouched(FillQ, x)
    BY <1>0, <1>1, <2>1 DEF Untouched
  <2>3. QED
    BY <1>2, <2>2, FillKept
<1>13. ApartRep(x, u, <<>>)'
  <2>1. On(<<>>) = {}
    BY NoneOn
  <2>2. On(x) \cap On(u) = {} /\ (available => spare \notin On(x) \cup On(u))
    BY <1>2, <1>4
  <2>3. QED
    BY <1>0, <2>1, <2>2 DEF ApartRep
<1>14. QED
  BY <1>0, <1>11, <1>12, <1>13 DEF Rep, u, k

(* The engines leave alone what the firmware has in its hands.             *)
LEMMA HeldKept ==
  ASSUME NEW x, NEW b, NEW s, NEW z, NEW c, NEW t, NEW y, Rep(x, b, s, z, c, t, y),
         UNCHANGED <<nextAddr, dataAddr, terminator, pc, desc, dest, tdesc>>,
         \A i \in 1 .. Len(y) : own'[y[i]] = own[y[i]] /\ lastAddr'[y[i]] = lastAddr[y[i]],
         lastAddr'[terminator[DrainQ]] = lastAddr[terminator[DrainQ]]
  PROVE  HeldRep(y)' /\ StepRep(y)'
<1>1. HeldRep(y) /\ Len(y) \in Nat
  BY Apart DEF Rep
<1>2. HeldRep(y)'
  BY <1>1 DEF HeldRep
<1>3. ASSUME pc \notin {"idle", "trigger"} PROVE 1 \in 1 .. Len(y) /\ Len(y) \in 1 .. Len(y)
  <2>1. y # <<>> /\ y \in Seq(Descs)
    BY <1>1, <1>3 DEF HeldRep
  <2>2. QED
    BY <1>1, <2>1, EmptySeq
<1>4. ASSUME pc = "put" PROVE PutRep(y)'
  <2>1. PutRep(y) /\ 1 \in 1 .. Len(y)
    BY <1>3, <1>4 DEF Rep, StepRep
  <2>2. lastAddr'[desc] = lastAddr[desc]
    BY <2>1 DEF PutRep
  <2>3. QED
    BY <2>1, <2>2 DEF PutRep, Links
<1>5. ASSUME NEW k, NEW m, LinkRep(y, k, terminator[dest]), Len(y) \in 1 .. Len(y),
             m.nextAddr = k.nextAddr, m.dataAddr = k.dataAddr,
             dest = DrainQ => m.lastAddr = k.lastAddr
      PROVE  /\ Links(y)' /\ y[Len(y)] = desc'
             /\ \A i \in 1 .. Len(y) - 1 : own'[y[i]] = "HW" /\ dataAddr'[y[i]] \notin {NULL, Reserved}
             /\ own'[desc'] # "HW" /\ dataAddr'[desc'] = NULL
             /\ m.nextAddr = y[1] /\ m.dataAddr # NULL
             /\ m.dataAddr = Reserved => Len(y) = 1 /\ dest' = DrainQ
             /\ dest' = DrainQ => m.lastAddr = IF Len(y) = 1 THEN terminator'[dest'] ELSE y[Len(y) - 1]
  <2>1. own'[desc] = own[desc]
    BY <1>5 DEF LinkRep
  <2>2. \A i \in 1 .. Len(y) - 1 : own'[y[i]] = own[y[i]]
    BY <1>1
  <2>3. Links(y)'
    BY <1>5 DEF LinkRep, Links
  <2>4. QED
    BY <1>5, <2>1, <2>2, <2>3 DEF LinkRep
<1>6. ASSUME pc \in {"status", "copy"} PROVE LinkRep(y, tdesc, terminator[dest])' /\ tdesc'.own # "HW"
  <2>1. LinkRep(y, tdesc, terminator[dest]) /\ tdesc.own # "HW" /\ Len(y) \in 1 .. Len(y)
    BY <1>3, <1>6 DEF Rep, StepRep
  <2>2. QED
    BY <1>5, <2>1 DEF LinkRep
<1>7. ASSUME pc = "publish" PROVE LinkRep(y, Copied(terminator[dest]), terminator[dest])'
  <2> DEFINE k == Copied(terminator[dest])
             m == k'
  <2>1. LinkRep(y, k, terminator[dest]) /\ Len(y) \in 1 .. Len(y)
    BY <1>3, <1>7 DEF Rep, StepRep
  <2>2. /\ m.nextAddr = k.nextAddr /\ m.dataAddr = k.dataAddr
        /\ dest = DrainQ => m.lastAddr = k.lastAddr
    BY DEF Copied
  <2> HIDE DEF k
  <2>3. LinkRep(y, k, terminator[dest])'
    BY <1>5, <2>1, <2>2 DEF LinkRep
  <2>4. QED
    BY <2>3 DEF k
<1>8. StepRep(y)'
  BY <1>4, <1>6, <1>7 DEF StepRep
<1>9. QED
  BY <1>2, <1>8

LEMMA HWFillStep ==
  ASSUME TypeOK, SideInv, NEW x, NEW b, NEW s, NEW z, NEW c, NEW t, NEW y,
         Rep(x, b, s, z, c, t, y), NEW n \in 1 .. MaxLen, HWFill(n)
  PROVE  /\ Rep(x, Append(b, b[s + 1] + n), s + 1, z, c, t, y)' /\ SideInv'
         /\ b[s + 1] + n \in 1 .. Len(x)
<1> DEFINE k == Append(b, b[s + 1] + n)
<1>0. FillRep(x, b, s) /\ DrainRep(z, c, t)
  BY DEF Rep
<1>1. /\ FillRep(x, k, s + 1)'
      /\ \A d \in Descs : d \notin On(x) => own'[d] = own[d] /\ lastAddr'[d] = lastAddr[d]
      /\ \A q \in Queues : q # FillQ => cur'[q] = cur[q]
      /\ UNCHANGED <<nextAddr, dataAddr, head, terminator, running, spare, available, locals>>
      /\ b[s + 1] + n \in 1 .. Len(x)
  BY <1>0, HWFilled
<1> HIDE DEF k
<1>a. UNCHANGED <<pc, desc, dest, tdesc>>
  BY <1>1 DEF locals
<1>2. /\ \A i \in 1 .. Len(z) : z[i] \in Descs /\ z[i] \notin On(x)
      /\ \A i \in 1 .. Len(y) : y[i] \in Descs /\ y[i] \notin On(x)
      /\ Len(z) \in Nat \ {0}
      /\ FillQ # DrainQ /\ DrainQ \in Queues /\ terminator[DrainQ] = z[Len(z)]
  BY Apart
<1>3. DrainRep(z, c, t)'
  <2>1. \A i \in 1 .. Len(z) : own'[z[i]] = own[z[i]] /\ lastAddr'[z[i]] = lastAddr[z[i]]
    BY <1>1, <1>2
  <2>2. Untouched(DrainQ, z)
    BY <1>1, <1>2, <2>1 DEF Untouched
  <2>3. QED
    BY <1>0, <2>2, DrainKept
<1>4. HeldRep(y)' /\ StepRep(y)'
  <2>1. Len(z) \in 1 .. Len(z)
    BY <1>2
  <2>2. lastAddr'[terminator[DrainQ]] = lastAddr[terminator[DrainQ]]
    BY <1>1, <1>2, <2>1
  <2>3. \A i \in 1 .. Len(y) : own'[y[i]] = own[y[i]] /\ lastAddr'[y[i]] = lastAddr[y[i]]
    BY <1>1, <1>2
  <2>4. QED
    BY <1>1, <1>a, <2>2, <2>3, HeldKept
<1>5. ApartRep(x, z, y)'
  BY <1>1 DEF Rep, ApartRep
<1>6. SideInv'
  <2>1. SpareRep'
    <3>1. available => spare \notin On(x) /\ spare \in Descs
      BY DEF Rep, ApartRep, TypeOK
    <3>2. QED
      BY <1>1, <3>1 DEF SideInv, SpareRep
  <2>2. QED
    BY <1>1, <1>a, <2>1 DEF SideInv, Ends, Carriers, InHand
<1>7. QED
  BY <1>1, <1>3, <1>4, <1>5, <1>6 DEF Rep, k

LEMMA HWDrainStep ==
  ASSUME TypeOK, SideInv, NEW x, NEW b, NEW s, NEW z, NEW c, NEW t, NEW y,
         Rep(x, b, s, z, c, t, y), HWDrain
  PROVE  Rep(x, b, s, z, c, t + 1, y)' /\ SideInv' /\ t + 2 \in 1 .. Len(c)
<1>0. FillRep(x, b, s) /\ DrainRep(z, c, t)
  BY DEF Rep
<1>1. /\ DrainRep(z, c, t + 1)' /\ t + 2 \in 1 .. Len(c)
      /\ \A d \in Descs : d \notin On(z) => own'[d] = own[d]
      /\ \A q \in Queues : q # DrainQ => cur'[q] = cur[q]
      /\ UNCHANGED <<nextAddr, lastAddr, dataAddr, head, terminator, running,
                     spare, available, locals>>
  BY <1>0, HWDrained
<1>a. UNCHANGED <<pc, desc, dest, tdesc>>
  BY <1>1 DEF locals
<1>2. /\ \A i \in 1 .. Len(x) : x[i] \in Descs /\ x[i] \notin On(z)
      /\ \A i \in 1 .. Len(y) : y[i] \in Descs /\ y[i] \notin On(z)
      /\ Len(x) \in Nat
      /\ FillQ # DrainQ /\ FillQ \in Queues
  BY Apart
<1>3. FillRep(x, b, s)'
  <2>1. \A i \in 1 .. Len(x) : own'[x[i]] = own[x[i]]
    BY <1>1, <1>2
  <2>2. Untouched(FillQ, x)
    BY <1>1, <1>2, <2>1 DEF Untouched
  <2>3. QED
    BY <1>0, <2>2, FillKept
<1>4. HeldRep(y)' /\ StepRep(y)'
  <2>1. \A i \in 1 .. Len(y) : own'[y[i]] = own[y[i]] /\ lastAddr'[y[i]] = lastAddr[y[i]]
    BY <1>1, <1>2
  <2>2. QED
    BY <1>1, <1>a, <2>1, HeldKept
<1>5. ApartRep(x, z, y)'
  BY <1>1 DEF Rep, ApartRep
<1>6. SideInv'
  BY <1>1, <1>a DEF SideInv, Ends, SpareRep, Carriers, InHand
<1>7. QED
  BY <1>1, <1>3, <1>4, <1>5, <1>6 DEF Rep
-----------------------------------------------------------------------------
(* dma_init_descriptors: one ring, one terminator, the spare descriptor.   *)
LEMMA RingApart ==
  /\ Len(Blocks) \in Nat \ {0}
  /\ \A i, j \in 1 .. Len(Blocks) + 1 : Ring(i) = Ring(j) => i = j
  /\ \A i \in 1 .. Len(Blocks) + 1 : Ring(i) # Terminators[2] /\ Ring(i) # Terminators[3]
  /\ Terminators[2] # Terminators[3]
  /\ \A d \in Descs : (\E i \in 1 .. Len(Blocks) + 1 : d = Ring(i))
                        \/ d = Terminators[2] \/ d = Terminators[3]
<1> DEFINE n == Len(Blocks)
<1>0. /\ n \in Nat \ {0} /\ DOMAIN Blocks = 1 .. n /\ DOMAIN Terminators = 1 .. 3
      /\ \A i, j \in 1 .. 3 : i # j => Terminators[i] # Terminators[j]
      /\ \A i \in 1 .. 3, j \in 1 .. n : Terminators[i] # Blocks[j]
      /\ \A i, j \in 1 .. n : i # j => Blocks[i] # Blocks[j]
  BY DmaQueueAssumption
<1> HIDE DEF n
<1>1. \A i \in 1 .. n + 1 : i = 1 \/ i - 1 \in 1 .. n
  BY <1>0
<1>2. ASSUME NEW i \in 1 .. n + 1, NEW j \in 1 .. n + 1, Ring(i) = Ring(j) PROVE i = j
  <2>1. CASE i = 1 /\ j = 1
    BY <2>1
  <2>2. CASE i = 1 /\ j # 1
    BY <1>0, <1>1, <1>2, <2>2 DEF Ring
  <2>3. CASE i # 1 /\ j = 1
    BY <1>0, <1>1, <1>2, <2>3 DEF Ring
  <2>4. CASE i # 1 /\ j # 1
    <3>1. i - 1 \in 1 .. n /\ j - 1 \in 1 .. n /\ Blocks[i - 1] = Blocks[j - 1]
      BY <1>1, <1>2, <2>4 DEF Ring
    <3>2. i - 1 = j - 1
      BY <1>0, <3>1
    <3>3. QED
      BY <1>0, <3>2
  <2>5. QED
    BY <2>1, <2>2, <2>3, <2>4
<1>3. ASSUME NEW i \in 1 .. n + 1 PROVE Ring(i) # Terminators[2] /\ Ring(i) # Terminators[3]
  BY <1>0, <1>1 DEF Ring
<1>4. ASSUME NEW d \in Descs
      PROVE  (\E i \in 1 .. n + 1 : d = Ring(i)) \/ d = Terminators[2] \/ d = Terminators[3]
  <2>1. CASE \E i \in 1 .. 3 : d = Terminators[i]
    <3>1. PICK i \in 1 .. 3 : d = Terminators[i]
      BY <2>1
    <3>2. i = 1 \/ i = 2 \/ i = 3
      OBVIOUS
    <3>3. 1 \in 1 .. n + 1 /\ Ring(1) = Terminators[1]
      BY <1>0 DEF Ring
    <3>4. QED
      BY <3>1, <3>2, <3>3
  <2>2. CASE \E i \in 1 .. n : d = Blocks[i]
    <3>1. PICK i \in 1 .. n : d = Blocks[i]
      BY <2>2
    <3>2. i + 1 \in 1 .. n + 1 /\ i + 1 # 1 /\ (i + 1) - 1 = i
      BY <1>0
    <3>3. Ring(i + 1) = d
      BY <3>1, <3>2 DEF Ring
    <3>4. QED
      BY <3>2, <3>3
  <2>3. QED
    BY <1>0, <2>1, <2>2 DEF Descs
<1>5. Terminators[2] # Terminators[3]
  BY <1>0
<1>6. QED
  BY <1>0, <1>2, <1>3, <1>4, <1>5 DEF n

LEMMA InitFields ==
  ASSUME Init
  PROVE  /\ \A i \in 1 .. Len(Blocks) :
              /\ own[Ring(i)] = "HW" /\ nextAddr[Ring(i)] = Ring(i + 1)
              /\ dataAddr[Ring(i)] = Data(Blocks[i])
         /\ \A d \in {Ring(Len(Blocks) + 1), Terminators[2], Terminators[3]} :
              /\ own[d] = "SW" /\ nextAddr[d] = d
              /\ dataAddr[d] = IF d = Terminators[3] THEN Reserved ELSE NULL
         /\ \A d \in Descs : lastAddr[d] = d
<1> DEFINE n == Len(Blocks)
<1>0. /\ n \in Nat \ {0}
      /\ \A i, j \in 1 .. n + 1 : Ring(i) = Ring(j) => i = j
      /\ \A i \in 1 .. n + 1 : Ring(i) # Terminators[2] /\ Ring(i) # Terminators[3]
  BY RingApart
<1>1. /\ Terminators[2] \in Descs /\ Terminators[3] \in Descs
      /\ \A i \in 1 .. n + 1 : Ring(i) \in Descs
  BY RingMembers
<1> HIDE DEF n
<1>a. \A i \in 1 .. n : i \in 1 .. n + 1
  BY <1>0
<1>b. n + 1 \in 1 .. n + 1 /\ n + 1 \notin 1 .. n
  BY <1>0
<1>2. ASSUME NEW i \in 1 .. n PROVE InRing(Ring(i)) /\ Index(Ring(i)) = i
  <2>1. \E j \in 1 .. n : Ring(j) = Ring(i)
    OBVIOUS
  <2>2. Index(Ring(i)) \in 1 .. n /\ Ring(Index(Ring(i))) = Ring(i)
    BY <2>1 DEF Index, n
  <2>3. Index(Ring(i)) \in 1 .. n + 1 /\ i \in 1 .. n + 1
    BY <1>a, <2>2
  <2>4. QED
    BY <1>0, <2>1, <2>2, <2>3 DEF InRing, n
<1>3. ASSUME NEW d \in {Ring(n + 1), Terminators[2], Terminators[3]} PROVE d \in Descs /\ ~InRing(d)
  <2>1. d \in Descs
    BY <1>1, <1>b
  <2>2. ASSUME NEW i \in 1 .. n, Ring(i) = d PROVE FALSE
    <3>1. i \in 1 .. n + 1 /\ i # n + 1
      BY <1>a, <1>b
    <3>2. QED
      BY <1>0, <1>b, <2>2, <3>1
  <2>3. QED
    BY <2>1, <2>2 DEF InRing, n
<1>4. ASSUME NEW i \in 1 .. n
      PROVE  own[Ring(i)] = "HW" /\ nextAddr[Ring(i)] = Ring(i + 1) /\ dataAddr[Ring(i)] = Data(Blocks[i])
  <2> DEFINE d == Ring(i)
  <2>1. d \in Descs /\ InRing(d) /\ Index(d) = i
    BY <1>1, <1>2, <1>a
  <2> HIDE DEF d
  <2>2. own[d] = "HW" /\ nextAddr[d] = Ring(Index(d) + 1) /\ dataAddr[d] = Data(Blocks[Index(d)])
    BY <2>1 DEF Init
  <2>3. QED
    BY <2>1, <2>2 DEF d
<1>5. ASSUME NEW d \in {Ring(n + 1), Terminators[2], Terminators[3]}
      PROVE  own[d] = "SW" /\ nextAddr[d] = d /\ dataAddr[d] = IF d = Terminators[3] THEN Reserved ELSE NULL
  BY <1>3 DEF Init
<1>6. \A d \in Descs : lastAddr[d] = d
  BY DEF Init
<1>7. QED
  BY <1>4, <1>5, <1>6 DEF n

LEMMA InitRep ==
  ASSUME Init
  PROVE  LET x == [i \in 1 .. Len(Blocks) + 1 |-> Ring(i)]
         IN  Rep(x, <<1>>, 0, <<Terminators[2]>>, <<1>>, 0, <<>>) /\ SideInv
<1> DEFINE n == Len(Blocks)
           x == [i \in 1 .. n + 1 |-> Ring(i)]
           b == <<1>>
           z == <<Terminators[2]>>
<1>0. /\ n \in Nat \ {0}
      /\ \A i, j \in 1 .. n + 1 : Ring(i) = Ring(j) => i = j
      /\ \A i \in 1 .. n + 1 : Ring(i) # Terminators[2] /\ Ring(i) # Terminators[3]
      /\ Terminators[2] # Terminators[3]
      /\ \A d \in Descs : (\E i \in 1 .. n + 1 : d = Ring(i))
                             \/ d = Terminators[2] \/ d = Terminators[3]
  BY RingApart
<1>1. /\ Terminators[2] \in Descs /\ Terminators[3] \in Descs
      /\ \A i \in 1 .. n + 1 : Ring(i) \in Descs
  BY RingMembers
<1>2. /\ \A i \in 1 .. n : /\ own[Ring(i)] = "HW" /\ nextAddr[Ring(i)] = Ring(i + 1)
                           /\ dataAddr[Ring(i)] = Data(Blocks[i])
      /\ own[Ring(n + 1)] = "SW" /\ own[Terminators[2]] = "SW"
      /\ dataAddr[Ring(n + 1)] = NULL /\ dataAddr[Terminators[2]] = NULL
      /\ dataAddr[Terminators[3]] = Reserved /\ lastAddr[Terminators[3]] = Terminators[3]
  <2>1. n + 1 \in 1 .. n + 1
    BY <1>0
  <2>2. Ring(n + 1) # Terminators[3]
    BY <1>0, <2>1
  <2>3. QED
    BY <1>0, <1>1, <2>2, InitFields
<1>3. /\ head[FillQ] = Terminators[1] /\ head[DrainQ] = Terminators[2]
      /\ terminator[FillQ] = Blocks[n] /\ terminator[DrainQ] = Terminators[2]
      /\ cur = head /\ spare = Terminators[3] /\ available = TRUE /\ pc = "idle"
      /\ FillQ # DrainQ
  BY DmaQueueAssumption DEF Init, Queues
<1>4. Ring(1) = Terminators[1] /\ Ring(n + 1) = Blocks[n]
  <2>1. n + 1 # 1 /\ (n + 1) - 1 = n
    BY <1>0
  <2>2. QED
    BY <2>1 DEF Ring
<1>5. /\ \A i \in 1 .. n : Data(Blocks[i]) # NULL /\ Data(Blocks[i]) # Reserved
      /\ \A i, j \in 1 .. n : i # j => Data(Blocks[i]) # Data(Blocks[j])
      /\ Reserved # NULL
      /\ \A p \in Payloads : p = Reserved \/ \E i \in 1 .. n : p = Data(Blocks[i])
  BY DmaQueueAssumption DEF Payloads
<1> HIDE DEF n
<1>6. x \in Seq(Descs) /\ Len(x) = n + 1 /\ x # <<>> /\ \A i \in 1 .. n + 1 : x[i] = Ring(i)
  <2>1. x \in [1 .. n + 1 -> Descs] /\ n + 1 \in Nat \ {0}
    BY <1>0, <1>1
  <2>2. x \in Seq(Descs) /\ Len(x) = n + 1
    BY <2>1
  <2>3. x # <<>>
    BY <2>1, <2>2, EmptySeq
  <2>4. QED
    BY <2>2, <2>3
<1>7. /\ b # <<>> /\ Len(b) = 1 /\ b[1] = 1 /\ \A S : 1 \in S => b \in Seq(S)
  OBVIOUS
<1>8. /\ z \in Seq(Descs) /\ Len(z) = 1 /\ z[1] = Terminators[2] /\ z # <<>>
      /\ On(z) = {Terminators[2]} /\ Distinct(z)
  BY <1>1, OneOn
<1> HIDE DEF x, b, z
<1>9. Shape(x, b, 0)
  <2>1. Distinct(x)
    BY <1>0, <1>6 DEF Distinct
  <2>2. b \in Seq(1 .. Len(x)) /\ 0 \in 0 .. Len(b) - 1
    BY <1>0, <1>6, <1>7
  <2>3. \A k, l \in 1 .. Len(b) : k < l => b[k] < b[l]
    BY <1>7
  <2>4. QED
    BY <1>6, <1>7, <2>1, <2>2, <2>3 DEF Shape
<1>10. Shape(z, b, 0)
  <2>1. b \in Seq(1 .. Len(z)) /\ 0 \in 0 .. Len(b) - 1
    BY <1>7, <1>8
  <2>2. \A k, l \in 1 .. Len(b) : k < l => b[k] < b[l]
    BY <1>7
  <2>3. QED
    BY <1>7, <1>8, <2>1, <2>2 DEF Shape
<1>11. \A i \in 1 .. n : /\ x[i] = Ring(i) /\ x[i + 1] = Ring(i + 1) /\ i \in 1 .. n + 1
  BY <1>0, <1>6
<1>12. x[1] = Ring(1) /\ x[Len(x)] = Ring(n + 1)
  BY <1>0, <1>6
<1>a. ASSUME NEW i \in 1 .. Len(x) - 1
      PROVE  own[x[i]] = "HW" /\ nextAddr[x[i]] = x[i + 1] /\ dataAddr[x[i]] \notin {NULL, Reserved}
  <2>1. i \in 1 .. n
    BY <1>0, <1>6
  <2>2. x[i] = Ring(i) /\ x[i + 1] = Ring(i + 1)
    BY <1>11, <2>1
  <2>3. own[Ring(i)] = "HW" /\ nextAddr[Ring(i)] = Ring(i + 1) /\ dataAddr[Ring(i)] = Data(Blocks[i])
    BY <1>2, <2>1
  <2>4. Data(Blocks[i]) # NULL /\ Data(Blocks[i]) # Reserved
    BY <1>5, <2>1
  <2>5. QED
    BY <2>2, <2>3, <2>4
<1>13. QueueRep(FillQ, x, b, 0)
  <2>1. Links(x)
    BY <1>a DEF Links
  <2>2. head[FillQ] = x[1] /\ cur[FillQ] = x[b[0 + 1]] /\ terminator[FillQ] = x[Len(x)]
    BY <1>3, <1>4, <1>7, <1>12
  <2>3. \A i \in b[0 + 1] .. Len(x) - 1 : own[x[i]] = "HW"
    BY <1>7, <1>a
  <2>4. own[x[Len(x)]] # "HW"
    BY <1>2, <1>12
  <2>5. \A i \in 1 .. Len(x) - 1 : dataAddr[x[i]] # NULL
    BY <1>a
  <2>6. 1 .. Len(b) - 1 = {} /\ 1 .. b[0 + 1] - 1 = {}
    BY <1>7
  <2>7. QED
    BY <1>9, <2>1, <2>2, <2>3, <2>4, <2>5, <2>6 DEF QueueRep
<1>14. FillRep(x, b, 0)
  <2>1. \A i \in 1 .. Len(x) - 1 : dataAddr[x[i]] # Reserved
    BY <1>a
  <2>2. Len(b) = 0 + 1
    BY <1>7
  <2>3. QED
    BY <1>13, <2>1, <2>2 DEF FillRep
<1>15. QueueRep(DrainQ, z, b, 0)
  <2>1. /\ 1 .. Len(z) - 1 = {} /\ 1 .. Len(b) - 1 = {} /\ 1 .. b[0 + 1] - 1 = {}
        /\ b[0 + 1] .. Len(z) - 1 = {} /\ b[0 + 1] = 1
    BY <1>7, <1>8
  <2>2. Links(z)
    BY <2>1 DEF Links
  <2>3. head[DrainQ] = z[1] /\ cur[DrainQ] = z[b[0 + 1]] /\ terminator[DrainQ] = z[Len(z)]
    BY <1>3, <1>8, <2>1
  <2>4. own[z[Len(z)]] # "HW"
    BY <1>2, <1>8
  <2>5. QED
    BY <1>10, <2>1, <2>2, <2>3, <2>4 DEF QueueRep
<1>16. DrainRep(z, b, 0)
  <2>1. 1 .. Len(b) - 1 = {} /\ b[Len(b)] = Len(z)
    BY <1>7, <1>8
  <2>2. QED
    BY <1>15, <2>1 DEF DrainRep
<1>17. HeldRep(<<>>) /\ StepRep(<<>>)
  BY <1>3, NoneOn DEF HeldRep, StepRep
<1>18. ApartRep(x, z, <<>>)
  <2>1. On(<<>>) = {}
    BY NoneOn
  <2>2. Terminators[2] \notin On(x) /\ Terminators[3] \notin On(x)
    BY <1>0, <1>6 DEF On
  <2>3. QED
    BY <1>0, <1>3, <1>8, <2>1, <2>2 DEF ApartRep
<1>19. Ends
  BY <1>2, <1>3, <1>4 DEF Ends, Queues
<1>20. SpareRep
  BY <1>2, <1>3 DEF SpareRep
<1>21. Carriers
  <2> SUFFICES ASSUME NEW p \in Payloads
               PROVE  /\ \A d, e \in Descs : dataAddr[d] = p /\ dataAddr[e] = p => d = e
                      /\ \E d \in Descs : dataAddr[d] = p
    BY <1>3 DEF Carriers, InHand
  <2>0. \A d \in Descs : (\E i \in 1 .. n : d = Ring(i)) \/ d = Ring(n + 1)
                             \/ d = Terminators[2] \/ d = Terminators[3]
    <3>1. \A i \in 1 .. n + 1 : i \in 1 .. n \/ i = n + 1
      BY <1>0
    <3>2. QED
      BY <1>0, <3>1
  <2>1. CASE p = Reserved
    <3>1. \A d \in Descs : dataAddr[d] = p => d = Terminators[3]
      BY <1>2, <1>5, <2>0, <2>1
    <3>2. QED
      BY <1>1, <1>2, <2>1, <3>1
  <2>2. CASE p # Reserved
    <3>1. PICK i \in 1 .. n : p = Data(Blocks[i])
      BY <1>5, <2>2
    <3>2. ASSUME NEW d \in Descs, dataAddr[d] = p PROVE d = Ring(i)
      <4>1. PICK j \in 1 .. n : d = Ring(j)
        BY <1>2, <1>5, <2>0, <2>2, <3>1, <3>2
      <4>2. Data(Blocks[j]) = Data(Blocks[i])
        BY <1>2, <3>1, <3>2, <4>1
      <4>3. i = j
        BY <1>5, <4>2
      <4>4. QED
        BY <4>1, <4>3
    <3>3. Ring(i) \in Descs /\ dataAddr[Ring(i)] = p
      BY <1>1, <1>2, <1>11, <3>1
    <3>4. QED
      BY <3>2, <3>3
  <2>3. QED
    BY <2>1, <2>2
<1>22. Rep(x, b, 0, z, b, 0, <<>>) /\ SideInv
  BY <1>14, <1>16, <1>17, <1>18, <1>19, <1>20, <1>21 DEF Rep, SideInv
<1>23. QED
  BY <1>22 DEF x, b, z, n
-----------------------------------------------------------------------------
(* Every step has lists again.                                             *)
LEMMA StepRepresented ==
  ASSUME TypeOK, SideInv, NEW x, NEW b, NEW s, NEW z, NEW c, NEW t, NEW y,
         Rep(x, b, s, z, c, t, y), [Next]_vars
  PROVE  SideInv' /\ \E u, k, m, w, l, n, v : Rep(u, k, m, w, l, n, v)'
<1>1. CASE TakeFilled
  BY <1>1, TakeFilledStep
<1>2. CASE TakeSent /\ dataAddr[head[DrainQ]] = Reserved
  BY <1>2, SpareSentStep
<1>3. CASE TakeSent /\ dataAddr[head[DrainQ]] # Reserved
  BY <1>3, TakeSentStep
<1>4. CASE TakeSpare
  <2>1. PICK d : d = spare
    OBVIOUS
  <2>2. Rep(x, b, s, z, c, t, <<d>>)' /\ SideInv'
    BY <1>4, <2>1, SpareStep
  <2>3. QED
    BY <2>2
<1>5. CASE Prepare
  BY <1>5, PrepareStep
<1>6. CASE CopyStatus
  BY <1>6, StatusStep
<1>7. CASE CopyRest
  BY <1>7, RestStep
<1>8. CASE Publish
  <2>1. dest = FillQ \/ dest = DrainQ
    BY <1>8, PublishCommon DEF Queues
  <2>2. QED
    BY <1>8, <2>1, PublishFillStep, PublishDrainStep
<1>9. CASE Trigger
  BY <1>9, TriggerStep
<1>10. CASE \E n \in 1 .. MaxLen : HWFill(n)
  BY <1>10, HWFillStep
<1>11. CASE HWDrain
  BY <1>11, HWDrainStep
<1>12. CASE (\E q \in Queues : HWStop(q)) \/ UNCHANGED vars
  <2>1. UNCHANGED <<own, nextAddr, lastAddr, dataAddr, head, terminator, cur, spare,
                    available, locals>>
    BY <1>12 DEF HWStop, vars, memory, engines
  <2>2. QED
    BY <2>1, IdleStep
<1>13. QED
  BY <1>1, <1>2, <1>3, <1>4, <1>5, <1>6, <1>7, <1>8, <1>9, <1>10, <1>11, <1>12
     DEF Next, Firmware, Engines

LEMMA InitDmaInv == Init => DmaInv
<1> SUFFICES ASSUME Init PROVE DmaInv
  OBVIOUS
<1> DEFINE x == [i \in 1 .. Len(Blocks) + 1 |-> Ring(i)]
<1>1. Rep(x, <<1>>, 0, <<Terminators[2]>>, <<1>>, 0, <<>>) /\ SideInv
  BY InitRep
<1>2. TypeOK
  BY InitTypeOK
<1> HIDE DEF x
<1>3. QED
  BY <1>1, <1>2 DEF DmaInv, SideInv

LEMMA NextDmaInv == DmaInv /\ [Next]_vars => DmaInv'
<1> SUFFICES ASSUME DmaInv, [Next]_vars PROVE DmaInv'
  OBVIOUS
<1>1. TypeOK /\ SideInv
  BY DEF DmaInv, SideInv
<1>2. PICK x, b, s, z, c, t, y : Rep(x, b, s, z, c, t, y)
  BY DEF DmaInv
<1>3. TypeOK'
  BY <1>1, NextTypeOK
<1>4. SideInv' /\ \E u, k, m, w, l, n, v : Rep(u, k, m, w, l, n, v)'
  BY <1>1, <1>2, StepRepresented
<1>5. QED
  BY <1>3, <1>4 DEF DmaInv, SideInv

LEMMA SpecDmaInv == Spec => []DmaInv
BY InitDmaInv, NextDmaInv, PTL DEF Spec

(* What the lists say about a state.                                       *)
LEMMA OwnedComplete == DmaInv => OwnedIsComplete
<1> SUFFICES ASSUME DmaInv, NEW q \in Queues, own[cur[q]] = "HW"
             PROVE  dataAddr[cur[q]] # NULL
  BY DEF OwnedIsComplete
<1>1. PICK x, b, s, z, c, t, y : Rep(x, b, s, z, c, t, y)
  BY DEF DmaInv
<1>2. ASSUME NEW u, NEW k, NEW r, QueueRep(q, u, k, r) PROVE dataAddr[cur[q]] # NULL
  <2>1. Shape(u, k, r) /\ cur[q] = u[k[r + 1]] /\ own[u[Len(u)]] # "HW"
    BY <1>2 DEF QueueRep
  <2>2. k[r + 1] \in 1 .. Len(u) /\ Len(u) \in Nat
    BY <2>1, ShapeFacts
  <2>3. k[r + 1] # Len(u)
    BY <2>1
  <2>4. k[r + 1] \in 1 .. Len(u) - 1
    BY <2>2, <2>3
  <2>5. QED
    BY <1>2, <2>1, <2>4 DEF QueueRep
<1>3. q = FillQ => QueueRep(q, x, b, s)
  BY <1>1 DEF Rep, FillRep
<1>4. q = DrainQ => QueueRep(q, z, c, t)
  BY <1>1 DEF Rep, DrainRep
<1>5. QED
  BY <1>2, <1>3, <1>4 DEF Queues

LEMMA BlocksKept == DmaInv => NoBlockLost
<1> SUFFICES ASSUME DmaInv, NEW p \in Payloads
             PROVE  Cardinality(Carried(p)) + (IF InHand(p) THEN 1 ELSE 0) = 1
  BY DEF NoBlockLost, InHand
<1>1. /\ \A d, e \in Descs : dataAddr[d] = p /\ dataAddr[e] = p => d = e
      /\ InHand(p) <=> \A d \in Descs : dataAddr[d] # p
  BY DEF DmaInv, Carriers
<1>2. CASE InHand(p)
  <2>1. Carried(p) = {}
    BY <1>1, <1>2 DEF Carried
  <2>2. Cardinality(Carried(p)) = 0
    BY <2>1, FS_EmptySet
  <2>3. QED
    BY <1>2, <2>2
<1>3. CASE ~InHand(p)
  <2>1. PICK d \in Descs : dataAddr[d] = p
    BY <1>1, <1>3
  <2>2. Carried(p) = {d}
    BY <1>1, <2>1 DEF Carried
  <2>3. Cardinality(Carried(p)) = 1
    BY <2>2, FS_Singleton
  <2>4. QED
    BY <1>3, <2>3
<1>4. QED
  BY <1>2, <1>3

LEMMA ReservedApart == DmaInv => ReservedNotFilled
<1> SUFFICES ASSUME DmaInv, ~queue_empty(FillQ),
                    NEW d \in InChain(head[FillQ], terminator[FillQ]) \ {terminator[FillQ]}
             PROVE  dataAddr[d] # Reserved
  BY DEF ReservedNotFilled
<1>1. PICK x, b, s, z, c, t, y : Rep(x, b, s, z, c, t, y)
  BY DEF DmaInv
<1>2. /\ FillRep(x, b, s) /\ QueueRep(FillQ, x, b, s) /\ Shape(x, b, s) /\ Links(x)
      /\ head[FillQ] = x[1] /\ terminator[FillQ] = x[Len(x)]
      /\ x \in Seq(Descs) /\ Distinct(x)
  BY <1>1 DEF Rep, FillRep, QueueRep, Shape
<1>3. Len(x) \in Nat \ {0} /\ 1 \in 1 .. Len(x) /\ Len(x) \in 1 .. Len(x)
  BY <1>2, ShapeFacts
<1>4. InChain(x[1], x[Len(x)]) = {x[k] : k \in 1 .. Len(x)}
  BY <1>2, <1>3, ChainAlong
<1>5. PICK k \in 1 .. Len(x) : d = x[k] /\ k # Len(x)
  BY <1>2, <1>4
<1>6. k \in 1 .. Len(x) - 1
  BY <1>3, <1>5
<1>7. QED
  BY <1>2, <1>5, <1>6 DEF FillRep
-----------------------------------------------------------------------------
(* What the circuit of packets is, on the lists.                           *)
PacketsOf(x, b, k, l) == [m \in 1 .. l - k |-> Payload(x, b[k + m - 1], b[k + m])]
HeldOf(y) ==
  CASE pc = "put" -> Payload(y, 1, Len(y) + 1)
    [] pc \in {"status", "copy"} -> <<tdesc.dataAddr>> \o Payload(y, 1, Len(y))
    [] pc = "publish" -> <<dataAddr[terminator[dest]]>> \o Payload(y, 1, Len(y))
    [] OTHER -> <<>>

FreeNow == DataFrom(cur[FillQ], Distance(cur[FillQ], terminator[FillQ]))
FilledNow == Packets(head[FillQ], cur[FillQ])
SendingNow == Packets(cur[DrainQ], terminator[DrainQ])
SentNow == Packets(head[DrainQ], cur[DrainQ])

LEMMA FillValues ==
  ASSUME NEW x, NEW b, NEW s, FillRep(x, b, s)
  PROVE  FreeNow = Payload(x, b[s + 1], Len(x)) /\ FilledNow = PacketsOf(x, b, 1, s + 1)
<1>0. /\ QueueRep(FillQ, x, b, s) /\ Shape(x, b, s) /\ Links(x) /\ Distinct(x) /\ x \in Seq(Descs)
      /\ head[FillQ] = x[1] /\ cur[FillQ] = x[b[s + 1]] /\ terminator[FillQ] = x[Len(x)]
  BY DEF FillRep, QueueRep, Shape
<1>1. /\ Len(x) \in Nat \ {0} /\ Len(b) \in Nat \ {0} /\ s + 1 \in 1 .. Len(b) /\ b[1] = 1
      /\ b[s + 1] \in 1 .. Len(x)
  BY <1>0, ShapeFacts
<1>2. FreeNow = Payload(x, b[s + 1], Len(x))
  <2> DEFINE p == b[s + 1]
             n == Len(x)
  <2>1. p \in 1 .. Len(x) /\ n \in p .. Len(x) /\ n \in p .. Len(x) + 1
    BY <1>1
  <2>2. cur[FillQ] = x[p] /\ terminator[FillQ] = x[n]
    BY <1>0
  <2> HIDE DEF p, n
  <2>3. Distance(x[p], x[n]) = n - p
    BY <1>0, <2>1, ChainAlong
  <2>4. DataFrom(x[p], n - p) = Payload(x, p, n)
    BY <1>0, <2>1, DataAlong
  <2>5. FreeNow = Payload(x, p, n)
    BY <2>2, <2>3, <2>4 DEF FreeNow
  <2>6. QED
    BY <2>5 DEF p, n
<1>3. FilledNow = PacketsOf(x, b, 1, s + 1)
  <2> DEFINE l == s + 1
  <2>1. 1 \in 1 .. Len(b) /\ l \in 1 .. Len(b) /\ x[b[1]] = head[FillQ] /\ x[b[l]] = cur[FillQ]
    BY <1>0, <1>1
  <2> HIDE DEF l
  <2>2. Packets(x[b[1]], x[b[l]]) = [m \in 1 .. l - 1 |-> Payload(x, b[1 + m - 1], b[1 + m])]
    BY <1>0, <2>1, PacketsAlong
  <2>3. QED
    BY <2>1, <2>2 DEF FilledNow, PacketsOf, l
<1>4. QED
  BY <1>2, <1>3

LEMMA DrainValues ==
  ASSUME NEW z, NEW c, NEW t, DrainRep(z, c, t)
  PROVE  /\ SendingNow = PacketsOf(z, c, t + 1, Len(c))
         /\ SentNow = PacketsOf(z, c, 1, t + 1)
<1>0. /\ QueueRep(DrainQ, z, c, t) /\ Shape(z, c, t) /\ c[Len(c)] = Len(z)
      /\ head[DrainQ] = z[1] /\ cur[DrainQ] = z[c[t + 1]] /\ terminator[DrainQ] = z[Len(z)]
  BY DEF DrainRep, QueueRep
<1>1. Len(c) \in Nat \ {0} /\ t + 1 \in 1 .. Len(c) /\ c[1] = 1 /\ t \in Nat
  BY <1>0, ShapeFacts
<1> DEFINE l == t + 1
           n == Len(c)
<1>2. /\ 1 \in 1 .. Len(c) /\ l \in 1 .. Len(c) /\ n \in l .. Len(c)
      /\ z[c[1]] = head[DrainQ] /\ z[c[l]] = cur[DrainQ] /\ z[c[n]] = terminator[DrainQ]
  BY <1>0, <1>1
<1> HIDE DEF l, n
<1>3. Packets(z[c[1]], z[c[l]]) = [m \in 1 .. l - 1 |-> Payload(z, c[1 + m - 1], c[1 + m])]
  BY <1>0, <1>2, PacketsAlong
<1>4. Packets(z[c[l]], z[c[n]]) = [m \in 1 .. n - l |-> Payload(z, c[l + m - 1], c[l + m])]
  BY <1>0, <1>2, PacketsAlong
<1>5. QED
  BY <1>2, <1>3, <1>4 DEF SendingNow, SentNow, PacketsOf, l, n
-----------------------------------------------------------------------------
(* The payloads of a list, as sequences.                                   *)
Words == Payloads \cup {NULL}

LEMMA PayloadSeq ==
  ASSUME TypeOK, NEW x \in Seq(Descs), NEW i \in 1 .. Len(x) + 1, NEW j \in i .. Len(x) + 1
  PROVE  /\ Payload(x, i, j) \in Seq(Words) /\ Len(Payload(x, i, j)) = j - i /\ j - i \in Nat
         /\ \A m \in 1 .. j - i : Payload(x, i, j)[m] = dataAddr[x[i + m - 1]]
<1>0. Len(x) \in Nat /\ \A m \in 1 .. Len(x) : x[m] \in Descs
  BY LenProperties
<1>1. j - i \in Nat
  BY <1>0
<1> DEFINE n == j - i
<1>2. ASSUME NEW m \in 1 .. n PROVE dataAddr[x[i + m - 1]] \in Words
  <2>1. i + m - 1 \in 1 .. Len(x)
    BY <1>0
  <2>2. x[i + m - 1] \in Descs
    BY <1>0, <2>1
  <2>3. QED
    BY <2>2 DEF TypeOK, Words
<1> DEFINE f == [m \in 1 .. n |-> dataAddr[x[i + m - 1]]]
<1>3. f = Payload(x, i, j)
  BY DEF Payload
<1>4. f \in [1 .. n -> Words]
  BY <1>2
<1>5. \A m \in 1 .. n : f[m] = dataAddr[x[i + m - 1]]
  OBVIOUS
<1> HIDE DEF f
<1>6. f \in Seq(Words) /\ Len(f) = n
  BY <1>1, <1>4
<1>7. QED
  BY <1>1, <1>3, <1>5, <1>6

LEMMA PacketsSeq ==
  ASSUME TypeOK, NEW x, NEW b, NEW s, Shape(x, b, s),
         NEW k \in 1 .. Len(b), NEW l \in k .. Len(b)
  PROVE  /\ PacketsOf(x, b, k, l) \in Seq(Seq(Words)) /\ Len(PacketsOf(x, b, k, l)) = l - k
         /\ l - k \in Nat
         /\ \A m \in 1 .. l - k : PacketsOf(x, b, k, l)[m] = Payload(x, b[k + m - 1], b[k + m])
<1>0. /\ x \in Seq(Descs) /\ Len(x) \in Nat /\ Len(b) \in Nat
      /\ \A v \in 1 .. Len(b) : b[v] \in 1 .. Len(x)
      /\ \A v \in 1 .. Len(b) - 1 : b[v] < b[v + 1]
  BY ShapeFacts
<1> DEFINE n == l - k
           f == [m \in 1 .. n |-> Payload(x, b[k + m - 1], b[k + m])]
<1>1. n \in Nat
  BY <1>0
<1>2. ASSUME NEW m \in 1 .. n PROVE Payload(x, b[k + m - 1], b[k + m]) \in Seq(Words)
  <2> DEFINE o == k + m - 1
  <2>1. o \in 1 .. Len(b) - 1 /\ o \in 1 .. Len(b) /\ o + 1 \in 1 .. Len(b) /\ o + 1 = k + m
    BY <1>0
  <2> HIDE DEF o
  <2>2. b[o] \in 1 .. Len(x) /\ b[o + 1] \in 1 .. Len(x) /\ b[o] < b[o + 1]
    BY <1>0, <2>1
  <2>3. b[o] \in 1 .. Len(x) + 1 /\ b[o + 1] \in b[o] .. Len(x) + 1
    BY <1>0, <2>2
  <2>4. Payload(x, b[o], b[o + 1]) \in Seq(Words)
    BY <1>0, <2>3, PayloadSeq
  <2>5. QED
    BY <2>1, <2>4 DEF o
<1>3. f = PacketsOf(x, b, k, l)
  BY DEF PacketsOf
<1>4. f \in [1 .. n -> Seq(Words)]
  BY <1>2
<1>5. \A m \in 1 .. n : f[m] = Payload(x, b[k + m - 1], b[k + m])
  OBVIOUS
<1> HIDE DEF f
<1>6. f \in Seq(Seq(Words)) /\ Len(f) = n
  <2> DEFINE S == Seq(Words)
  <2>1. f \in [1 .. n -> S]
    BY <1>4
  <2> HIDE DEF S, n
  <2>2. f \in Seq(S) /\ Len(f) = n
    BY <1>1, <2>1
  <2>3. QED
    BY <2>2 DEF S
<1>7. QED
  BY <1>1, <1>3, <1>5, <1>6

(* The first packet of some, and the others.                               *)
LEMMA FirstPacket ==
  ASSUME TypeOK, NEW x, NEW b, NEW s, Shape(x, b, s),
         NEW k \in 1 .. Len(b), NEW l \in k + 1 .. Len(b)
  PROVE  /\ PacketsOf(x, b, k, l) # <<>>
         /\ Head(PacketsOf(x, b, k, l)) = Payload(x, b[k], b[k + 1])
         /\ Tail(PacketsOf(x, b, k, l)) = PacketsOf(x, b, k + 1, l)
<1> DEFINE p == PacketsOf(x, b, k, l)
           r == PacketsOf(x, b, k + 1, l)
           S == Seq(Words)
<1>0. Len(b) \in Nat
  BY ShapeFacts
<1>1. k + 1 \in 1 .. Len(b) /\ l \in k .. Len(b) /\ l - k \in Nat \ {0} /\ l - (k + 1) = (l - k) - 1
  BY <1>0
<1>2. /\ p \in Seq(S) /\ Len(p) = l - k
      /\ \A m \in 1 .. l - k : p[m] = Payload(x, b[k + m - 1], b[k + m])
  BY <1>1, PacketsSeq
<1>3. /\ r \in Seq(S) /\ Len(r) = l - (k + 1)
      /\ \A m \in 1 .. l - (k + 1) : r[m] = Payload(x, b[(k + 1) + m - 1], b[(k + 1) + m])
  BY <1>1, PacketsSeq
<1> HIDE DEF p, r, S
<1>4. p # <<>>
  BY <1>1, <1>2
<1>5. /\ Head(p) = p[1] /\ Tail(p) \in Seq(S) /\ Len(Tail(p)) = Len(p) - 1
      /\ \A n \in 1 .. Len(Tail(p)) : Tail(p)[n] = p[n + 1]
  BY <1>2, <1>4, Popped
<1>6. Head(p) = Payload(x, b[k], b[k + 1])
  <2>1. 1 \in 1 .. l - k /\ k + 1 - 1 = k
    BY <1>1
  <2>2. QED
    BY <1>2, <1>5, <2>1
<1>7. Len(Tail(p)) = Len(r)
  BY <1>1, <1>2, <1>3, <1>5
<1>8. ASSUME NEW m \in 1 .. Len(r) PROVE Tail(p)[m] = r[m]
  <2>1. m \in 1 .. l - (k + 1) /\ m + 1 \in 1 .. l - k
    BY <1>1, <1>3
  <2>2. k + (m + 1) - 1 = (k + 1) + m - 1 /\ k + (m + 1) = (k + 1) + m
    BY <1>0, <2>1
  <2>3. Tail(p)[m] = Payload(x, b[k + (m + 1) - 1], b[k + (m + 1)])
    BY <1>2, <1>5, <1>7, <2>1
  <2>4. r[m] = Payload(x, b[(k + 1) + m - 1], b[(k + 1) + m])
    BY <1>3, <2>1
  <2>5. QED
    BY <2>2, <2>3, <2>4
<1>9. Tail(p) = r
  BY <1>3, <1>5, <1>7, <1>8, SeqEqual
<1>10. QED
  BY <1>4, <1>6, <1>9 DEF p, r

(* Some packets and the next.                                              *)
LEMMA NextPacket ==
  ASSUME TypeOK, NEW x, NEW b, NEW s, Shape(x, b, s),
         NEW k \in 1 .. Len(b), NEW l \in k .. Len(b) - 1
  PROVE  PacketsOf(x, b, k, l + 1) = Append(PacketsOf(x, b, k, l), Payload(x, b[l], b[l + 1]))
<1> DEFINE p == PacketsOf(x, b, k, l)
           r == PacketsOf(x, b, k, l + 1)
           S == Seq(Words)
           w == Payload(x, b[l], b[l + 1])
<1>0. Len(b) \in Nat
  BY ShapeFacts
<1>1. l \in k .. Len(b) /\ l + 1 \in k .. Len(b) /\ l - k \in Nat /\ (l + 1) - k = (l - k) + 1
  BY <1>0
<1>2. /\ p \in Seq(S) /\ Len(p) = l - k
      /\ \A m \in 1 .. l - k : p[m] = Payload(x, b[k + m - 1], b[k + m])
  BY <1>1, PacketsSeq
<1>3. /\ r \in Seq(S) /\ Len(r) = (l + 1) - k
      /\ \A m \in 1 .. (l + 1) - k : r[m] = Payload(x, b[k + m - 1], b[k + m])
  BY <1>1, PacketsSeq
<1> DEFINE n == l - k + 1
<1>4. r[n] = w /\ n \in 1 .. Len(r) /\ n = Len(p) + 1 /\ Len(r) = n
  <2>1. n \in 1 .. (l + 1) - k /\ k + n - 1 = l /\ k + n = l + 1 /\ n = (l - k) + 1
    BY <1>0, <1>1
  <2> HIDE DEF n
  <2>2. QED
    BY <1>1, <1>2, <1>3, <2>1
<1> HIDE DEF p, r, S, w, n
<1>5. w \in S
  BY <1>3, <1>4
<1>6. /\ Append(p, w) \in Seq(S) /\ Len(Append(p, w)) = Len(p) + 1
      /\ \A m \in 1 .. Len(p) : Append(p, w)[m] = p[m]
      /\ Append(p, w)[Len(p) + 1] = w
  BY <1>2, <1>5, Pushed
<1>7. ASSUME NEW m \in 1 .. Len(r) PROVE Append(p, w)[m] = r[m]
  <2>1. CASE m = n
    BY <1>4, <1>6, <2>1
  <2>2. CASE m # n
    <3>1. m \in 1 .. l - k /\ m \in 1 .. (l + 1) - k
      BY <1>0, <1>2, <1>4, <2>2
    <3>2. QED
      BY <1>2, <1>3, <1>6, <3>1
  <2>3. QED
    BY <2>1, <2>2
<1>8. r = Append(p, w)
  BY <1>3, <1>4, <1>6, <1>7, SeqEqual
<1>9. QED
  BY <1>8 DEF p, r, w

(* A frame is the front of what is free.                                   *)
LEMMA FrontPayload ==
  ASSUME TypeOK, NEW x \in Seq(Descs), NEW i \in 1 .. Len(x), NEW j \in i .. Len(x),
         NEW n \in 1 .. j - i
  PROVE  /\ SubSeq(Payload(x, i, j), 1, n) = Payload(x, i, i + n)
         /\ SubSeq(Payload(x, i, j), n + 1, Len(Payload(x, i, j))) = Payload(x, i + n, j)
         /\ n <= Len(Payload(x, i, j))
<1> DEFINE p == Payload(x, i, j)
           q == Payload(x, i, i + n)
           r == Payload(x, i + n, j)
           h == i + n
           l == j - i
<1>0. Len(x) \in Nat
  BY LenProperties
<1>1. /\ i \in 1 .. Len(x) + 1 /\ j \in i .. Len(x) + 1 /\ h \in 1 .. Len(x) + 1 /\ h \in i .. Len(x) + 1
      /\ j \in h .. Len(x) + 1 /\ h - i = n /\ l \in Nat /\ n \in 1 .. l /\ n \in Nat /\ j - h = l - n
  BY <1>0
<1>2. p \in Seq(Words) /\ Len(p) = l /\ \A m \in 1 .. l : p[m] = dataAddr[x[i + m - 1]]
  BY <1>1, PayloadSeq
<1>3. q \in Seq(Words) /\ Len(q) = n /\ \A m \in 1 .. n : q[m] = dataAddr[x[i + m - 1]]
  <2>1. Payload(x, i, h) \in Seq(Words) /\ Len(Payload(x, i, h)) = h - i
        /\ \A m \in 1 .. h - i : Payload(x, i, h)[m] = dataAddr[x[i + m - 1]]
    BY <1>1, PayloadSeq
  <2>2. QED
    BY <1>1, <2>1
<1>4. r \in Seq(Words) /\ Len(r) = l - n /\ \A m \in 1 .. l - n : r[m] = dataAddr[x[h + m - 1]]
  <2>1. Payload(x, h, j) \in Seq(Words) /\ Len(Payload(x, h, j)) = j - h
        /\ \A m \in 1 .. j - h : Payload(x, h, j)[m] = dataAddr[x[h + m - 1]]
    BY <1>1, PayloadSeq
  <2>2. QED
    BY <1>1, <2>1
<1>5. \A m \in 1 .. l - n : p[m + n] = r[m]
  <2> SUFFICES ASSUME NEW m \in 1 .. l - n PROVE p[m + n] = r[m]
    OBVIOUS
  <2>1. m + n \in 1 .. l /\ i + (m + n) - 1 = h + m - 1
    BY <1>0, <1>1
  <2> HIDE DEF p, r, h, l
  <2>2. p[m + n] = dataAddr[x[i + (m + n) - 1]]
    BY <1>2, <2>1
  <2>3. QED
    BY <1>4, <2>1, <2>2
<1> HIDE DEF p, q, r, l, h
<1>6. \A m \in 1 .. l : p[m] \in Words
  BY <1>2
<1>7. SubSeq(p, 1, n) = q
  <2> DEFINE u == SubSeq(p, 1, n)
  <2>1. \A m \in 1 .. n : p[m] \in Words
    BY <1>1, <1>6
  <2>2. /\ u \in Seq(Words) /\ Len(u) = IF 1 <= n THEN n - 1 + 1 ELSE 0
        /\ \A m \in 1 .. n - 1 + 1 : u[m] = p[1 + m - 1]
    BY <1>1, <2>1, SubSeqProperties
  <2> HIDE DEF u
  <2>3. Len(u) = n
    BY <1>1, <2>2
  <2>4. ASSUME NEW m \in 1 .. n PROVE u[m] = q[m]
    <3>1. m \in 1 .. n - 1 + 1 /\ 1 + m - 1 = m /\ m \in 1 .. l
      BY <1>1
    <3>2. u[m] = p[m]
      BY <2>2, <3>1
    <3>3. QED
      BY <1>2, <1>3, <3>1, <3>2
  <2>5. u = q
    BY <1>3, <2>2, <2>3, <2>4, SeqEqual
  <2>6. QED
    BY <2>5 DEF u
<1>8. SubSeq(p, n + 1, l) = r
  <2> DEFINE u == SubSeq(p, n + 1, l)
             o == n + 1
  <2>1. o \in Int /\ l \in Int /\ \A m \in o .. l : p[m] \in Words
    BY <1>1, <1>6
  <2>2. /\ SubSeq(p, o, l) \in Seq(Words) /\ Len(SubSeq(p, o, l)) = IF o <= l THEN l - o + 1 ELSE 0
        /\ \A m \in 1 .. l - o + 1 : SubSeq(p, o, l)[m] = p[o + m - 1]
    <3> HIDE DEF o
    <3>1. QED
      BY <2>1, SubSeqProperties
  <2>3. u \in Seq(Words) /\ Len(u) = l - n
    <3>1. l - n = IF o <= l THEN l - o + 1 ELSE 0
      BY <1>1
    <3>2. QED
      BY <2>2, <3>1
  <2>4. ASSUME NEW m \in 1 .. l - n PROVE u[m] = r[m]
    <3>1. m \in 1 .. l - o + 1 /\ o + m - 1 = m + n
      BY <1>1
    <3>2. SubSeq(p, o, l)[m] = p[o + m - 1]
      BY <2>2, <3>1
    <3>3. u[m] = p[m + n]
      BY <3>1, <3>2
    <3>4. QED
      BY <1>5, <3>3
  <2> HIDE DEF u
  <2>5. u = r
    BY <1>4, <2>3, <2>4, SeqEqual
  <2>6. QED
    BY <2>5 DEF u
<1>9. Len(p) = l /\ n <= l
  BY <1>1, <1>2
<1>10. SubSeq(p, 1, n) = q /\ SubSeq(p, n + 1, Len(p)) = r /\ n <= Len(p)
  BY <1>7, <1>8, <1>9
<1>11. QED
  BY <1>10 DEF p, q, r

(* A packet is linked behind a list: its first payload is in the old       *)
(* terminator.                                                             *)
LEMMA JoinedPayload ==
  ASSUME TypeOK, NEW x \in Seq(Descs), NEW y \in Seq(Descs), x # <<>>, y # <<>>,
         Distinct(x), Distinct(y), On(x) \cap On(y) = {}, NEW i \in 1 .. Len(x)
  PROVE  LET w == <<dataAddr[x[Len(x)]]>> \o Payload(y, 1, Len(y))
         IN  /\ Payload(x \o y, i, Len(x) + Len(y)) = Payload(x, i, Len(x)) \o w
             /\ w \in Seq(Words) /\ Len(w) = Len(y)
<1> DEFINE n == Len(x)
           l == Len(y)
           u == x \o y
           v == Payload(y, 1, l)
           a == <<dataAddr[x[n]]>>
           w == a \o v
           p == Payload(x, i, n)
           r == Payload(u, i, n + l)
<1>1. /\ u \in Seq(Descs) /\ n \in Nat \ {0} /\ l \in Nat \ {0} /\ Len(u) = n + l
      /\ \A m \in 1 .. n : u[m] = x[m]
      /\ \A m \in n + 1 .. n + l : u[m] = y[m - n]
  BY JoinedList
<1>2. v \in Seq(Words) /\ Len(v) = l - 1 /\ \A m \in 1 .. l - 1 : v[m] = dataAddr[y[1 + m - 1]]
  <2>1. 1 \in 1 .. Len(y) + 1 /\ l \in 1 .. Len(y) + 1
    BY <1>1
  <2>2. QED
    BY <2>1, PayloadSeq
<1>3. a \in Seq(Words) /\ Len(a) = 1 /\ a[1] = dataAddr[x[n]]
  <2>1. x[n] \in Descs
    BY <1>1
  <2>2. dataAddr[x[n]] \in Words
    BY <2>1 DEF TypeOK, Words
  <2>3. QED
    BY <2>2
<1>4. /\ p \in Seq(Words) /\ Len(p) = n - i /\ \A m \in 1 .. n - i : p[m] = dataAddr[x[i + m - 1]]
  <2>1. i \in 1 .. Len(x) + 1 /\ n \in i .. Len(x) + 1
    BY <1>1
  <2>2. QED
    BY <2>1, PayloadSeq
<1>5. /\ r \in Seq(Words) /\ Len(r) = (n + l) - i
      /\ \A m \in 1 .. (n + l) - i : r[m] = dataAddr[u[i + m - 1]]
  <2>1. i \in 1 .. Len(u) + 1 /\ n + l \in i .. Len(u) + 1
    BY <1>1
  <2> HIDE DEF u, n, l
  <2>2. QED
    <3>1. u \in Seq(Descs)
      BY <1>1
    <3> DEFINE g == n + l
    <3>2. g \in i .. Len(u) + 1
      BY <2>1
    <3> HIDE DEF g
    <3>3. /\ Payload(u, i, g) \in Seq(Words) /\ Len(Payload(u, i, g)) = g - i
          /\ \A m \in 1 .. g - i : Payload(u, i, g)[m] = dataAddr[u[i + m - 1]]
      BY <2>1, <3>1, <3>2, PayloadSeq
    <3>4. QED
      BY <3>3 DEF g
<1>a. n \in Nat \ {0} /\ l \in Nat \ {0} /\ i \in 1 .. n
  BY <1>1
<1> HIDE DEF n, l, u, v, a, p, r
<1>6. /\ w \in Seq(Words) /\ Len(w) = 1 + (l - 1)
      /\ w[1] = a[1] /\ \A m \in 2 .. l : w[m] = v[m - 1]
  <2>1. /\ w \in Seq(Words) /\ Len(w) = Len(a) + Len(v)
        /\ \A m \in 1 .. Len(a) : w[m] = a[m]
        /\ \A m \in Len(a) + 1 .. Len(a) + Len(v) : w[m] = v[m - Len(a)]
    <3>1. a \in Seq(Words) /\ v \in Seq(Words)
      BY <1>2, <1>3
    <3>2. QED
      BY <3>1, Joined
  <2>2. 1 \in 1 .. Len(a) /\ \A m \in 2 .. l : m \in Len(a) + 1 .. Len(a) + Len(v) /\ m - Len(a) = m - 1
    BY <1>a, <1>2, <1>3
  <2> HIDE DEF w
  <2>3. w[1] = a[1] /\ \A m \in 2 .. l : w[m] = v[m - 1]
    BY <2>1, <2>2
  <2>4. QED
    BY <1>2, <1>3, <2>1, <2>3
<1>7. Len(w) = l
  BY <1>a, <1>6
<1> DEFINE e == p \o w
<1> HIDE DEF w
<1>8. /\ e \in Seq(Words) /\ Len(e) = Len(p) + Len(w)
      /\ \A m \in 1 .. Len(p) : e[m] = p[m]
      /\ \A m \in Len(p) + 1 .. Len(p) + Len(w) : e[m] = w[m - Len(p)]
  <2>1. p \in Seq(Words) /\ w \in Seq(Words)
    BY <1>4, <1>6
  <2>2. QED
    BY <2>1, Joined
<1>9. Len(e) = Len(r)
  BY <1>a, <1>4, <1>5, <1>7, <1>8
<1> HIDE DEF e
<1>10. ASSUME NEW m \in 1 .. Len(r) PROVE e[m] = r[m]
  <2>0. m \in 1 .. (n + l) - i /\ r[m] = dataAddr[u[i + m - 1]]
    BY <1>5
  <2>1. CASE m < (n - i) + 1
    <3>1. m \in 1 .. Len(p) /\ m \in 1 .. n - i /\ i + m - 1 \in 1 .. n
      BY <1>a, <1>4, <2>0, <2>1
    <3>2. e[m] = dataAddr[x[i + m - 1]]
      BY <1>4, <1>8, <3>1
    <3>3. u[i + m - 1] = x[i + m - 1]
      BY <1>1, <3>1 DEF n
    <3>4. QED
      BY <2>0, <3>2, <3>3
  <2>2. CASE m = (n - i) + 1
    <3>1. m \in Len(p) + 1 .. Len(p) + Len(w) /\ m - Len(p) = 1 /\ i + m - 1 = n /\ n \in 1 .. n
      BY <1>a, <1>4, <1>7, <2>0, <2>2
    <3>2. e[m] = w[1]
      BY <1>8, <3>1
    <3>3. e[m] = dataAddr[x[n]]
      BY <1>3, <1>6, <3>2
    <3>4. u[n] = x[n]
      BY <1>1, <3>1
    <3>5. QED
      BY <2>0, <3>1, <3>3, <3>4
  <2>3. CASE m > (n - i) + 1
    <3> DEFINE o == m - (n - i)
               g == i + m - 1
    <3>1. /\ m \in Len(p) + 1 .. Len(p) + Len(w) /\ m - Len(p) = o /\ o \in 2 .. l
          /\ g \in n + 1 .. n + l /\ o - 1 \in 1 .. l - 1 /\ 1 + (o - 1) - 1 = g - n
      BY <1>a, <1>4, <1>7, <2>0, <2>3
    <3>2. u[g] = y[g - n]
      BY <1>1, <3>1
    <3> HIDE DEF o
    <3>3. e[m] = w[o]
      BY <1>8, <3>1
    <3>4. e[m] = v[o - 1]
      BY <1>6, <3>1, <3>3
    <3>5. v[o - 1] = dataAddr[y[g - n]]
      <4>1. v[o - 1] = dataAddr[y[1 + (o - 1) - 1]]
        BY <1>2, <3>1
      <4> HIDE DEF g
      <4>2. QED
        BY <3>1, <4>1
    <3>6. QED
      BY <2>0, <3>2, <3>4, <3>5
  <2>4. QED
    BY <1>a, <2>0, <2>1, <2>2, <2>3
<1>11. e = r
  BY <1>5, <1>8, <1>9, <1>10, SeqEqual
<1>12. QED
  BY <1>6, <1>7, <1>11 DEF e, n, l, u, v, a, w, p, r

(* Places that hold the same payloads: a packet is taken from the front.   *)
LEMMA CutPayload ==
  ASSUME NEW x \in Seq(Descs), NEW c \in 1 .. Len(x),
         NEW i \in c .. Len(x), NEW j \in i .. Len(x)
  PROVE  Payload(Cut(x, c), i - c + 1, j - c + 1) = Payload(x, i, j)
<1> DEFINE k == i - c + 1
           l == j - c + 1
           u == Cut(x, c)
<1>0. Len(x) \in Nat
  BY LenProperties
<1>1. i \in Nat /\ j \in Nat /\ k \in Nat /\ l \in Nat /\ j - i = l - k
  BY <1>0
<1>2. ASSUME NEW m \in 1 .. j - i PROVE u[k + m - 1] = x[i + m - 1]
  <2> DEFINE h == k + m - 1
  <2>1. h \in 1 .. Len(x) - c + 1 /\ h + c - 1 = i + m - 1
    BY <1>0
  <2> HIDE DEF h
  <2>2. u[h] = x[h + c - 1]
    BY <2>1 DEF Cut
  <2>3. QED
    BY <2>1, <2>2 DEF h
<1> HIDE DEF k, l, u
<1>3. Payload(u, k, l) = Payload(x, i, j)
  BY <1>1, <1>2 DEF Payload
<1>4. QED
  BY <1>3 DEF k, l, u

LEMMA CutPackets ==
  ASSUME NEW x, NEW b, NEW s, Shape(x, b, s), s # 0,
         NEW k \in 1 .. Len(b) - 1, NEW l \in k .. Len(b) - 1
  PROVE  PacketsOf(Cut(x, b[2]), CutPlaces(b), k, l) = PacketsOf(x, b, k + 1, l + 1)
<1> DEFINE u == Cut(x, b[2])
           c == CutPlaces(b)
<1>1. /\ Len(b) \in Nat /\ 2 <= Len(b) /\ b[2] \in 2 .. Len(x)
      /\ \A o \in 2 .. Len(b) : b[o] \in b[2] .. Len(x)
  BY SecondPlace
<1>2. /\ x \in Seq(Descs) /\ Len(x) \in Nat
      /\ \A o \in 1 .. Len(b) - 1 : b[o] < b[o + 1]
  BY ShapeFacts
<1>3. \A o \in 1 .. Len(b) - 1 : c[o] = b[o + 1] - b[2] + 1
  BY CutShape
<1> HIDE DEF u, c
<1>4. k \in Nat /\ l \in Nat /\ k + 1 \in Nat /\ l + 1 \in Nat /\ l - k = (l + 1) - (k + 1)
  BY <1>1
<1>5. ASSUME NEW m \in 1 .. l - k
      PROVE  Payload(u, c[k + m - 1], c[k + m]) = Payload(x, b[(k + 1) + m - 1], b[(k + 1) + m])
  <2> DEFINE o == k + m
  <2>1. /\ o - 1 \in 1 .. Len(b) - 1 /\ o \in 1 .. Len(b) - 1 /\ (o - 1) + 1 = o
        /\ o \in 2 .. Len(b) /\ o + 1 \in 2 .. Len(b)
        /\ k + m - 1 = o - 1 /\ (k + 1) + m - 1 = o /\ (k + 1) + m = o + 1
    BY <1>1
  <2> HIDE DEF o
  <2>2. c[o - 1] = b[o] - b[2] + 1 /\ c[o] = b[o + 1] - b[2] + 1
    BY <1>3, <2>1
  <2> DEFINE i == b[o]
             j == b[o + 1]
             h == b[2]
  <2>3. i \in h .. Len(x) /\ j \in h .. Len(x) /\ i < j /\ h \in 2 .. Len(x)
    BY <1>1, <1>2, <2>1
  <2> HIDE DEF i, j, h
  <2>4. h \in 1 .. Len(x) /\ j \in i .. Len(x)
    BY <1>2, <2>3
  <2>5. Payload(Cut(x, h), i - h + 1, j - h + 1) = Payload(x, i, j)
    BY <1>2, <2>3, <2>4, CutPayload
  <2>6. Payload(u, c[o - 1], c[o]) = Payload(x, b[o], b[o + 1])
    BY <2>2, <2>5 DEF u, i, j, h
  <2>7. QED
    BY <2>1, <2>6 DEF o
<1>6. PacketsOf(u, c, k, l) = PacketsOf(x, b, k + 1, l + 1)
  BY <1>4, <1>5 DEF PacketsOf
<1>7. QED
  BY <1>6 DEF u, c

LEMMA PartPayload ==
  ASSUME NEW x, NEW n \in Nat
  PROVE  Payload(Part(x, n), 1, n + 1) = Payload(x, 1, n + 1)
<1> DEFINE u == Part(x, n)
           o == n + 1
<1>1. 1 \in Nat /\ o \in Nat /\ o - 1 = o - 1
  OBVIOUS
<1>2. ASSUME NEW m \in 1 .. o - 1 PROVE u[1 + m - 1] = x[1 + m - 1]
  <2>1. m \in 1 .. n /\ 1 + m - 1 = m
    OBVIOUS
  <2>2. u[m] = x[m]
    BY <2>1 DEF Part
  <2> HIDE DEF u
  <2>3. QED
    BY <2>1, <2>2
<1> HIDE DEF u, o
<1>3. Payload(u, 1, o) = Payload(x, 1, o)
  BY <1>1, <1>2 DEF Payload
<1>4. QED
  BY <1>3 DEF u, o

(* The packets in front of what is linked behind them.                     *)
LEMMA FrontPackets ==
  ASSUME NEW x, NEW b, NEW s, Shape(x, b, s), NEW u, NEW c,
         \A i \in 1 .. Len(x) : u[i] = x[i],
         \A m \in 1 .. Len(b) : c[m] = b[m],
         NEW k \in 1 .. Len(b), NEW l \in k .. Len(b)
  PROVE  PacketsOf(u, c, k, l) = PacketsOf(x, b, k, l)
<1>1. /\ Len(x) \in Nat /\ Len(b) \in Nat
      /\ \A o \in 1 .. Len(b) : b[o] \in 1 .. Len(x)
      /\ \A o \in 1 .. Len(b) - 1 : b[o] < b[o + 1]
  BY ShapeFacts
<1>2. k \in Nat /\ l \in Nat /\ l - k = l - k
  BY <1>1
<1>3. ASSUME NEW m \in 1 .. l - k
      PROVE  Payload(u, c[k + m - 1], c[k + m]) = Payload(x, b[k + m - 1], b[k + m])
  <2> DEFINE o == k + m - 1
  <2>1. o \in 1 .. Len(b) - 1 /\ o \in 1 .. Len(b) /\ o + 1 \in 1 .. Len(b) /\ o + 1 = k + m
    BY <1>1
  <2> HIDE DEF o
  <2> DEFINE i == b[o]
             j == b[o + 1]
  <2>2. i \in 1 .. Len(x) /\ j \in 1 .. Len(x) /\ i < j /\ c[o] = i /\ c[o + 1] = j
    BY <1>1, <2>1
  <2> HIDE DEF i, j
  <2>3. i \in Nat /\ j \in Nat /\ j - i = j - i
    BY <1>1, <2>2
  <2>4. ASSUME NEW h \in 1 .. j - i PROVE u[i + h - 1] = x[i + h - 1]
    <3>1. i + h - 1 \in 1 .. Len(x)
      BY <1>1, <2>2
    <3>2. QED
      BY <3>1
  <2>5. Payload(u, i, j) = Payload(x, i, j)
    BY <2>3, <2>4 DEF Payload
  <2>6. Payload(u, c[o], c[o + 1]) = Payload(x, b[o], b[o + 1])
    BY <2>2, <2>5 DEF i, j
  <2>7. QED
    BY <2>1, <2>6 DEF o
<1>4. QED
  BY <1>2, <1>3 DEF PacketsOf

(* What a step leaves of the payloads.                                     *)
LEMMA PayloadKept ==
  ASSUME NEW x, NEW i \in Nat, NEW j \in Nat,
         \A m \in i .. j - 1 : dataAddr'[x[m]] = dataAddr[x[m]]
  PROVE  Payload(x, i, j)' = Payload(x, i, j)
<1>1. ASSUME NEW m \in 1 .. j - i PROVE dataAddr'[x[i + m - 1]] = dataAddr[x[i + m - 1]]
  <2>1. i + m - 1 \in i .. j - 1
    OBVIOUS
  <2>2. QED
    BY <2>1
<1>2. QED
  BY <1>1 DEF Payload

LEMMA PacketsKept ==
  ASSUME NEW x, NEW b, NEW s, Shape(x, b, s),
         \A m \in 1 .. Len(x) - 1 : dataAddr'[x[m]] = dataAddr[x[m]],
         NEW k \in 1 .. Len(b), NEW l \in k .. Len(b)
  PROVE  PacketsOf(x, b, k, l)' = PacketsOf(x, b, k, l)
<1>1. /\ Len(x) \in Nat /\ Len(b) \in Nat
      /\ \A o \in 1 .. Len(b) : b[o] \in 1 .. Len(x)
  BY ShapeFacts
<1>2. ASSUME NEW m \in 1 .. l - k
      PROVE  Payload(x, b[k + m - 1], b[k + m])' = Payload(x, b[k + m - 1], b[k + m])
  <2> DEFINE o == k + m - 1
  <2>1. o \in 1 .. Len(b) /\ o + 1 \in 1 .. Len(b) /\ o + 1 = k + m
    BY <1>1
  <2> HIDE DEF o
  <2>2. b[o] \in 1 .. Len(x) /\ b[o + 1] \in 1 .. Len(x)
    BY <1>1, <2>1
  <2> DEFINE e == b[o]
             f == b[o + 1]
  <2>n. e \in 1 .. Len(x) /\ f \in 1 .. Len(x) /\ Len(x) \in Nat
    BY <1>1, <2>2
  <2>3. /\ b[o] \in Nat /\ b[o + 1] \in Nat
        /\ \A h \in b[o] .. b[o + 1] - 1 : h \in 1 .. Len(x) - 1
    <3> HIDE DEF e, f
    <3>1. e \in Nat /\ f \in Nat /\ \A h \in e .. f - 1 : h \in 1 .. Len(x) - 1
      BY <2>n
    <3>2. QED
      BY <3>1 DEF e, f
  <2>4. \A h \in b[o] .. b[o + 1] - 1 : dataAddr'[x[h]] = dataAddr[x[h]]
    BY <2>3
  <2>5. Payload(x, b[o], b[o + 1])' = Payload(x, b[o], b[o + 1])
    BY <2>3, <2>4, PayloadKept
  <2>6. QED
    BY <2>1, <2>5 DEF o
<1>3. QED
  BY <1>2 DEF PacketsOf

(* The packet in the firmware's hands.                                     *)
LEMMA HeldValue ==
  ASSUME TypeOK, NEW x, NEW b, NEW s, NEW z, NEW c, NEW t, NEW y, Rep(x, b, s, z, c, t, y)
  PROVE  Held = HeldOf(y)
<1> DEFINE n == Len(y)
<1>0. /\ HeldRep(y) /\ StepRep(y) /\ y \in Seq(Descs) /\ Distinct(y)
      /\ pc \in {"idle", "put", "status", "copy", "publish", "trigger"}
      /\ n \in Nat
  BY Apart DEF Rep, TypeOK
<1>1. CASE pc \in {"idle", "trigger"}
  BY <1>1 DEF Held, HeldOf
<1>2. ASSUME pc \notin {"idle", "trigger"} PROVE n \in Nat \ {0}
  <2>1. y # <<>>
    BY <1>0, <1>2 DEF HeldRep
  <2>2. QED
    BY <1>0, <2>1, EmptySeq
<1>3. CASE pc = "put"
  <2>1. n \in Nat \ {0} /\ Links(y) /\ y[1] = desc /\ lastAddr[desc] = y[n]
    BY <1>0, <1>2, <1>3 DEF StepRep, PutRep
  <2> DEFINE j == n + 1
  <2>2. 1 \in 1 .. Len(y) /\ j \in 1 + 1 .. Len(y) + 1 /\ j - 1 = n
    BY <2>1
  <2>3. lastAddr[y[1]] = y[j - 1]
    BY <2>1, <2>2
  <2> HIDE DEF j
  <2>4. PacketAt(y[1]) = Payload(y, 1, j)
    BY <1>0, <2>1, <2>2, <2>3, PacketAlong
  <2>5. Held = Payload(y, 1, j)
    BY <1>3, <2>1, <2>4 DEF Held
  <2>6. QED
    BY <1>3, <2>5 DEF HeldOf, j
<1>4. CASE pc \in {"status", "copy"}
  <2>1. n \in Nat \ {0} /\ Links(y) /\ y[n] = desc /\ tdesc.nextAddr = y[1]
    BY <1>0, <1>2, <1>4 DEF StepRep, LinkRep
  <2>2. 1 \in 1 .. Len(y) /\ n \in 1 .. Len(y) /\ n \in 1 .. Len(y) + 1
    BY <2>1
  <2> HIDE DEF n
  <2>3. Distance(y[1], y[n]) = n - 1
    BY <1>0, <2>1, <2>2, ChainAlong
  <2>4. DataFrom(y[1], n - 1) = Payload(y, 1, n)
    BY <1>0, <2>1, <2>2, DataAlong
  <2>5. Held = <<tdesc.dataAddr>> \o Payload(y, 1, n)
    BY <1>4, <2>1, <2>3, <2>4 DEF Held
  <2>6. QED
    BY <1>4, <2>5 DEF HeldOf, n
<1>5. CASE pc = "publish"
  <2> DEFINE to == terminator[dest]
             w == <<to>> \o y
             d == dataAddr[to]
  <2>1. n \in Nat \ {0} /\ Links(y) /\ y[n] = desc /\ nextAddr[to] = y[1] /\ y # <<>>
    BY <1>0, <1>2, <1>5 DEF StepRep, LinkRep, Copied, HeldRep
  <2>2. to \in Descs /\ to \notin On(y)
    <3>1. dest \in {FillQ, DrainQ}
      BY <1>0, <1>5 DEF HeldRep, Queues
    <3>2. /\ terminator[FillQ] \in On(x) /\ terminator[DrainQ] \in On(z)
          /\ On(x) \cap On(y) = {} /\ On(z) \cap On(y) = {}
      BY Apart DEF Rep, ApartRep
    <3>3. to \notin On(y)
      BY <3>1, <3>2
    <3>4. to \in Descs
      BY <3>1 DEF TypeOK, Queues
    <3>5. QED
      BY <3>3, <3>4
  <2> HIDE DEF to
  <2>3. /\ <<to>> \in Seq(Descs) /\ Len(<<to>>) = 1 /\ <<to>>[1] = to /\ <<to>> # <<>>
        /\ On(<<to>>) = {to} /\ Distinct(<<to>>)
    BY <2>2, OneOn
  <2> DEFINE v == <<to>>
  <2> HIDE DEF v
  <2>4. v \in Seq(Descs) /\ Len(v) = 1 /\ v[1] = to /\ v # <<>> /\ Distinct(v) /\ On(v) \cap On(y) = {}
    BY <2>2, <2>3 DEF v
  <2> DEFINE q == v \o y
  <2>5. /\ q \in Seq(Descs) /\ Distinct(q) /\ Len(q) = 1 + n
        /\ \A m \in 1 .. 1 : q[m] = v[m]
        /\ \A m \in 1 + 1 .. 1 + n : q[m] = y[m - 1]
    <3>1. /\ v \o y \in Seq(Descs) /\ Distinct(v \o y)
          /\ Len(v \o y) = Len(v) + Len(y)
          /\ \A m \in 1 .. Len(v) : (v \o y)[m] = v[m]
          /\ \A m \in Len(v) + 1 .. Len(v) + Len(y) : (v \o y)[m] = y[m - Len(v)]
      BY <1>0, <2>1, <2>4, JoinedList
    <3>2. QED
      BY <2>4, <3>1
  <2>6. Payload(q, 1, 1 + n) = Payload(v, 1, 1) \o (<<dataAddr[v[1]]>> \o Payload(y, 1, n))
    <3>1. 1 \in 1 .. Len(v) /\ y # <<>>
      BY <2>1, <2>4
    <3>2. LET u == <<dataAddr[v[Len(v)]]>> \o Payload(y, 1, Len(y))
          IN  Payload(v \o y, 1, Len(v) + Len(y)) = Payload(v, 1, Len(v)) \o u
      BY <1>0, <2>4, <3>1, JoinedPayload
    <3>3. QED
      BY <2>4, <3>2
  <2> HIDE DEF q
  <2>7. q[1] = to /\ \A m \in 2 .. n + 1 : q[m] = y[m - 1]
    BY <2>1, <2>4, <2>5
  <2>8. Links(q)
    <3> SUFFICES ASSUME NEW i \in 1 .. n PROVE nextAddr[q[i]] = q[i + 1]
      BY <2>1, <2>5 DEF Links
    <3>1. CASE i = 1
      <4>1. q[2] = y[1]
        BY <2>1, <2>7
      <4>2. QED
        BY <2>1, <2>7, <3>1, <4>1
    <3>2. CASE i # 1
      <4> DEFINE h == i - 1
      <4>1. h \in 1 .. Len(y) - 1 /\ h + 1 = i /\ i \in 2 .. n + 1 /\ i + 1 \in 2 .. n + 1 /\ (i + 1) - 1 = h + 1
        BY <2>1, <3>2
      <4>2. q[i] = y[h] /\ q[i + 1] = y[h + 1]
        BY <2>7, <4>1
      <4> HIDE DEF h
      <4>3. QED
        BY <2>1, <4>1, <4>2 DEF Links
    <3>3. QED
      BY <3>1, <3>2
  <2> DEFINE l == n + 1
  <2>9. /\ 1 \in 1 .. Len(q) /\ l \in 1 .. Len(q) /\ l \in 1 .. Len(q) + 1 /\ l - 1 = n /\ l \in 2 .. n + 1
        /\ l = 1 + n
    BY <2>1, <2>5
  <2> HIDE DEF l
  <2>10. q[l] = desc
    BY <2>1, <2>7, <2>9
  <2>11. Distance(q[1], q[l]) = l - 1
    BY <2>5, <2>8, <2>9, ChainAlong
  <2>12. DataFrom(q[1], l - 1) = Payload(q, 1, l)
    BY <2>5, <2>8, <2>9, DataAlong
  <2>13. Held = Payload(q, 1, l)
    BY <1>5, <2>7, <2>10, <2>11, <2>12 DEF Held, to
  <2>14. Payload(v, 1, 1) = <<>>
    BY DEF Payload
  <2>15. <<dataAddr[v[1]]>> \o Payload(y, 1, n) \in Seq(Words)
    <3>1. 1 \in 1 .. Len(v)
      BY <2>4
    <3>2. LET u == <<dataAddr[v[Len(v)]]>> \o Payload(y, 1, Len(y)) IN u \in Seq(Words)
      BY <1>0, <2>1, <2>4, <3>1, JoinedPayload
    <3>3. QED
      BY <2>4, <3>2
  <2>16. <<>> \o (<<dataAddr[v[1]]>> \o Payload(y, 1, n)) = <<dataAddr[v[1]]>> \o Payload(y, 1, n)
    BY <2>15, ConcatEmptySeq
  <2>17. Held = <<dataAddr[to]>> \o Payload(y, 1, n)
    BY <2>4, <2>6, <2>9, <2>13, <2>14, <2>16
  <2>18. QED
    BY <1>5, <2>17 DEF HeldOf, to
<1>6. QED
  BY <1>0, <1>1, <1>3, <1>4, <1>5

(* The circuit that the lists stand for.                                   *)
Values(x, b, s, z, c, t, y) ==
  /\ FreeNow = Payload(x, b[s + 1], Len(x)) /\ FilledNow = PacketsOf(x, b, 1, s + 1)
  /\ SendingNow = PacketsOf(z, c, t + 1, Len(c)) /\ SentNow = PacketsOf(z, c, 1, t + 1)
  /\ Held = HeldOf(y)

LEMMA RepValues ==
  TypeOK => \A x, b, s, z, c, t, y :
              Rep(x, b, s, z, c, t, y) => Values(x, b, s, z, c, t, y)
<1> SUFFICES ASSUME TypeOK, NEW x, NEW b, NEW s, NEW z, NEW c, NEW t, NEW y,
                    Rep(x, b, s, z, c, t, y)
             PROVE  Values(x, b, s, z, c, t, y)
  OBVIOUS
<1>1. FillRep(x, b, s) /\ DrainRep(z, c, t)
  BY DEF Rep
<1>2. FreeNow = Payload(x, b[s + 1], Len(x)) /\ FilledNow = PacketsOf(x, b, 1, s + 1)
  BY <1>1, FillValues
<1>3. SendingNow = PacketsOf(z, c, t + 1, Len(c)) /\ SentNow = PacketsOf(z, c, 1, t + 1)
  BY <1>1, DrainValues
<1>4. Held = HeldOf(y)
  BY HeldValue
<1>5. QED
  BY <1>2, <1>3, <1>4 DEF Values

LEMMA RepValuesNext ==
  (TypeOK => \A x, b, s, z, c, t, y :
               Rep(x, b, s, z, c, t, y) => Values(x, b, s, z, c, t, y))'
BY RepValues, PTL

(* The same of the state after a step.                                     *)
LEMMA NextValues ==
  ASSUME TypeOK', NEW x, NEW b, NEW s, NEW z, NEW c, NEW t, NEW y, Rep(x, b, s, z, c, t, y)'
  PROVE  Values(x, b, s, z, c, t, y)'
BY RepValuesNext
-----------------------------------------------------------------------------
(* The refinement, step by step: what a step does to the lists is a step   *)
(* of the circuit, or leaves the circuit as it is.                         *)
LEMMA SameData ==
  ASSUME dataAddr' = dataAddr
  PROVE  /\ \A x, i, j : Payload(x, i, j)' = Payload(x, i, j)
         /\ \A x, b, k, l : PacketsOf(x, b, k, l)' = PacketsOf(x, b, k, l)
<1>1. \A x, i, j : Payload(x, i, j)' = Payload(x, i, j)
  BY DEF Payload
<1>2. \A x, b, k, l : PacketsOf(x, b, k, l)' = PacketsOf(x, b, k, l)
  BY <1>1 DEF PacketsOf
<1>3. QED
  BY <1>1, <1>2

LEMMA SameHeld ==
  ASSUME UNCHANGED <<dataAddr, terminator, pc, dest, tdesc>>, NEW y
  PROVE  HeldOf(y)' = HeldOf(y)
<1>1. \A i, j : Payload(y, i, j)' = Payload(y, i, j)
  BY SameData
<1>2. QED
  BY <1>1 DEF HeldOf

LEMMA NothingHeld ==
  ASSUME pc \in {"idle", "trigger"}, NEW y
  PROVE  HeldOf(y) = <<>>
BY DEF HeldOf

CircuitSame ==
  UNCHANGED <<FreeNow, FilledNow, Held, SendingNow, SentNow, available>>

LEMMA SameCircuit == CircuitSame => UNCHANGED Circuit!vars
BY DEF CircuitSame, Circuit!vars, FreeNow, FilledNow, SendingNow, SentNow

LEMMA StopStutters ==
  ASSUME TypeOK, TypeOK', SideInv, NEW x, NEW b, NEW s, NEW z, NEW c, NEW t, NEW y,
         Rep(x, b, s, z, c, t, y),
         UNCHANGED <<own, nextAddr, lastAddr, dataAddr, head, terminator, cur, spare,
                     available, locals>>
  PROVE  CircuitSame
<1>1. Rep(x, b, s, z, c, t, y)'
  BY IdleStep
<1>2. Values(x, b, s, z, c, t, y) /\ Values(x, b, s, z, c, t, y)'
  BY <1>1, RepValues, NextValues
<1>3. HeldOf(y)' = HeldOf(y)
  BY SameHeld DEF locals
<1>4. \A i, j : Payload(x, i, j)' = Payload(x, i, j)
  BY SameData
<1>5. \A p, q, k, l : PacketsOf(p, q, k, l)' = PacketsOf(p, q, k, l)
  BY SameData
<1>6. QED
  BY <1>2, <1>3, <1>4, <1>5 DEF Values, CircuitSame

LEMMA TriggerStutters ==
  ASSUME TypeOK, TypeOK', SideInv, NEW x, NEW b, NEW s, NEW z, NEW c, NEW t, NEW y,
         Rep(x, b, s, z, c, t, y), Trigger
  PROVE  CircuitSame
<1>0. pc = "trigger" /\ pc' = "idle" /\ dataAddr' = dataAddr /\ available' = available
  BY DEF Trigger, memory
<1>1. Rep(x, b, s, z, c, t, y)'
  BY TriggerStep
<1>2. Values(x, b, s, z, c, t, y) /\ Values(x, b, s, z, c, t, y)'
  BY <1>1, RepValues, NextValues
<1>3. HeldOf(y)' = <<>> /\ HeldOf(y) = <<>>
  BY <1>0 DEF HeldOf
<1>4. \A i, j : Payload(x, i, j)' = Payload(x, i, j)
  BY <1>0, SameData
<1>5. \A p, q, k, l : PacketsOf(p, q, k, l)' = PacketsOf(p, q, k, l)
  BY <1>0, SameData
<1>6. QED
  BY <1>0, <1>2, <1>3, <1>4, <1>5 DEF Values, CircuitSame

LEMMA StatusStutters ==
  ASSUME TypeOK, TypeOK', SideInv, NEW x, NEW b, NEW s, NEW z, NEW c, NEW t, NEW y,
         Rep(x, b, s, z, c, t, y), CopyStatus
  PROVE  CircuitSame
<1>0. pc = "status" /\ pc' = "copy" /\ UNCHANGED <<dataAddr, tdesc, available>>
  BY DEF CopyStatus
<1>1. Rep(x, b, s, z, c, t, y)'
  BY StatusStep
<1>2. Values(x, b, s, z, c, t, y) /\ Values(x, b, s, z, c, t, y)'
  BY <1>1, RepValues, NextValues
<1>4. \A w, i, j : Payload(w, i, j)' = Payload(w, i, j)
  BY <1>0, SameData
<1>3. HeldOf(y)' = HeldOf(y)
  BY <1>0, <1>4 DEF HeldOf
<1>5. \A p, q, k, l : PacketsOf(p, q, k, l)' = PacketsOf(p, q, k, l)
  BY <1>0, SameData
<1>6. QED
  BY <1>0, <1>2, <1>3, <1>4, <1>5 DEF Values, CircuitSame

(* A step that writes payloads where no queue has one yet.                 *)
LEMMA QueuesSame ==
  ASSUME NEW x, NEW b, NEW s, NEW z, NEW c, NEW t, FillRep(x, b, s), DrainRep(z, c, t),
         \A m \in 1 .. Len(x) - 1 : dataAddr'[x[m]] = dataAddr[x[m]],
         \A m \in 1 .. Len(z) - 1 : dataAddr'[z[m]] = dataAddr[z[m]]
  PROVE  /\ Payload(x, b[s + 1], Len(x))' = Payload(x, b[s + 1], Len(x))
         /\ PacketsOf(x, b, 1, s + 1)' = PacketsOf(x, b, 1, s + 1)
         /\ PacketsOf(z, c, t + 1, Len(c))' = PacketsOf(z, c, t + 1, Len(c))
         /\ PacketsOf(z, c, 1, t + 1)' = PacketsOf(z, c, 1, t + 1)
<1>0. Shape(x, b, s) /\ Shape(z, c, t)
  BY DEF FillRep, DrainRep, QueueRep
<1>1. /\ Len(x) \in Nat /\ Len(b) \in Nat /\ s + 1 \in 1 .. Len(b)
      /\ \A k \in 1 .. Len(b) : b[k] \in 1 .. Len(x)
  BY <1>0, ShapeFacts
<1>2. Len(c) \in Nat /\ t + 1 \in 1 .. Len(c)
  BY <1>0, ShapeFacts
<1>3. Payload(x, b[s + 1], Len(x))' = Payload(x, b[s + 1], Len(x))
  <2>1. b[s + 1] \in 1 .. Len(x)
    BY <1>1
  <2>2. b[s + 1] \in Nat /\ \A m \in b[s + 1] .. Len(x) - 1 : m \in 1 .. Len(x) - 1
    BY <1>1, <2>1
  <2>3. \A m \in b[s + 1] .. Len(x) - 1 : dataAddr'[x[m]] = dataAddr[x[m]]
    BY <2>2
  <2>4. QED
    BY <1>1, <2>2, <2>3, PayloadKept
<1> DEFINE k == s + 1
           l == t + 1
           n == Len(c)
<1>4. 1 \in 1 .. Len(b) /\ k \in 1 .. Len(b)
  BY <1>1
<1>5. 1 \in 1 .. n /\ l \in 1 .. n /\ n \in l .. n
  BY <1>2
<1> HIDE DEF k, l
<1>6. PacketsOf(x, b, 1, k)' = PacketsOf(x, b, 1, k)
  BY <1>0, <1>4, PacketsKept
<1>7. PacketsOf(z, c, 1, l)' = PacketsOf(z, c, 1, l)
  BY <1>0, <1>5, PacketsKept
<1>8. PacketsOf(z, c, l, n)' = PacketsOf(z, c, l, n)
  BY <1>0, <1>5, PacketsKept
<1>9. QED
  BY <1>3, <1>6, <1>7, <1>8 DEF k, l

(* A sequence is its first element and the others.                         *)
LEMMA FirstJoined ==
  ASSUME NEW S, NEW a \in S, NEW p \in Seq(S), NEW q \in Seq(S), Len(q) = Len(p) + 1,
         q[1] = a, \A m \in 1 .. Len(p) : q[m + 1] = p[m]
  PROVE  <<a>> \o p = q
<1> DEFINE u == <<a>>
           v == u \o p
<1>1. u \in Seq(S) /\ Len(u) = 1 /\ u[1] = a
  OBVIOUS
<1> HIDE DEF u
<1>2. /\ v \in Seq(S) /\ Len(v) = Len(u) + Len(p) /\ Len(p) \in Nat
      /\ \A m \in 1 .. Len(u) : v[m] = u[m]
      /\ \A m \in Len(u) + 1 .. Len(u) + Len(p) : v[m] = p[m - Len(u)]
  <2>1. u \in Seq(S)
    BY <1>1
  <2>2. QED
    BY <2>1, Joined
<1> HIDE DEF v
<1>3. ASSUME NEW m \in 1 .. Len(v) PROVE v[m] = q[m]
  <2>1. CASE m = 1
    BY <1>1, <1>2, <2>1
  <2>2. CASE m # 1
    <3> DEFINE k == m - 1
    <3>1. m \in Len(u) + 1 .. Len(u) + Len(p) /\ k \in 1 .. Len(p) /\ m - Len(u) = k /\ k + 1 = m
      BY <1>1, <1>2, <2>2
    <3> HIDE DEF k
    <3>2. v[m] = p[k]
      BY <1>2, <3>1
    <3>3. q[k + 1] = p[k]
      BY <3>1
    <3>4. QED
      BY <3>1, <3>2, <3>3
  <2>3. QED
    BY <2>1, <2>2
<1>4. Len(v) = Len(q)
  BY <1>1, <1>2
<1>5. v = q
  BY <1>2, <1>3, <1>4, SeqEqual
<1>6. QED
  BY <1>5 DEF u, v

LEMMA PrepareStutters ==
  ASSUME TypeOK, TypeOK', SideInv, NEW x, NEW b, NEW s, NEW z, NEW c, NEW t, NEW y,
         Rep(x, b, s, z, c, t, y), Prepare
  PROVE  CircuitSame
<1> DEFINE w == Rotated(y)
           n == Len(y)
<1>0. /\ pc = "put" /\ HeldRep(y) /\ PutRep(y) /\ FillRep(x, b, s) /\ DrainRep(z, c, t)
  BY DEF Rep, StepRep, Prepare
<1>1. y \in Seq(Descs) /\ Distinct(y) /\ y # <<>>
  BY <1>0, Apart DEF HeldRep
<1>2. /\ tdesc'.dataAddr = dataAddr[desc] /\ dataAddr' = [dataAddr EXCEPT ![desc] = NULL]
      /\ desc = y[1] /\ pc' = "status" /\ available' = available
      /\ \A d \in Descs : d \notin On(y) => dataAddr'[d] = dataAddr[d]
  BY <1>0, <1>1, Prepared
<1>3. /\ w \in Seq(Descs) /\ Len(w) = n /\ n \in Nat \ {0} /\ w[n] = y[1]
      /\ \A i \in 1 .. n - 1 : w[i] = y[i + 1]
  BY <1>1, RotatedList
<1>4. Rep(x, b, s, z, c, t, w)'
  BY PrepareStep
<1>5. Values(x, b, s, z, c, t, y) /\ Values(x, b, s, z, c, t, w)'
  BY <1>4, RepValues, NextValues
<1>6. /\ Len(x) \in Nat /\ Len(z) \in Nat
      /\ \A i \in 1 .. Len(x) : x[i] \in Descs /\ x[i] \notin On(y)
      /\ \A i \in 1 .. Len(z) : z[i] \in Descs /\ z[i] \notin On(y)
  BY Apart
<1>7. /\ \A m \in 1 .. Len(x) - 1 : dataAddr'[x[m]] = dataAddr[x[m]]
      /\ \A m \in 1 .. Len(z) - 1 : dataAddr'[z[m]] = dataAddr[z[m]]
  BY <1>2, <1>6
<1>8. /\ Payload(x, b[s + 1], Len(x))' = Payload(x, b[s + 1], Len(x))
      /\ PacketsOf(x, b, 1, s + 1)' = PacketsOf(x, b, 1, s + 1)
      /\ PacketsOf(z, c, t + 1, Len(c))' = PacketsOf(z, c, t + 1, Len(c))
      /\ PacketsOf(z, c, 1, t + 1)' = PacketsOf(z, c, 1, t + 1)
  BY <1>0, <1>7, QueuesSame
<1>9. HeldOf(w)' = HeldOf(y)
  <2> DEFINE j == n + 1
             q == Payload(y, 1, j)
             p == [k \in 1 .. n - 1 |-> dataAddr[y[k + 1]]]
  <2>1. 1 \in 1 .. Len(y) + 1 /\ j \in 1 .. Len(y) + 1 /\ j - 1 = n
    BY <1>3
  <2>2. q \in Seq(Words) /\ Len(q) = n /\ \A m \in 1 .. n : q[m] = dataAddr[y[1 + m - 1]]
    <3> HIDE DEF j, n
    <3>1. /\ q \in Seq(Words) /\ Len(q) = j - 1
          /\ \A m \in 1 .. j - 1 : q[m] = dataAddr[y[1 + m - 1]]
      BY <1>1, <2>1, PayloadSeq
    <3>2. QED
      BY <2>1, <3>1
  <2>3. Payload(w, 1, n)' = p
    <3>1. ASSUME NEW k \in 1 .. n - 1 PROVE dataAddr'[w[1 + k - 1]] = dataAddr[y[k + 1]]
      <4>1. 1 + k - 1 = k /\ w[k] = y[k + 1] /\ k + 1 \in 1 .. n /\ 1 \in 1 .. n /\ k + 1 # 1
        BY <1>3
      <4>2. y[k + 1] \in Descs /\ y[k + 1] # y[1]
        BY <1>1, <4>1 DEF Distinct
      <4>3. dataAddr'[y[k + 1]] = dataAddr[y[k + 1]]
        BY <1>2, <4>2 DEF TypeOK
      <4> HIDE DEF w
      <4>4. w[1 + k - 1] = y[k + 1]
        BY <4>1
      <4>5. QED
        BY <4>3, <4>4
    <3> HIDE DEF w, n
    <3>2. QED
      BY <3>1 DEF Payload
  <2>4. p \in Seq(Words) /\ Len(p) = n - 1 /\ \A m \in 1 .. n - 1 : p[m] = dataAddr[y[m + 1]]
    <3>1. ASSUME NEW k \in 1 .. n - 1 PROVE dataAddr[y[k + 1]] \in Words
      <4>1. k + 1 \in 1 .. Len(y)
        BY <1>3
      <4>2. y[k + 1] \in Descs
        BY <1>1, <4>1
      <4>3. QED
        BY <4>2 DEF TypeOK, Words
    <3>2. p \in [1 .. n - 1 -> Words] /\ n - 1 \in Nat
      BY <1>3, <3>1
    <3>3. \A m \in 1 .. n - 1 : p[m] = dataAddr[y[m + 1]]
      OBVIOUS
    <3> HIDE DEF p
    <3>4. QED
      BY <3>2, <3>3
  <2> DEFINE a == dataAddr[desc]
  <2>5. a \in Words /\ q[1] = a
    <3>1. y[1] \in Descs /\ 1 \in 1 .. n /\ 1 + 1 - 1 = 1
      BY <1>1, <1>3
    <3>2. a \in Words
      BY <1>2, <3>1 DEF TypeOK, Words
    <3> HIDE DEF q
    <3>3. q[1] = dataAddr[y[1 + 1 - 1]]
      BY <2>2, <3>1
    <3>4. QED
      BY <1>2, <3>1, <3>2, <3>3
  <2> HIDE DEF p, q, a, j
  <2>6. \A m \in 1 .. Len(p) : q[m + 1] = p[m]
    <3> SUFFICES ASSUME NEW m \in 1 .. n - 1 PROVE q[m + 1] = p[m]
      BY <2>4
    <3>1. m + 1 \in 1 .. n /\ 1 + (m + 1) - 1 = m + 1
      BY <1>3
    <3>2. q[m + 1] = dataAddr[y[1 + (m + 1) - 1]]
      BY <2>2, <3>1
    <3>3. QED
      BY <2>4, <3>1, <3>2
  <2>7. Len(q) = Len(p) + 1
    BY <1>3, <2>2, <2>4
  <2>8. <<a>> \o p = q
    BY <2>2, <2>4, <2>5, <2>6, <2>7, FirstJoined
  <2>9. HeldOf(w)' = <<tdesc'.dataAddr>> \o Payload(w, 1, Len(w))'
    BY <1>2 DEF HeldOf
  <2>10. HeldOf(y) = Payload(y, 1, n + 1)
    BY <1>0 DEF HeldOf
  <2>11. HeldOf(w)' = <<a>> \o p
    <3>1. Len(w) = n
      BY <1>3
    <3> HIDE DEF w, n
    <3>2. QED
      BY <1>2, <2>3, <2>9, <3>1 DEF a
  <2>12. HeldOf(y) = q
    BY <2>10 DEF q, j
  <2>13. QED
    BY <2>8, <2>11, <2>12
<1> HIDE DEF w
<1>10. QED
  BY <1>2, <1>5, <1>8, <1>9 DEF Values, CircuitSame

LEMMA RestStutters ==
  ASSUME TypeOK, TypeOK', SideInv, NEW x, NEW b, NEW s, NEW z, NEW c, NEW t, NEW y,
         Rep(x, b, s, z, c, t, y), CopyRest
  PROVE  CircuitSame
<1> DEFINE to == terminator[dest]
           n == Len(y)
<1>0. /\ pc = "copy" /\ pc' = "publish" /\ UNCHANGED <<terminator, dest, available>>
      /\ dataAddr' = [dataAddr EXCEPT ![to] = tdesc.dataAddr]
      /\ FillRep(x, b, s) /\ DrainRep(z, c, t) /\ dest \in {FillQ, DrainQ}
  BY DEF Rep, HeldRep, CopyRest, Queues
<1>1. Rep(x, b, s, z, c, t, y)'
  BY RestStep
<1>2. Values(x, b, s, z, c, t, y) /\ Values(x, b, s, z, c, t, y)'
  BY <1>1, RepValues, NextValues
<1>3. /\ Len(x) \in Nat \ {0} /\ Len(z) \in Nat \ {0} /\ n \in Nat
      /\ Distinct(x) /\ Distinct(z)
      /\ terminator[FillQ] = x[Len(x)] /\ terminator[DrainQ] = z[Len(z)]
      /\ \A i \in 1 .. Len(x) : x[i] \in On(x) /\ x[i] \in Descs /\ x[i] \notin On(z)
      /\ \A i \in 1 .. Len(z) : z[i] \in On(z) /\ z[i] \in Descs /\ z[i] \notin On(x)
      /\ \A i \in 1 .. n : y[i] \in Descs /\ y[i] \notin On(x) /\ y[i] \notin On(z)
      /\ terminator[FillQ] \in On(x) /\ terminator[DrainQ] \in On(z)
  BY Apart
<1>4. to \in On(x) \cup On(z) /\ to \in {x[Len(x)], z[Len(z)]}
  BY <1>0, <1>3
<1> HIDE DEF to, n
<1>5. \A d \in Descs : d # to => dataAddr'[d] = dataAddr[d]
  BY <1>0 DEF TypeOK
<1>6. \A m \in 1 .. Len(x) - 1 : dataAddr'[x[m]] = dataAddr[x[m]]
  <2> SUFFICES ASSUME NEW m \in 1 .. Len(x) - 1 PROVE x[m] # to /\ x[m] \in Descs
    BY <1>5
  <2>1. m \in 1 .. Len(x) /\ Len(x) \in 1 .. Len(x) /\ m # Len(x) /\ Len(z) \in 1 .. Len(z)
    BY <1>3
  <2>2. x[m] # x[Len(x)]
    BY <1>3, <2>1 DEF Distinct
  <2>3. QED
    BY <1>3, <1>4, <2>1, <2>2
<1>7. \A m \in 1 .. Len(z) - 1 : dataAddr'[z[m]] = dataAddr[z[m]]
  <2> SUFFICES ASSUME NEW m \in 1 .. Len(z) - 1 PROVE z[m] # to /\ z[m] \in Descs
    BY <1>5
  <2>1. m \in 1 .. Len(z) /\ Len(z) \in 1 .. Len(z) /\ m # Len(z) /\ Len(x) \in 1 .. Len(x)
    BY <1>3
  <2>2. z[m] # z[Len(z)]
    BY <1>3, <2>1 DEF Distinct
  <2>3. QED
    BY <1>3, <1>4, <2>1, <2>2
<1>8. /\ Payload(x, b[s + 1], Len(x))' = Payload(x, b[s + 1], Len(x))
      /\ PacketsOf(x, b, 1, s + 1)' = PacketsOf(x, b, 1, s + 1)
      /\ PacketsOf(z, c, t + 1, Len(c))' = PacketsOf(z, c, t + 1, Len(c))
      /\ PacketsOf(z, c, 1, t + 1)' = PacketsOf(z, c, 1, t + 1)
  BY <1>0, <1>6, <1>7, QueuesSame
<1>9. HeldOf(y)' = HeldOf(y)
  <2>1. ASSUME NEW m \in 1 .. n - 1 PROVE dataAddr'[y[m]] = dataAddr[y[m]]
    <3>1. m \in 1 .. n
      BY <1>3
    <3>2. y[m] # to /\ y[m] \in Descs
      BY <1>3, <1>4, <3>1
    <3>3. QED
      BY <1>5, <3>2
  <2>2. Payload(y, 1, n)' = Payload(y, 1, n)
    BY <1>3, <2>1, PayloadKept
  <2>3. HeldOf(y) = <<tdesc.dataAddr>> \o Payload(y, 1, n)
    BY <1>0 DEF HeldOf, n
  <2>4. HeldOf(y)' = <<dataAddr'[to]>> \o Payload(y, 1, n)'
    BY <1>0 DEF HeldOf, to, n
  <2>5. dataAddr'[to] = tdesc.dataAddr
    <3>1. to \in Descs
      BY <1>0 DEF TypeOK, Queues, to
    <3>2. QED
      BY <1>0, <3>1 DEF TypeOK
  <2>6. QED
    BY <2>2, <2>3, <2>4, <2>5
<1>10. QED
  BY <1>0, <1>2, <1>8, <1>9 DEF Values, CircuitSame

(* A filled frame is taken.                                                *)
LEMMA TakenValues ==
  ASSUME TypeOK, NEW x, NEW b, NEW s, Shape(x, b, s), s # 0
  PROVE  LET u == Cut(x, b[2])
             k == CutPlaces(b)
             v == Part(x, b[2] - 1)
         IN  /\ PacketsOf(x, b, 1, s + 1) # <<>>
             /\ Payload(v, 1, Len(v) + 1) = Head(PacketsOf(x, b, 1, s + 1))
             /\ PacketsOf(u, k, 1, (s - 1) + 1) = Tail(PacketsOf(x, b, 1, s + 1))
             /\ Payload(u, k[(s - 1) + 1], Len(u)) = Payload(x, b[s + 1], Len(x))
             /\ PacketsOf(u, k, (s - 1) + 1, Len(k)) = PacketsOf(x, b, s + 1, Len(b))
<1> DEFINE u == Cut(x, b[2])
           k == CutPlaces(b)
           v == Part(x, b[2] - 1)
           p == PacketsOf(x, b, 1, s + 1)
<1>1. /\ s \in Nat \ {0} /\ Len(b) \in Nat /\ 2 <= Len(b) /\ b[2] \in 2 .. Len(x)
      /\ \A o \in 2 .. Len(b) : b[o] \in b[2] .. Len(x)
  BY SecondPlace
<1>2. /\ x \in Seq(Descs) /\ Len(x) \in Nat \ {0} /\ b[1] = 1 /\ s + 1 \in 1 .. Len(b)
  BY ShapeFacts
<1>3. /\ Len(u) = Len(x) - b[2] + 1 /\ Len(k) = Len(b) - 1
      /\ \A o \in 1 .. Len(b) - 1 : k[o] = b[o + 1] - b[2] + 1
  BY CutShape
<1>4. /\ (s - 1) + 1 = s /\ s \in 1 .. Len(b) - 1 /\ 1 \in 1 .. Len(b) - 1 /\ Len(k) \in s .. Len(b) - 1
      /\ s + 1 \in 1 + 1 .. Len(b) /\ 1 \in 1 .. Len(b) /\ Len(k) + 1 = Len(b) /\ 1 + 1 = 2
      /\ s + 1 \in 2 .. Len(b)
  BY <1>1, <1>2, <1>3
<1>5. /\ p # <<>> /\ Head(p) = Payload(x, b[1], b[1 + 1]) /\ Tail(p) = PacketsOf(x, b, 1 + 1, s + 1)
  <2> DEFINE l == s + 1
  <2>1. 1 \in 1 .. Len(b) /\ l \in 1 + 1 .. Len(b)
    BY <1>4
  <2> HIDE DEF l
  <2>2. /\ PacketsOf(x, b, 1, l) # <<>>
        /\ Head(PacketsOf(x, b, 1, l)) = Payload(x, b[1], b[1 + 1])
        /\ Tail(PacketsOf(x, b, 1, l)) = PacketsOf(x, b, 1 + 1, l)
    BY <2>1, FirstPacket
  <2>3. QED
    BY <2>2 DEF l
<1>6. PacketsOf(u, k, 1, s) = Tail(p)
  <2>1. PacketsOf(u, k, 1, s) = PacketsOf(x, b, 1 + 1, s + 1)
    BY <1>4, CutPackets
  <2>2. QED
    BY <1>5, <2>1
<1>7. PacketsOf(u, k, s, Len(k)) = PacketsOf(x, b, s + 1, Len(b))
  <2> DEFINE l == Len(k)
  <2>1. l \in s .. Len(b) - 1 /\ l + 1 = Len(b)
    BY <1>4
  <2> HIDE DEF l
  <2>2. PacketsOf(u, k, s, l) = PacketsOf(x, b, s + 1, l + 1)
    BY <1>4, <2>1, CutPackets
  <2>3. QED
    BY <2>1, <2>2 DEF l
<1>8. Payload(v, 1, Len(v) + 1) = Head(p)
  <2> DEFINE n == b[2] - 1
  <2>1. n \in Nat /\ n + 1 = b[2] /\ v = Part(x, n)
    BY <1>1
  <2> HIDE DEF n
  <2>2. Len(Part(x, n)) = n
    BY <2>1 DEF Part
  <2>3. Payload(Part(x, n), 1, n + 1) = Payload(x, 1, n + 1)
    BY <2>1, PartPayload
  <2>4. Head(p) = Payload(x, 1, b[2])
    BY <1>2, <1>4, <1>5
  <2> HIDE DEF v, p
  <2>5. QED
    BY <2>1, <2>2, <2>3, <2>4
<1>9. Payload(u, k[s], Len(u)) = Payload(x, b[s + 1], Len(x))
  <2> DEFINE i == b[s + 1]
             h == b[2]
             l == Len(x)
  <2>1. i \in h .. Len(x) /\ h \in 1 .. Len(x) /\ l \in i .. Len(x)
    BY <1>1, <1>2, <1>4
  <2>2. k[s] = i - h + 1 /\ Len(u) = l - h + 1
    BY <1>3, <1>4
  <2> HIDE DEF i, h, l
  <2>3. Payload(Cut(x, h), i - h + 1, l - h + 1) = Payload(x, i, l)
    BY <1>2, <2>1, CutPayload
  <2>4. QED
    BY <2>2, <2>3 DEF i, h, l
<1> HIDE DEF u, k, v, p
<1>10. /\ PacketsOf(u, k, 1, (s - 1) + 1) = Tail(p)
       /\ Payload(u, k[(s - 1) + 1], Len(u)) = Payload(x, b[s + 1], Len(x))
       /\ PacketsOf(u, k, (s - 1) + 1, Len(k)) = PacketsOf(x, b, s + 1, Len(b))
  BY <1>4, <1>6, <1>7, <1>9
<1>11. QED
  BY <1>5, <1>8, <1>10 DEF u, k, v, p

LEMMA TakeFilledImplements ==
  ASSUME TypeOK, TypeOK', SideInv, NEW x, NEW b, NEW s, NEW z, NEW c, NEW t, NEW y,
         Rep(x, b, s, z, c, t, y), TakeFilled
  PROVE  Circuit!TakeFilled
<1> DEFINE u == Cut(x, b[2])
           k == CutPlaces(b)
           v == Part(x, b[2] - 1)
<1>0. /\ pc = "idle" /\ pc' = "put" /\ available' = available /\ dataAddr' = dataAddr
      /\ Shape(x, b, s)
  BY DEF TakeFilled, Unlink, Rep, FillRep, QueueRep
<1>1. Rep(u, k, s - 1, z, c, t, v)' /\ s # 0
  BY TakeFilledStep
<1>2. Values(x, b, s, z, c, t, y)
  BY RepValues
<1>3. /\ PacketsOf(x, b, 1, s + 1) # <<>>
      /\ Payload(v, 1, Len(v) + 1) = Head(PacketsOf(x, b, 1, s + 1))
      /\ PacketsOf(u, k, 1, (s - 1) + 1) = Tail(PacketsOf(x, b, 1, s + 1))
      /\ Payload(u, k[(s - 1) + 1], Len(u)) = Payload(x, b[s + 1], Len(x))
  BY <1>0, <1>1, TakenValues
<1>4. Values(u, k, s - 1, z, c, t, v)'
  <2> DEFINE n == s - 1
  <2>1. Rep(u, k, n, z, c, t, v)'
    BY <1>1
  <2> HIDE DEF n, u, k, v
  <2>2. Values(u, k, n, z, c, t, v)'
    BY <2>1, NextValues
  <2>3. QED
    BY <2>2 DEF n
<1> HIDE DEF u, k, v
<1>5. \A w, i, j : Payload(w, i, j)' = Payload(w, i, j)
  BY <1>0, SameData
<1>6. \A p, q, i, l : PacketsOf(p, q, i, l)' = PacketsOf(p, q, i, l)
  BY <1>0, SameData
<1>7. HeldOf(y) = <<>>
  BY <1>0, NothingHeld
<1>8. HeldOf(v)' = Payload(v, 1, Len(v) + 1)
  BY <1>0, <1>5 DEF HeldOf
<1>9. /\ FreeNow' = FreeNow /\ FilledNow # <<>> /\ FilledNow' = Tail(FilledNow)
      /\ Held = <<>> /\ Held' = Head(FilledNow)
      /\ SendingNow' = SendingNow /\ SentNow' = SentNow /\ available' = available
  BY <1>0, <1>2, <1>3, <1>4, <1>5, <1>6, <1>7, <1>8 DEF Values
<1>10. QED
  BY <1>9 DEF Circuit!TakeFilled, FreeNow, FilledNow, SendingNow, SentNow

(* A sent packet is taken: it is the firmware's own, or goes on.           *)
LEMMA ReservedFirst ==
  ASSUME TypeOK, NEW z, NEW c, NEW t, DrainRep(z, c, t), t # 0
  PROVE  Head(PacketsOf(z, c, 1, t + 1)) = <<Reserved>> <=> dataAddr[head[DrainQ]] = Reserved
<1> DEFINE p == Payload(z, 1, c[2])
           n == c[2]
           r == <<Reserved>>
<1>1. Shape(z, c, t) /\ head[DrainQ] = z[1]
  BY DEF DrainRep, QueueRep
<1>2. /\ t \in Nat \ {0} /\ Len(c) \in Nat /\ 2 <= Len(c) /\ n \in 2 .. Len(z)
      /\ z \in Seq(Descs) /\ Len(z) \in Nat \ {0} /\ c[1] = 1 /\ t + 1 \in 1 .. Len(c)
  BY <1>1, SecondPlace, ShapeFacts
<1>3. Head(PacketsOf(z, c, 1, t + 1)) = p
  <2> DEFINE l == t + 1
  <2>1. 1 \in 1 .. Len(c) /\ l \in 1 + 1 .. Len(c)
    BY <1>2
  <2> HIDE DEF l
  <2>2. Head(PacketsOf(z, c, 1, l)) = Payload(z, c[1], c[1 + 1])
    BY <1>1, <2>1, FirstPacket
  <2>3. c[1 + 1] = c[2]
    OBVIOUS
  <2>4. QED
    BY <1>2, <2>2, <2>3 DEF l
<1>4. p \in Seq(Words) /\ Len(p) = n - 1 /\ p[1] = dataAddr[z[1]]
  <2>1. 1 \in 1 .. Len(z) + 1 /\ n \in 1 .. Len(z) + 1 /\ 1 \in 1 .. n - 1 /\ 1 + 1 - 1 = 1
    BY <1>2
  <2> HIDE DEF n
  <2>2. /\ Payload(z, 1, n) \in Seq(Words) /\ Len(Payload(z, 1, n)) = n - 1
        /\ \A m \in 1 .. n - 1 : Payload(z, 1, n)[m] = dataAddr[z[1 + m - 1]]
    BY <1>2, <2>1, PayloadSeq
  <2>3. Payload(z, 1, n)[1] = dataAddr[z[1 + 1 - 1]]
    BY <2>1, <2>2
  <2>4. QED
    BY <2>1, <2>2, <2>3 DEF n
<1>5. r \in Seq(Words) /\ Len(r) = 1 /\ r[1] = Reserved
  <2>1. Reserved \in Words
    BY DEF Words, Payloads
  <2>2. QED
    BY <2>1
<1>6. ASSUME dataAddr[z[1]] = Reserved PROVE n = 2
  <2>1. \A k \in 1 .. Len(c) - 1, i \in 1 .. Len(z) :
          c[k] <= i /\ i < c[k + 1] /\ dataAddr[z[i]] = Reserved => c[k + 1] = c[k] + 1
    BY DEF DrainRep
  <2>2. 1 \in 1 .. Len(c) - 1 /\ 1 \in 1 .. Len(z) /\ c[1] <= 1 /\ 1 < c[1 + 1] /\ 1 + 1 = 2
    BY <1>2
  <2>3. c[1 + 1] = c[1] + 1
    BY <1>6, <2>1, <2>2
  <2>4. QED
    BY <1>2, <2>2, <2>3
<1> HIDE DEF p, n, r
<1>7. ASSUME dataAddr[z[1]] = Reserved PROVE p = r
  <2>1. n = 2
    BY <1>6, <1>7
  <2>2. Len(p) = 1 /\ Len(r) = 1 /\ p[1] = r[1]
    BY <1>4, <1>5, <1>7, <2>1
  <2>3. Len(p) = Len(r) /\ \A i \in 1 .. Len(p) : p[i] = r[i]
    BY <2>2
  <2>4. QED
    BY <1>4, <1>5, <2>3, SeqEqual
<1>8. ASSUME p = r PROVE dataAddr[z[1]] = Reserved
  BY <1>4, <1>5, <1>8
<1>9. QED
  BY <1>1, <1>3, <1>7, <1>8 DEF r

LEMMA TakeSentImplements ==
  ASSUME TypeOK, TypeOK', SideInv, NEW x, NEW b, NEW s, NEW z, NEW c, NEW t, NEW y,
         Rep(x, b, s, z, c, t, y), TakeSent
  PROVE  Circuit!TakeSent
<1> DEFINE u == Cut(z, c[2])
           k == CutPlaces(c)
           v == Part(z, c[2] - 1)
           n == t - 1
<1>0. pc = "idle" /\ dataAddr' = dataAddr /\ Shape(z, c, t) /\ DrainRep(z, c, t)
  BY DEF TakeSent, Unlink, Rep, DrainRep, QueueRep
<1>1. t # 0
  BY TakeSentStep, SpareSentStep
<1>2. Values(x, b, s, z, c, t, y)
  BY RepValues
<1>3. /\ PacketsOf(z, c, 1, t + 1) # <<>>
      /\ Payload(v, 1, Len(v) + 1) = Head(PacketsOf(z, c, 1, t + 1))
      /\ PacketsOf(u, k, 1, n + 1) = Tail(PacketsOf(z, c, 1, t + 1))
      /\ PacketsOf(u, k, n + 1, Len(k)) = PacketsOf(z, c, t + 1, Len(c))
  BY <1>0, <1>1, TakenValues
<1>4. Head(SentNow) = <<Reserved>> <=> dataAddr[head[DrainQ]] = Reserved
  BY <1>0, <1>1, <1>2, ReservedFirst DEF Values
<1>5. \A w, i, j : Payload(w, i, j)' = Payload(w, i, j)
  BY <1>0, SameData
<1>6. \A p, q, i, l : PacketsOf(p, q, i, l)' = PacketsOf(p, q, i, l)
  BY <1>0, SameData
<1>7. HeldOf(y) = <<>>
  BY <1>0, NothingHeld
<1>8. ASSUME NEW w, Values(x, b, s, u, k, n, w)'
      PROVE  /\ FreeNow' = FreeNow /\ FilledNow' = FilledNow /\ SendingNow' = SendingNow
             /\ SentNow # <<>> /\ SentNow' = Tail(SentNow) /\ Held = <<>> /\ Held' = HeldOf(w)'
  <2> HIDE DEF u, k, n, v
  <2>1. QED
    BY <1>2, <1>3, <1>5, <1>6, <1>7, <1>8 DEF Values
<1>9. CASE dataAddr[head[DrainQ]] = Reserved
  <2>1. Rep(x, b, s, u, k, n, y)'
    BY <1>9, SpareSentStep
  <2>2. pc' = "idle" /\ available' = TRUE
    BY <1>0, <1>9 DEF TakeSent, locals
  <2> HIDE DEF u, k, n, v
  <2>3. Values(x, b, s, u, k, n, y)'
    BY <2>1, NextValues
  <2>4. HeldOf(y)' = <<>>
    BY <2>2 DEF HeldOf
  <2>5. /\ Head(SentNow) = <<Reserved>> /\ Held' = Held /\ available' = TRUE
        /\ FreeNow' = FreeNow /\ FilledNow' = FilledNow /\ SendingNow' = SendingNow
        /\ SentNow # <<>> /\ SentNow' = Tail(SentNow) /\ Held = <<>>
    BY <1>4, <1>8, <1>9, <2>2, <2>3, <2>4
  <2>6. QED
    BY <2>5 DEF Circuit!TakeSent, FreeNow, FilledNow, SendingNow, SentNow
<1>10. CASE dataAddr[head[DrainQ]] # Reserved
  <2>1. Rep(x, b, s, u, k, n, v)'
    BY <1>10, TakeSentStep
  <2>2. pc' = "put" /\ available' = available
    BY <1>10 DEF TakeSent
  <2> HIDE DEF u, k, n, v
  <2>3. Values(x, b, s, u, k, n, v)'
    BY <2>1, NextValues
  <2>4. HeldOf(v)' = Payload(v, 1, Len(v) + 1)
    BY <1>5, <2>2 DEF HeldOf
  <2>5. Held' = Head(SentNow)
    BY <1>2, <1>3, <1>8, <2>3, <2>4 DEF Values
  <2>6. /\ Head(SentNow) # <<Reserved>> /\ available' = available
        /\ FreeNow' = FreeNow /\ FilledNow' = FilledNow /\ SendingNow' = SendingNow
        /\ SentNow # <<>> /\ SentNow' = Tail(SentNow) /\ Held = <<>>
    BY <1>4, <1>8, <1>10, <2>2, <2>3
  <2>7. QED
    BY <2>5, <2>6 DEF Circuit!TakeSent, FreeNow, FilledNow, SendingNow, SentNow
<1>11. QED
  BY <1>9, <1>10

(* The firmware's own packet is taken to be sent.                          *)
LEMMA TakeSpareImplements ==
  ASSUME TypeOK, TypeOK', SideInv, NEW x, NEW b, NEW s, NEW z, NEW c, NEW t, NEW y,
         Rep(x, b, s, z, c, t, y), TakeSpare
  PROVE  Circuit!TakeSpare
<1>0. pc = "idle" /\ pc' = "put" /\ available /\ available' = FALSE /\ dataAddr' = dataAddr
  BY DEF TakeSpare, memory
<1>1. PICK d : d = spare
  OBVIOUS
<1> DEFINE v == <<d>>
<1>2. Rep(x, b, s, z, c, t, v)'
  BY <1>1, SpareStep
<1>3. Values(x, b, s, z, c, t, y)
  BY RepValues
<1>a. d \in Descs /\ dataAddr[d] = Reserved
  BY <1>0, <1>1 DEF SideInv, SpareRep, TypeOK
<1>b. v \in Seq(Descs) /\ Len(v) = 1 /\ v[1] = d
  BY <1>a, OneOn
<1> HIDE DEF v
<1>4. Values(x, b, s, z, c, t, v)'
  BY <1>2, NextValues
<1>5. \A w, i, j : Payload(w, i, j)' = Payload(w, i, j)
  BY <1>0, SameData
<1>6. \A p, q, i, l : PacketsOf(p, q, i, l)' = PacketsOf(p, q, i, l)
  BY <1>0, SameData
<1>7. HeldOf(y) = <<>>
  BY <1>0, NothingHeld
<1>8. HeldOf(v)' = Payload(v, 1, 2)
  <2>1. Len(v) + 1 = 2
    BY <1>b
  <2>2. HeldOf(v)' = Payload(v, 1, Len(v) + 1)
    BY <1>0, <1>5 DEF HeldOf
  <2>3. QED
    BY <2>1, <2>2
<1>9. Payload(v, 1, 2) = <<Reserved>>
  <2> DEFINE p == Payload(v, 1, 2)
             r == <<Reserved>>
  <2>1. 1 \in 1 .. Len(v) + 1 /\ 2 \in 1 .. Len(v) + 1 /\ 1 \in 1 .. 2 - 1 /\ 1 + 1 - 1 = 1 /\ 2 - 1 = 1
    BY <1>b
  <2>2. p \in Seq(Words) /\ Len(p) = 2 - 1 /\ \A m \in 1 .. 2 - 1 : p[m] = dataAddr[v[1 + m - 1]]
    BY <1>b, <2>1, PayloadSeq
  <2>3. Reserved \in Words
    BY DEF Words, Payloads
  <2>4. r \in Seq(Words) /\ Len(r) = 1 /\ r[1] = Reserved
    BY <2>3
  <2> HIDE DEF p, r
  <2>5. p[1] = Reserved /\ Len(p) = 1
    BY <1>a, <1>b, <2>1, <2>2
  <2>6. Len(p) = Len(r) /\ \A i \in 1 .. Len(p) : p[i] = r[i]
    BY <2>4, <2>5
  <2>7. p = r
    BY <2>2, <2>4, <2>6, SeqEqual
  <2>8. QED
    BY <2>7 DEF p, r
<1>10. /\ FreeNow' = FreeNow /\ FilledNow' = FilledNow /\ SendingNow' = SendingNow
       /\ SentNow' = SentNow /\ Held = <<>> /\ Held' = <<Reserved>>
  BY <1>3, <1>4, <1>5, <1>6, <1>7, <1>8, <1>9 DEF Values
<1>11. QED
  BY <1>0, <1>10 DEF Circuit!TakeSpare, FreeNow, FilledNow, SendingNow, SentNow

(* A packet is published: its blocks are free, or it will be sent.         *)
LEMMA PublishedHeld ==
  ASSUME TypeOK, NEW x, NEW b, NEW s, NEW z, NEW c, NEW t, NEW y, Rep(x, b, s, z, c, t, y),
         pc = "publish", NEW q, q \in Seq(Descs), q # <<>>, Distinct(q), On(q) \cap On(y) = {},
         terminator[dest] = q[Len(q)], y \in Seq(Descs), y # <<>>, NEW i \in 1 .. Len(q)
  PROVE  /\ Payload(q \o y, i, Len(q) + Len(y)) = Payload(q, i, Len(q)) \o HeldOf(y)
         /\ HeldOf(y) \in Seq(Words) /\ Len(HeldOf(y)) = Len(y) /\ HeldOf(y) # <<>>
         /\ dest = FillQ => HeldOf(y) # <<Reserved>>
<1> DEFINE a == dataAddr[terminator[dest]]
           p == Payload(y, 1, Len(y))
           w == <<a>> \o p
<1>1. Distinct(y) /\ Len(y) \in Nat \ {0} /\ Len(q) \in Nat \ {0}
  BY Apart, EmptySeq, LenProperties
<1>2. HeldOf(y) = w
  BY DEF HeldOf
<1>3. Payload(q \o y, i, Len(q) + Len(y)) = Payload(q, i, Len(q)) \o w /\ w \in Seq(Words) /\ Len(w) = Len(y)
  <2> DEFINE r == <<dataAddr[q[Len(q)]]>> \o p
  <2>1. Payload(q \o y, i, Len(q) + Len(y)) = Payload(q, i, Len(q)) \o r /\ r \in Seq(Words) /\ Len(r) = Len(y)
    BY <1>1, JoinedPayload
  <2>2. r = w
    OBVIOUS
  <2> HIDE DEF r, w
  <2>3. QED
    BY <2>1, <2>2
<1>4. w # <<>>
  <2> HIDE DEF w
  <2>1. QED
    BY <1>1, <1>3
<1>5. dest = FillQ => w # <<Reserved>>
  <2> SUFFICES ASSUME dest = FillQ, w = <<Reserved>> PROVE FALSE
    OBVIOUS
  <2>1. LinkRep(y, Copied(terminator[dest]), terminator[dest])
    BY DEF Rep, StepRep
  <2>2. a # Reserved
    BY <2>1, DmaQueueAssumption DEF LinkRep, Copied
  <2>3. 1 \in 1 .. Len(y) + 1 /\ Len(y) \in 1 .. Len(y) + 1
    BY <1>1
  <2>4. p \in Seq(Words)
    BY <2>3, PayloadSeq
  <2>5. q[Len(q)] \in Descs
    BY <1>1
  <2>6. a \in Words
    BY <2>5 DEF TypeOK, Words
  <2>7. <<a>> \in Seq(Words) /\ Len(<<a>>) = 1 /\ <<a>>[1] = a
    BY <2>6
  <2> DEFINE u == <<a>>
  <2>8. u \in Seq(Words) /\ Len(u) = 1 /\ u[1] = a /\ w = u \o p
    BY <2>7
  <2> HIDE DEF u, p, w, a
  <2>9. u \in Seq(Words) /\ p \in Seq(Words)
    BY <2>4, <2>8
  <2>10. \A n \in 1 .. Len(u) : (u \o p)[n] = u[n]
    BY <2>9, Joined
  <2>11. w[1] = a
    BY <2>8, <2>10
  <2>12. <<Reserved>>[1] = Reserved
    OBVIOUS
  <2>13. QED
    BY <2>2, <2>11, <2>12
<1> HIDE DEF w
<1>6. QED
  BY <1>2, <1>3, <1>4, <1>5

LEMMA PublishFillImplements ==
  ASSUME TypeOK, TypeOK', SideInv, NEW x, NEW b, NEW s, NEW z, NEW c, NEW t, NEW y,
         Rep(x, b, s, z, c, t, y), Publish, dest = FillQ
  PROVE  Circuit!Free
<1> DEFINE u == x \o y
<1>0. /\ pc = "publish" /\ pc' = "trigger" /\ dataAddr' = dataAddr /\ available' = available
      /\ y \in Seq(Descs) /\ y # <<>> /\ Distinct(y)
  BY PublishCommon
<1>1. Rep(u, b, s, z, c, t, <<>>)'
  BY PublishFillStep
<1>2. Values(x, b, s, z, c, t, y)
  BY RepValues
<1>3. Values(u, b, s, z, c, t, <<>>)'
  BY <1>1, NextValues
<1>4. /\ x \in Seq(Descs) /\ Distinct(x) /\ Shape(x, b, s) /\ terminator[dest] = x[Len(x)]
      /\ Len(x) \in Nat \ {0} /\ x # <<>> /\ On(x) \cap On(y) = {}
  <2>1. On(x) \cap On(y) = {}
    BY DEF Rep, ApartRep
  <2>2. x # <<>>
    BY Apart DEF Shape
  <2>3. QED
    BY <2>1, <2>2, Apart
<1>5. /\ Len(b) \in Nat /\ s + 1 \in 1 .. Len(b) /\ b[s + 1] \in 1 .. Len(x)
  BY <1>4, ShapeFacts
<1>6. /\ Payload(u, b[s + 1], Len(x) + Len(y)) = Payload(x, b[s + 1], Len(x)) \o HeldOf(y)
      /\ HeldOf(y) # <<>> /\ HeldOf(y) # <<Reserved>>
  <2> DEFINE i == b[s + 1]
  <2>1. i \in 1 .. Len(x)
    BY <1>5
  <2> HIDE DEF i
  <2>2. /\ Payload(u, i, Len(x) + Len(y)) = Payload(x, i, Len(x)) \o HeldOf(y)
        /\ HeldOf(y) # <<>> /\ (dest = FillQ => HeldOf(y) # <<Reserved>>)
    BY <1>0, <1>4, <2>1, PublishedHeld
  <2>3. QED
    BY <2>2 DEF i
<1>7. Len(u) = Len(x) + Len(y) /\ \A i \in 1 .. Len(x) : u[i] = x[i]
  BY <1>0, <1>4, JoinedList
<1> HIDE DEF u
<1>8. PacketsOf(u, b, 1, s + 1) = PacketsOf(x, b, 1, s + 1)
  <2> DEFINE l == s + 1
  <2>1. 1 \in 1 .. Len(b) /\ l \in 1 .. Len(b)
    BY <1>5
  <2> HIDE DEF l
  <2>2. PacketsOf(u, b, 1, l) = PacketsOf(x, b, 1, l)
    BY <1>4, <1>7, <2>1, FrontPackets
  <2>3. QED
    BY <2>2 DEF l
<1>9. \A w, i, j : Payload(w, i, j)' = Payload(w, i, j)
  BY <1>0, SameData
<1>10. \A p, q, i, l : PacketsOf(p, q, i, l)' = PacketsOf(p, q, i, l)
  BY <1>0, SameData
<1>11. HeldOf(<<>>)' = <<>>
  BY <1>0 DEF HeldOf
<1>12. FreeNow' = FreeNow \o Held
  <2>1. FreeNow' = Payload(u, b[s + 1], Len(u))
    BY <1>3, <1>9 DEF Values
  <2>2. FreeNow = Payload(x, b[s + 1], Len(x)) /\ Held = HeldOf(y)
    BY <1>2 DEF Values
  <2>3. QED
    BY <1>6, <1>7, <2>1, <2>2
<1>13. /\ FilledNow' = FilledNow /\ SendingNow' = SendingNow /\ SentNow' = SentNow
       /\ Held' = <<>> /\ Held # <<>> /\ Held # <<Reserved>>
  BY <1>2, <1>3, <1>6, <1>8, <1>9, <1>10, <1>11 DEF Values
<1>14. QED
  BY <1>0, <1>12, <1>13 DEF Circuit!Free, FreeNow, FilledNow, SendingNow, SentNow

LEMMA PublishDrainImplements ==
  ASSUME TypeOK, TypeOK', SideInv, NEW x, NEW b, NEW s, NEW z, NEW c, NEW t, NEW y,
         Rep(x, b, s, z, c, t, y), Publish, dest = DrainQ
  PROVE  Circuit!Pass
<1> DEFINE u == z \o y
           k == Append(c, Len(z) + Len(y))
           n == Len(c)
<1>0. /\ pc = "publish" /\ pc' = "trigger" /\ dataAddr' = dataAddr /\ available' = available
      /\ y \in Seq(Descs) /\ y # <<>> /\ Distinct(y) /\ Len(y) \in Nat \ {0}
  BY PublishCommon
<1>1. Rep(x, b, s, u, k, t, <<>>)'
  BY PublishDrainStep
<1>2. Values(x, b, s, z, c, t, y)
  BY RepValues
<1>3. Values(x, b, s, u, k, t, <<>>)'
  <2> HIDE DEF u, k
  <2>1. QED
    BY <1>1, NextValues
<1>4. /\ z \in Seq(Descs) /\ Distinct(z) /\ Shape(z, c, t) /\ terminator[dest] = z[Len(z)]
      /\ Len(z) \in Nat \ {0} /\ z # <<>> /\ On(z) \cap On(y) = {} /\ c[n] = Len(z)
  <2>1. On(z) \cap On(y) = {}
    BY DEF Rep, ApartRep
  <2>2. z # <<>>
    BY Apart DEF Shape
  <2>3. c[n] = Len(z)
    BY DEF Rep, DrainRep
  <2>4. QED
    BY <2>1, <2>2, <2>3, Apart
<1>5. n \in Nat \ {0} /\ t + 1 \in 1 .. n /\ c \in Seq(1 .. Len(z))
  BY <1>4, ShapeFacts
<1>6. HeldOf(y) \in Seq(Words) /\ HeldOf(y) # <<>>
      /\ Payload(u, Len(z), Len(z) + Len(y)) = Payload(z, Len(z), Len(z)) \o HeldOf(y)
  <2> DEFINE i == Len(z)
  <2>1. i \in 1 .. Len(z)
    BY <1>4
  <2> HIDE DEF i
  <2>2. /\ Payload(u, i, Len(z) + Len(y)) = Payload(z, i, Len(z)) \o HeldOf(y)
        /\ HeldOf(y) \in Seq(Words) /\ HeldOf(y) # <<>>
    <3>1. z \in Seq(Descs) /\ z # <<>> /\ Distinct(z) /\ On(z) \cap On(y) = {}
      BY <1>4
    <3>2. terminator[dest] = z[Len(z)]
      BY <1>4
    <3>3. QED
      BY <1>0, <2>1, <3>1, <3>2, PublishedHeld
  <2>3. QED
    BY <2>2 DEF i
<1>7. Payload(u, Len(z), Len(z) + Len(y)) = HeldOf(y)
  <2>1. Payload(z, Len(z), Len(z)) = <<>>
    <3>1. 1 .. Len(z) - Len(z) = {}
      BY <1>4
    <3>2. QED
      BY <3>1 DEF Payload
  <2>2. <<>> \o HeldOf(y) = HeldOf(y)
    BY <1>6, ConcatEmptySeq
  <2>3. QED
    BY <1>6, <2>1, <2>2
<1>8. \A i \in 1 .. Len(z) : u[i] = z[i]
  BY <1>0, <1>4, JoinedList
<1>9. /\ Len(k) = n + 1 /\ k[n + 1] = Len(z) + Len(y)
      /\ \A m \in 1 .. n : k[m] = c[m]
  <2> DEFINE l == Len(z) + Len(y)
  <2>1. c \in Seq(Nat)
    <3>1. DOMAIN c = 1 .. n /\ \A m \in 1 .. n : c[m] \in Nat
      BY <1>4, <1>5, ShapeFacts
    <3>2. QED
      BY <1>5, <3>1
  <2>2. l \in Nat
    BY <1>0, <1>4
  <2> HIDE DEF l
  <2>3. /\ Len(Append(c, l)) = Len(c) + 1 /\ Append(c, l)[Len(c) + 1] = l
        /\ \A m \in 1 .. Len(c) : Append(c, l)[m] = c[m]
    BY <2>1, <2>2, Pushed
  <2>4. QED
    BY <2>3 DEF l
<1>10. Shape(u, k, t)
  <2> HIDE DEF u, k
  <2>1. Shape(u, k, t)'
    BY <1>1 DEF Rep, DrainRep, QueueRep
  <2>2. QED
    BY <2>1 DEF Shape
<1> HIDE DEF u, k
<1> DEFINE l == t + 1
<1>11. /\ l \in 1 .. n /\ l \in 1 .. Len(k) /\ n \in l .. Len(k) - 1 /\ n \in l .. n
       /\ 1 \in 1 .. n
  BY <1>5, <1>9
<1> HIDE DEF l, n
<1>12. PacketsOf(u, k, l, n) = PacketsOf(z, c, l, n) /\ PacketsOf(u, k, 1, l) = PacketsOf(z, c, 1, l)
  <2>1. l \in 1 .. Len(c) /\ n \in l .. Len(c) /\ 1 \in 1 .. Len(c) /\ \A m \in 1 .. Len(c) : k[m] = c[m]
    BY <1>9, <1>11 DEF n
  <2>2. PacketsOf(u, k, l, n) = PacketsOf(z, c, l, n)
    BY <1>4, <1>8, <2>1, FrontPackets
  <2>3. PacketsOf(u, k, 1, l) = PacketsOf(z, c, 1, l)
    BY <1>4, <1>8, <2>1, FrontPackets
  <2>4. QED
    BY <2>2, <2>3
<1>13. PacketsOf(u, k, l, n + 1) = Append(PacketsOf(u, k, l, n), Payload(u, k[n], k[n + 1]))
  BY <1>10, <1>11, NextPacket
<1>14. Payload(u, k[n], k[n + 1]) = HeldOf(y)
  <2>1. k[n] = Len(z)
    <3>1. n \in 1 .. n
      BY <1>5
    <3>2. QED
      BY <1>4, <1>9, <3>1
  <2>2. QED
    BY <1>7, <1>9, <2>1
<1>15. PacketsOf(u, k, t + 1, Len(k)) = Append(PacketsOf(z, c, t + 1, Len(c)), HeldOf(y))
  BY <1>9, <1>12, <1>13, <1>14 DEF l, n
<1>16. PacketsOf(u, k, 1, t + 1) = PacketsOf(z, c, 1, t + 1)
  BY <1>12 DEF l
<1>17. \A w, i, j : Payload(w, i, j)' = Payload(w, i, j)
  BY <1>0, SameData
<1>18. \A p, q, i, j : PacketsOf(p, q, i, j)' = PacketsOf(p, q, i, j)
  BY <1>0, SameData
<1>19. HeldOf(<<>>)' = <<>>
  BY <1>0 DEF HeldOf
<1>20. SendingNow' = Append(SendingNow, Held)
  <2>1. SendingNow' = PacketsOf(u, k, t + 1, Len(k))
    BY <1>3, <1>18 DEF Values
  <2>2. SendingNow = PacketsOf(z, c, t + 1, Len(c)) /\ Held = HeldOf(y)
    BY <1>2 DEF Values
  <2>3. QED
    BY <1>15, <2>1, <2>2
<1>21. /\ FreeNow' = FreeNow /\ FilledNow' = FilledNow /\ SentNow' = SentNow
       /\ Held' = <<>> /\ Held # <<>>
  BY <1>2, <1>3, <1>6, <1>16, <1>17, <1>18, <1>19 DEF Values
<1>22. QED
  BY <1>0, <1>20, <1>21 DEF Circuit!Pass, FreeNow, FilledNow, SendingNow, SentNow

(* The engines: a frame is filled, a packet is sent.                       *)
LEMMA FillImplements ==
  ASSUME TypeOK, TypeOK', SideInv, NEW x, NEW b, NEW s, NEW z, NEW c, NEW t, NEW y,
         Rep(x, b, s, z, c, t, y), NEW n \in 1 .. MaxLen, HWFill(n)
  PROVE  Circuit!Fill(n)
<1> DEFINE p == b[s + 1]
           k == Append(b, p + n)
           g == s + 1
<1>0. /\ FillRep(x, b, s) /\ Shape(x, b, s) /\ Len(b) = g
  BY DEF Rep, FillRep, QueueRep
<1>1. /\ UNCHANGED <<dataAddr, available, terminator, pc, dest, tdesc>>
  BY <1>0, HWFilled DEF locals
<1>2. Rep(x, k, g, z, c, t, y)' /\ p + n \in 1 .. Len(x)
  BY HWFillStep
<1>3. Values(x, b, s, z, c, t, y)
  BY RepValues
<1>4. Values(x, k, g, z, c, t, y)'
  <2> HIDE DEF k, g
  <2>1. QED
    BY <1>2, NextValues
<1>5. Shape(x, k, g)
  <2> HIDE DEF k, g
  <2>1. Shape(x, k, g)'
    BY <1>2 DEF Rep, FillRep, QueueRep
  <2>2. QED
    BY <2>1 DEF Shape
<1>6. /\ x \in Seq(Descs) /\ Len(x) \in Nat \ {0} /\ g \in Nat \ {0} /\ p \in 1 .. Len(x) /\ s \in Nat
      /\ b \in Seq(1 .. Len(x))
  <2>1. g \in 1 .. Len(b) /\ Len(b) \in Nat
    BY <1>0, ShapeFacts
  <2>2. p \in 1 .. Len(x)
    BY <1>0, <2>1, ShapeFacts
  <2>3. x \in Seq(Descs) /\ Len(x) \in Nat \ {0} /\ s \in Nat /\ b \in Seq(1 .. Len(x))
    BY <1>0, ShapeFacts
  <2> HIDE DEF p
  <2>4. QED
    BY <2>1, <2>2, <2>3
<1>7. Len(k) = g + 1 /\ k[g + 1] = p + n /\ \A m \in 1 .. g : k[m] = b[m]
  <2> DEFINE h == p + n
  <2>1. h \in 1 .. Len(x)
    BY <1>2
  <2> HIDE DEF h
  <2>2. /\ Len(Append(b, h)) = Len(b) + 1 /\ Append(b, h)[Len(b) + 1] = h
        /\ \A m \in 1 .. Len(b) : Append(b, h)[m] = b[m]
    BY <1>6, <2>1, Pushed
  <2> HIDE DEF g
  <2>3. QED
    BY <1>0, <2>2 DEF h
<1>a. k[g] = p
  <2>1. g \in 1 .. g
    BY <1>6
  <2> HIDE DEF k
  <2>2. k[g] = b[g]
    BY <1>7, <2>1
  <2>3. QED
    BY <2>2
<1> DEFINE l == Len(x)
<1>8. /\ SubSeq(Payload(x, p, l), 1, n) = Payload(x, p, p + n)
      /\ SubSeq(Payload(x, p, l), n + 1, Len(Payload(x, p, l))) = Payload(x, p + n, l)
      /\ n <= Len(Payload(x, p, l))
  <2> HIDE DEF p
  <2>0. MaxLen \in Nat /\ n \in 1 .. MaxLen
    BY DmaQueueAssumption
  <2>1. l \in p .. Len(x) /\ n \in 1 .. l - p
    BY <1>2, <1>6, <2>0
  <2> HIDE DEF l
  <2>2. QED
    BY <1>6, <2>1, FrontPayload
<1> HIDE DEF k, p
<1>9. PacketsOf(x, k, 1, g + 1) = Append(PacketsOf(x, b, 1, g), Payload(x, p, p + n))
  <2> HIDE DEF g
  <2>1. 1 \in 1 .. Len(k) /\ g \in 1 .. Len(k) - 1 /\ 1 \in 1 .. Len(b) /\ g \in 1 .. Len(b)
    BY <1>0, <1>6, <1>7
  <2>2. PacketsOf(x, k, 1, g + 1) = Append(PacketsOf(x, k, 1, g), Payload(x, k[g], k[g + 1]))
    BY <1>5, <2>1, NextPacket
  <2>3. \A m \in 1 .. Len(b) : k[m] = b[m]
    BY <1>0, <1>7
  <2>4. \A i \in 1 .. Len(x) : x[i] = x[i]
    OBVIOUS
  <2>5. PacketsOf(x, k, 1, g) = PacketsOf(x, b, 1, g)
    BY <1>0, <2>1, <2>3, <2>4, FrontPackets
  <2>6. QED
    BY <1>7, <1>a, <2>2, <2>5
<1>10. \A w, i, j : Payload(w, i, j)' = Payload(w, i, j)
  BY <1>1, SameData
<1>11. \A q, r, i, j : PacketsOf(q, r, i, j)' = PacketsOf(q, r, i, j)
  BY <1>1, SameData
<1>12. HeldOf(y)' = HeldOf(y)
  BY <1>1, SameHeld
<1>13. FreeNow = Payload(x, p, l) /\ FilledNow = PacketsOf(x, b, 1, g)
  BY <1>3 DEF Values, p
<1>14. FreeNow' = Payload(x, p + n, l) /\ FilledNow' = PacketsOf(x, k, 1, g + 1)
  <2> HIDE DEF g
  <2>1. /\ FreeNow' = Payload(x, k[g + 1], l)' /\ FilledNow' = PacketsOf(x, k, 1, g + 1)'
    BY <1>4 DEF Values
  <2>2. QED
    BY <1>7, <1>10, <1>11, <2>1
<1>15. /\ SendingNow' = SendingNow /\ SentNow' = SentNow /\ Held' = Held
  BY <1>3, <1>4, <1>11, <1>12 DEF Values
<1>16. /\ n <= Len(FreeNow) /\ FilledNow' = Append(FilledNow, SubSeq(FreeNow, 1, n))
       /\ FreeNow' = SubSeq(FreeNow, n + 1, Len(FreeNow))
  BY <1>8, <1>9, <1>13, <1>14
<1>17. available' = available
  BY <1>1
<1>18. QED
  BY <1>15, <1>16, <1>17 DEF Circuit!Fill, FreeNow, FilledNow, SendingNow, SentNow

LEMMA DrainImplements ==
  ASSUME TypeOK, TypeOK', SideInv, NEW x, NEW b, NEW s, NEW z, NEW c, NEW t, NEW y,
         Rep(x, b, s, z, c, t, y), HWDrain
  PROVE  Circuit!Send
<1> DEFINE l == t + 1
           n == Len(c)
<1>0. DrainRep(z, c, t) /\ Shape(z, c, t)
  BY DEF Rep, DrainRep, QueueRep
<1>1. /\ UNCHANGED <<dataAddr, available, terminator, pc, dest, tdesc>>
  BY <1>0, HWDrained DEF locals
<1>2. Rep(x, b, s, z, c, l, y)' /\ t + 2 \in 1 .. Len(c)
  BY HWDrainStep
<1>3. Values(x, b, s, z, c, t, y)
  BY RepValues
<1>4. Values(x, b, s, z, c, l, y)'
  <2> HIDE DEF l
  <2>1. QED
    BY <1>2, NextValues
<1>5. l \in 1 .. n - 1 /\ l \in 1 .. n /\ n \in l + 1 .. n /\ 1 \in 1 .. n
  <2>1. t \in Nat /\ n \in Nat \ {0}
    BY <1>0, ShapeFacts
  <2>2. QED
    BY <1>2, <2>1
<1> HIDE DEF l
<1>6. /\ PacketsOf(z, c, l, n) # <<>>
      /\ Head(PacketsOf(z, c, l, n)) = Payload(z, c[l], c[l + 1])
      /\ Tail(PacketsOf(z, c, l, n)) = PacketsOf(z, c, l + 1, n)
  BY <1>0, <1>5, FirstPacket
<1>7. PacketsOf(z, c, 1, l + 1) = Append(PacketsOf(z, c, 1, l), Payload(z, c[l], c[l + 1]))
  BY <1>0, <1>5, NextPacket
<1>8. \A w, i, j : Payload(w, i, j)' = Payload(w, i, j)
  BY <1>1, SameData
<1>9. \A q, r, i, j : PacketsOf(q, r, i, j)' = PacketsOf(q, r, i, j)
  BY <1>1, SameData
<1>10. HeldOf(y)' = HeldOf(y)
  BY <1>1, SameHeld
<1>11. SendingNow = PacketsOf(z, c, l, n) /\ SentNow = PacketsOf(z, c, 1, l)
  BY <1>3 DEF Values, l
<1>12. SendingNow' = PacketsOf(z, c, l + 1, n) /\ SentNow' = PacketsOf(z, c, 1, l + 1)
  BY <1>4, <1>9 DEF Values
<1>13. FreeNow' = FreeNow /\ FilledNow' = FilledNow /\ Held' = Held
  BY <1>3, <1>4, <1>8, <1>9, <1>10 DEF Values
<1>14. /\ SendingNow # <<>> /\ SentNow' = Append(SentNow, Head(SendingNow))
       /\ SendingNow' = Tail(SendingNow)
  BY <1>6, <1>7, <1>11, <1>12
<1>15. available' = available
  BY <1>1
<1>16. QED
  BY <1>13, <1>14, <1>15 DEF Circuit!Send, FreeNow, FilledNow, SendingNow, SentNow
-----------------------------------------------------------------------------
(* The circuit begins with every block free.                               *)
LEMMA InitImplements == Init => Circuit!Init
<1> SUFFICES ASSUME Init PROVE Circuit!Init
  OBVIOUS
<1> DEFINE n == Len(Blocks)
           x == [i \in 1 .. n + 1 |-> Ring(i)]
           b == <<1>>
           z == <<Terminators[2]>>
<1>1. Rep(x, b, 0, z, b, 0, <<>>)
  BY InitRep
<1>2. TypeOK
  BY InitTypeOK
<1>3. n \in Nat \ {0} /\ DOMAIN Blocks = 1 .. n
  BY DmaQueueAssumption
<1>4. Len(b) = 1 /\ b[1] = 1
  OBVIOUS
<1>5. Len(x) = n + 1 /\ \A i \in 1 .. n : x[i] = Ring(i)
  BY <1>3
<1>6. \A i \in 1 .. n : dataAddr[Ring(i)] = Data(Blocks[i])
  BY InitFields
<1> HIDE DEF x, b, z, n
<1>7. Values(x, b, 0, z, b, 0, <<>>)
  BY <1>1, <1>2, RepValues
<1>8. FreeNow = Payload(x, 1, n + 1)
  <2>1. 0 + 1 = 1
    OBVIOUS
  <2>2. FreeNow = Payload(x, b[0 + 1], Len(x))
    BY <1>7 DEF Values
  <2>3. QED
    BY <1>4, <1>5, <2>1, <2>2
<1>9. Payload(x, 1, n + 1) = [i \in DOMAIN Blocks |-> Data(Blocks[i])]
  <2>1. (n + 1) - 1 = n
    BY <1>3
  <2>2. ASSUME NEW k \in 1 .. n PROVE dataAddr[x[1 + k - 1]] = Data(Blocks[k])
    <3>1. 1 + k - 1 = k
      BY <1>3
    <3>2. QED
      BY <1>5, <1>6, <3>1
  <2>3. Payload(x, 1, n + 1) = [k \in 1 .. n |-> Data(Blocks[k])]
    BY <2>1, <2>2 DEF Payload
  <2>4. QED
    BY <1>3, <2>3
<1>10. \A p, q : PacketsOf(p, q, 1, 1) = <<>>
  BY DEF PacketsOf
<1>11. FilledNow = <<>> /\ SendingNow = <<>> /\ SentNow = <<>>
  <2>1. /\ FilledNow = PacketsOf(x, b, 1, 0 + 1)
        /\ SendingNow = PacketsOf(z, b, 0 + 1, Len(b)) /\ SentNow = PacketsOf(z, b, 1, 0 + 1)
    BY <1>7 DEF Values
  <2>2. 0 + 1 = 1
    OBVIOUS
  <2>3. QED
    BY <1>4, <1>10, <2>1, <2>2
<1>12. Held = <<>> /\ available = TRUE
  BY DEF Init, Held
<1>13. FreeNow = [i \in DOMAIN Blocks |-> Data(Blocks[i])]
  BY <1>8, <1>9
<1>14. QED
  BY <1>11, <1>12, <1>13 DEF Circuit!Init, FreeNow, FilledNow, SendingNow, SentNow

(* Every step is a step of the circuit or none.                            *)
LEMMA StepImplements ==
  DmaInv /\ DmaInv' /\ [Next]_vars => [Circuit!Next]_(Circuit!vars)
<1> SUFFICES ASSUME DmaInv, DmaInv', [Next]_vars PROVE [Circuit!Next]_(Circuit!vars)
  OBVIOUS
<1>a. TypeOK /\ TypeOK' /\ SideInv
  BY DEF DmaInv, SideInv
<1>b. PICK x, b, s, z, c, t, y : Rep(x, b, s, z, c, t, y)
  BY DEF DmaInv
<1>1. CASE TakeFilled
  BY <1>a, <1>b, <1>1, TakeFilledImplements DEF Circuit!Next
<1>2. CASE TakeSent
  BY <1>a, <1>b, <1>2, TakeSentImplements DEF Circuit!Next
<1>3. CASE TakeSpare
  BY <1>a, <1>b, <1>3, TakeSpareImplements DEF Circuit!Next
<1>4. CASE Prepare
  BY <1>a, <1>b, <1>4, PrepareStutters, SameCircuit
<1>5. CASE CopyStatus
  BY <1>a, <1>b, <1>5, StatusStutters, SameCircuit
<1>6. CASE CopyRest
  BY <1>a, <1>b, <1>6, RestStutters, SameCircuit
<1>7. CASE Publish
  <2>1. dest = FillQ \/ dest = DrainQ
    BY <1>a, <1>b, <1>7, PublishCommon DEF Queues
  <2>2. CASE dest = FillQ
    BY <1>a, <1>b, <1>7, <2>2, PublishFillImplements DEF Circuit!Next
  <2>3. CASE dest = DrainQ
    BY <1>a, <1>b, <1>7, <2>3, PublishDrainImplements DEF Circuit!Next
  <2>4. QED
    BY <2>1, <2>2, <2>3
<1>8. CASE Trigger
  BY <1>a, <1>b, <1>8, TriggerStutters, SameCircuit
<1>9. CASE \E n \in 1 .. MaxLen : HWFill(n)
  <2>1. PICK n \in 1 .. MaxLen : HWFill(n)
    BY <1>9
  <2>2. Circuit!Fill(n)
    BY <1>a, <1>b, <2>1, FillImplements
  <2>3. QED
    BY <2>2 DEF Circuit!Next
<1>10. CASE HWDrain
  BY <1>a, <1>b, <1>10, DrainImplements DEF Circuit!Next
<1>11. CASE (\E q \in Queues : HWStop(q)) \/ UNCHANGED vars
  <2>1. UNCHANGED <<own, nextAddr, lastAddr, dataAddr, head, terminator, cur, spare,
                    available, locals>>
    BY <1>11 DEF HWStop, vars, memory, engines
  <2>2. QED
    BY <1>a, <1>b, <2>1, StopStutters, SameCircuit
<1>12. QED
  BY <1>1, <1>2, <1>3, <1>4, <1>5, <1>6, <1>7, <1>8, <1>9, <1>10, <1>11
     DEF Next, Firmware, Engines

(* The queues implement the circuit of packets, and while they do, no      *)
(* engine meets a descriptor without a payload, no payload is lost or      *)
(* shared, and the firmware's own is never filled (dma.c, dma.h).          *)
THEOREM CircuitCorrect == Spec => CircuitKept
<1>1. DmaInv => OwnedIsComplete /\ NoBlockLost /\ ReservedNotFilled
  BY OwnedComplete, BlocksKept, ReservedApart
<1>2. Spec => ImplementsCircuit
  BY SpecDmaInv, InitImplements, StepImplements, PTL DEF ImplementsCircuit, Circuit!Spec, Spec
<1>3. QED
  BY <1>1, <1>2, SpecDmaInv, PTL DEF CircuitKept
=============================================================================
