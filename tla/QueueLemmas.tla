---------------------------- MODULE QueueLemmas ----------------------------
(***************************************************************************)
(* What taking from and adding to a queue means for the positions of its   *)
(* entries: the form in which proofs whose invariants speak about          *)
(* positions use Head, Tail, Append and \o, and the index arithmetic of    *)
(* queues kept in rings, for rings of every size.                          *)
(***************************************************************************)
EXTENDS RingIndex, Sequences, SequenceTheorems, FiniteSetTheorems, TLAPS

(* What one entry less in front of a queue means for the others.           *)
LEMMA Popped ==
  ASSUME NEW S, NEW s \in Seq(S), s # <<>>
  PROVE  /\ Head(s) \in S /\ Head(s) = s[1]
         /\ Tail(s) \in Seq(S)
         /\ Len(s) \in Nat \ {0}
         /\ Len(Tail(s)) = Len(s) - 1
         /\ \A n \in 1 .. Len(Tail(s)) : Tail(s)[n] = s[n + 1]
         /\ Tail(s) = <<>> <=> Len(s) = 1
<1>1. Len(s) \in Nat \ {0}
  BY EmptySeq
<1>2. /\ Head(s) \in S
      /\ Tail(s) \in Seq(S)
      /\ Len(Tail(s)) = Len(s) - 1
      /\ \A n \in 1 .. Len(Tail(s)) : Tail(s)[n] = s[n + 1]
  BY HeadTailProperties
<1>3. Tail(s) = <<>> <=> Len(Tail(s)) = 0
  BY <1>2, EmptySeq
<1>4. Head(s) = s[1]
  BY <1>1
<1> QED
  BY <1>1, <1>2, <1>3, <1>4

(* What one entry more at the end of a queue means for the others.         *)
LEMMA Pushed ==
  ASSUME NEW S, NEW s \in Seq(S), NEW x \in S
  PROVE  /\ Append(s, x) \in Seq(S)
         /\ Append(s, x) # <<>>
         /\ Len(s) \in Nat
         /\ Len(Append(s, x)) = Len(s) + 1
         /\ \A n \in 1 .. Len(s) : Append(s, x)[n] = s[n]
         /\ Append(s, x)[Len(s) + 1] = x
BY AppendProperties, LenProperties

(* What another queue behind a queue means for the entries of both.        *)
LEMMA Joined ==
  ASSUME NEW S, NEW s \in Seq(S), NEW t \in Seq(S)
  PROVE  /\ s \o t \in Seq(S)
         /\ Len(s) \in Nat /\ Len(t) \in Nat
         /\ Len(s \o t) = Len(s) + Len(t)
         /\ \A n \in 1 .. Len(s) : (s \o t)[n] = s[n]
         /\ \A n \in Len(s) + 1 .. Len(s) + Len(t) : (s \o t)[n] = t[n - Len(s)]
OBVIOUS

(* A sequence without its element i, as RemoveAt of the community modules  *)
(* has it.                                                                 *)
Gone(s, i) == SubSeq(s, 1, i - 1) \o SubSeq(s, i + 1, Len(s))

LEMMA Spliced ==
  ASSUME NEW S, NEW s \in Seq(S), NEW i \in 1 .. Len(s)
  PROVE  /\ Gone(s, i) \in Seq(S)
         /\ Len(s) \in Nat
         /\ Len(Gone(s, i)) = Len(s) - 1
         /\ \A k \in 1 .. i - 1 : Gone(s, i)[k] = s[k]
         /\ \A k \in i .. Len(s) - 1 : Gone(s, i)[k] = s[k + 1]
<1> DEFINE a == SubSeq(s, 1, i - 1)
           b == SubSeq(s, i + 1, Len(s))
<1>1. Len(s) \in Nat /\ i \in Int
  BY LenProperties
<1>2. a \in Seq(S) /\ Len(a) = i - 1 /\ \A k \in 1 .. i - 1 : a[k] = s[k]
  BY <1>1, SubSeqProperties
<1>3. b \in Seq(S) /\ Len(b) = Len(s) - i /\ \A k \in 1 .. Len(s) - i : b[k] = s[i + k]
  BY <1>1, SubSeqProperties
<1>4. Gone(s, i) = a \o b
  BY DEF Gone
<1> HIDE DEF a, b
<1>5. /\ a \o b \in Seq(S) /\ Len(a \o b) = Len(a) + Len(b)
      /\ \A n \in 1 .. Len(a) : (a \o b)[n] = a[n]
      /\ \A n \in Len(a) + 1 .. Len(a) + Len(b) : (a \o b)[n] = b[n - Len(a)]
  <2>1. a \in Seq(S) /\ b \in Seq(S)
    BY <1>2, <1>3
  <2>2. QED
    BY <2>1, Joined
<1>6. ASSUME NEW k \in i .. Len(s) - 1 PROVE (a \o b)[k] = s[k + 1]
  <2>0. Len(a) = i - 1 /\ Len(b) = Len(s) - i
    BY <1>2, <1>3
  <2>1. k \in Len(a) + 1 .. Len(a) + Len(b) /\ k - Len(a) \in 1 .. Len(s) - i
    BY <1>1, <2>0
  <2>2. (a \o b)[k] = b[k - Len(a)] /\ b[k - Len(a)] = s[i + (k - Len(a))]
    BY <1>3, <1>5, <2>1
  <2>3. i + (k - Len(a)) = k + 1
    BY <1>1, <2>0
  <2>4. QED
    BY <2>2, <2>3
<1>7. Len(a \o b) = Len(s) - 1
  <2>1. Len(a) = i - 1 /\ Len(b) = Len(s) - i /\ Len(a \o b) = Len(a) + Len(b)
    BY <1>2, <1>3, <1>5
  <2> DEFINE la == Len(a)  lb == Len(b)  lab == Len(a \o b)  ls == Len(s)
  <2>2. ls \in Nat /\ i \in Int /\ la = i - 1 /\ lb = ls - i /\ lab = la + lb
    BY <1>1, <2>1
  <2> HIDE DEF la, lb, lab, ls
  <2>3. lab = ls - 1
    BY <2>2
  <2>4. QED
    BY <2>3 DEF lab, ls
<1>8. \A k \in 1 .. i - 1 : (a \o b)[k] = s[k]
  BY <1>2, <1>5
<1> DEFINE r == a \o b
<1>9. /\ r \in Seq(S) /\ Len(r) = Len(s) - 1
      /\ \A k \in 1 .. i - 1 : r[k] = s[k]
      /\ \A k \in i .. Len(s) - 1 : r[k] = s[k + 1]
  BY <1>5, <1>6, <1>7, <1>8
<1>10. Gone(s, i) = r
  BY <1>4
<1> HIDE DEF r
<1>11. QED
  BY <1>1, <1>9, <1>10
-----------------------------------------------------------------------------
(* An index below two turns wraps at most once.                            *)
LEMMA WrapsOnce ==
  ASSUME NEW n \in Nat \ {0}, NEW i \in 0 .. 2 * n - 1
  PROVE  Wrapped(i, n) = IF i < n THEN i ELSE i - n
<1>1. CASE i < n
  BY <1>1 DEF Wrapped
<1>2. CASE i >= n
  BY <1>2 DEF Wrapped
<1>3. QED
  BY <1>1, <1>2

(* A wrapped index is an index of the ring.                                *)
LEMMA WrappedInRange ==
  ASSUME NEW n \in Nat \ {0}, NEW h \in 0 .. n - 1, NEW a \in 0 .. n
  PROVE  Wrapped(h + a, n) \in 0 .. n - 1
<1>1. h + a \in 0 .. 2 * n - 1
  OBVIOUS
<1>2. QED
  BY <1>1, WrapsOnce

LEMMA WrappedIndex ==
  ASSUME NEW n \in Nat \ {0}, NEW h \in 0 .. n - 1
  PROVE  Wrapped(h, n) = h
<1>1. h \in 0 .. 2 * n - 1
  OBVIOUS
<1>2. QED
  BY <1>1, WrapsOnce

(* Advancing by a and then by b is advancing by a + b.                     *)
LEMMA WrappedSum ==
  ASSUME NEW n \in Nat \ {0}, NEW h \in 0 .. n - 1,
         NEW a \in 0 .. n, NEW b \in 0 .. n, a + b <= n
  PROVE  Wrapped(Wrapped(h + a, n) + b, n) = Wrapped(h + (a + b), n)
<1>1. \A i \in 0 .. 2 * n - 1 : Wrapped(i, n) = IF i < n THEN i ELSE i - n
  BY WrapsOnce
<1>2. QED
  BY <1>1

(* Different offsets below one turn are different slots.                   *)
LEMMA WrappedInjective ==
  ASSUME NEW n \in Nat \ {0}, NEW h \in 0 .. n - 1,
         NEW a \in 0 .. n - 1, NEW b \in 0 .. n - 1, a # b
  PROVE  Wrapped(h + a, n) # Wrapped(h + b, n)
<1>1. h + a \in 0 .. 2 * n - 1 /\ h + b \in 0 .. 2 * n - 1
  OBVIOUS
<1>2. QED
  BY <1>1, WrapsOnce
-----------------------------------------------------------------------------
(* The numbers up to n are n.                                              *)
LEMMA UpTo ==
  ASSUME NEW n \in Nat
  PROVE  IsFiniteSet(1 .. n) /\ Cardinality(1 .. n) = n
<1>1. /\ IsFiniteSet(1 .. n)
      /\ Cardinality(1 .. n) = IF 1 > n THEN 0 ELSE n - 1 + 1
  BY FS_Interval
<1>2. QED
  BY <1>1

(* A set of numbers has a least one.                                       *)
LEMMA LeastNatural ==
  ASSUME NEW T \in SUBSET Nat, T # {}
  PROVE  \E m \in T : \A n \in T : m <= n
<1> DEFINE R == StrictSubsetOrdering(Nat)
           S == {1 .. n : n \in T}
<1>1. IsWellFoundedOn(R, FiniteSubsetsOf(Nat))
  BY FS_StrictSubsetOrderingWellFounded
<1>2. S \in SUBSET FiniteSubsetsOf(Nat) /\ S # {}
  <2>1. ASSUME NEW n \in T PROVE 1 .. n \in SUBSET Nat /\ IsFiniteSet(1 .. n)
    BY FS_Interval
  <2>2. QED
    BY <2>1 DEF FiniteSubsetsOf
<1> HIDE DEF R
<1>3. PICK s \in S : \A t \in S : ~(<<t, s>> \in R)
  <2> HIDE DEF S
  <2>1. QED
    BY <1>1, <1>2, WFMin
<1>4. PICK m \in T : s = 1 .. m
  OBVIOUS
<1>5. ASSUME NEW n \in T, n < m PROVE FALSE
  <2>1. 1 .. n \in S /\ 1 .. n \in SUBSET Nat /\ 1 .. m \in SUBSET Nat
    OBVIOUS
  <2>2. 1 .. n \subseteq 1 .. m /\ m \in 1 .. m /\ m \notin 1 .. n
    BY <1>5
  <2>3. <<1 .. n, 1 .. m>> \in R
    BY <2>1, <2>2 DEF R, StrictSubsetOrdering
  <2>4. QED
    BY <1>3, <1>4, <2>1, <2>3
<1>6. QED
  BY <1>5
=============================================================================
