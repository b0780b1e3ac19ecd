---------------------------- MODULE DeviceProofs ----------------------------
(***************************************************************************)
(* Proofs about the parts of MCDevice.  The key cache, for every set of    *)
(* users and every sequence of calls: the parts of two users never meet,   *)
(* and the engine finds what it may look up complete.  The receive path,   *)
(* for every number of descriptors, size of the cache of BlockAck          *)
(* requests, set of frames on the air and set of filters.  The life on the *)
(* bus, for every set of control requests; the scanner of magic packets,   *)
(* for every address.                                                      *)
(***************************************************************************)
EXTENDS MCDevice, Integers, QueueLemmas, FiniteSetTheorems, TLAPS

Entries == {u \in Users : Valid(u, 0)}

(* Where the parts are.                                                    *)
LEMMA EntryRange ==
  ASSUME NEW u \in Entries
  PROVE  u \in Users /\ u \in Nat /\ u <= 67
BY CamAssumption DEF Entries, Valid, MAX_USER

LEMMA TypeCellRow ==
  ASSUME NEW u \in Nat, u <= 67
  PROVE  TypeCell(u)[1] \in 24 .. 26
BY DEF TypeCell, MAX_USER, DEFAULT_ENCRY_TYPE, ENCRY_TYPE_START_ADDR

LEMMA TypeCellsApart ==
  ASSUME NEW u \in Nat, u <= 67, NEW v \in Nat, v <= 67, u # v
  PROVE  TypeCell(u) # TypeCell(v)
<1>1. CASE u >= 64 /\ v >= 64
  BY <1>1 DEF TypeCell, MAX_USER, DEFAULT_ENCRY_TYPE, ENCRY_TYPE_START_ADDR
<1>2. CASE u >= 64 /\ v < 64
  BY <1>2 DEF TypeCell, MAX_USER, DEFAULT_ENCRY_TYPE, ENCRY_TYPE_START_ADDR
<1>3. CASE u < 64 /\ v >= 64
  BY <1>3 DEF TypeCell, MAX_USER, DEFAULT_ENCRY_TYPE, ENCRY_TYPE_START_ADDR
<1>4. CASE u < 64 /\ v < 64
  BY <1>4 DEF TypeCell, MAX_USER, DEFAULT_ENCRY_TYPE, ENCRY_TYPE_START_ADDR
<1>5. QED
  BY <1>1, <1>2, <1>3, <1>4

LEMMA MacCellRow ==
  ASSUME NEW u \in Nat, u < 64, NEW i \in 0 .. 5, NEW c \in MacCells(u, i)
  PROVE  c[1] \in 0 .. 23
BY DEF MacCells

LEMMA MacCellsApart ==
  ASSUME NEW u \in Nat, u < 64, NEW v \in Nat, v < 64,
         NEW i \in 0 .. 5, NEW j \in 0 .. 5, u # v \/ i # j
  PROVE  MacCells(u, i) \cap MacCells(v, j) = {}
<1> SUFFICES ASSUME NEW c \in MacCells(u, i), c \in MacCells(v, j) PROVE FALSE
  OBVIOUS
<1>1. /\ c[1] = (u \div 16) * 6 + i /\ c[2] = (u \div 4) % 4
      /\ c[3] \in {2 * (u % 4), 2 * (u % 4) + 1}
  BY DEF MacCells
<1>2. /\ c[1] = (v \div 16) * 6 + j /\ c[2] = (v \div 4) % 4
      /\ c[3] \in {2 * (v % 4), 2 * (v % 4) + 1}
  BY DEF MacCells
<1>3. u \div 16 = v \div 16 /\ i = j
  <2>1. u \div 16 \in Int /\ v \div 16 \in Int
    OBVIOUS
  <2>2. QED
    BY <1>1, <1>2, <2>1
<1>4. u % 4 = v % 4
  <2>1. u % 4 \in 0 .. 3 /\ v % 4 \in 0 .. 3
    OBVIOUS
  <2>2. QED
    BY <1>1, <1>2, <2>1
<1>5. (u \div 4) % 4 = (v \div 4) % 4
  BY <1>1, <1>2
<1>6. u = v
  BY <1>3, <1>4, <1>5
<1>7. QED
  BY <1>3, <1>6

LEMMA KeyCellRow ==
  ASSUME NEW u \in Nat, NEW k \in {0, 1}, NEW c \in KeyCells(u, k)
  PROVE  c[1] = 27 + u * 2 + k
BY DEF KeyCells, KeyRow, KEY_START_ADDR

LEMMA KeyCellsApart ==
  ASSUME NEW u \in Nat, NEW v \in Nat, NEW k \in {0, 1}, NEW l \in {0, 1}, u # v \/ k # l
  PROVE  KeyCells(u, k) \cap KeyCells(v, l) = {}
<1> SUFFICES ASSUME NEW c \in KeyCells(u, k), c \in KeyCells(v, l) PROVE FALSE
  OBVIOUS
<1>1. 27 + u * 2 + k = 27 + v * 2 + l
  BY KeyCellRow
<1>2. QED
  BY <1>1
-----------------------------------------------------------------------------

CamOK ==
  /\ cam \in [Cells -> Nat]
  /\ calls \in Nat
  /\ types \in [Users -> Nat] /\ keys \in [Users \X {0, 1} -> Nat]
  /\ at \in 0 .. 9
  /\ at > 0 => arg.user \in Entries /\ arg.keyId \in {0, 1} /\ arg = [user |-> arg.user, keyId |-> arg.keyId]
  /\ at \in 2 .. 7 => HasMac(arg.user)

(* The user whose entry is being written is not in the roll call.          *)
NotCalled == at > 0 => Bit(arg.user) \cap roll = {}

HoldsType(u, n) == cam[TypeCell(u)] = n
HoldsMac(u, i, n) == \A c \in MacCells(u, i) : cam[c] = n
HoldsKey(u, k, n) == \A c \in KeyCells(u, k) : cam[c] = n

OthersHold == \A u \in Entries : (at = 0 \/ u # arg.user) => Holds(u)

(* What set_key has written of the entry so far, and the other key.        *)
WrittenSoFar ==
  at > 0 =>
    /\ at > 1 => HoldsType(arg.user, calls)
    /\ HasMac(arg.user) => \A i \in 0 .. 5 : at > i + 2 => HoldsMac(arg.user, i, calls)
    /\ HoldsKey(arg.user, 1 - arg.keyId, keys[<<arg.user, 1 - arg.keyId>>])
    /\ at = 9 => HoldsKey(arg.user, arg.keyId, calls)

CamInv == CamOK /\ NotCalled /\ OthersHold /\ WrittenSoFar

LEMMA HoldsParts ==
  ASSUME NEW u \in Entries
  PROVE  Holds(u) <=> /\ HoldsType(u, types[u])
                      /\ HasMac(u) => \A i \in 0 .. 5 : HoldsMac(u, i, types[u])
                      /\ \A k \in {0, 1} : HoldsKey(u, k, keys[<<u, k>>])
BY DEF Holds, HoldsType, HoldsMac, HoldsKey, Address

LEMMA PartsInCells ==
  ASSUME NEW u \in Entries
  PROVE  /\ TypeCell(u) \in Cells
         /\ HasMac(u) => \A i \in 0 .. 5 : MacCells(u, i) \subseteq Cells
         /\ \A k \in {0, 1} : KeyCells(u, k) \subseteq Cells
<1>1. u \in {v \in Users : Valid(v, 0)}
  BY DEF Entries
<1>2. {TypeCell(u)} \cup Address(u) \cup KeyCells(u, 0) \cup KeyCells(u, 1) \subseteq Cells
  BY <1>1 DEF Cells
<1>3. QED
  BY <1>2 DEF Address

(* Writing a part changes that part and no cell outside it.                *)
LEMMA WritePart ==
  ASSUME CamOK, NEW p \in SUBSET Cells, Write(p)
  PROVE  /\ cam' \in [Cells -> Nat]
         /\ \A c \in p : cam'[c] = calls
         /\ \A c \in Cells \ p : cam'[c] = cam[c]
BY DEF CamOK, Write

(* A part of another user, or another part of the same user, is kept.      *)
LEMMA OtherParts ==
  ASSUME CamOK, NEW u \in Entries, NEW p \in SUBSET Cells, Write(p)
  PROVE  /\ TypeCell(u) \notin p => cam'[TypeCell(u)] = cam[TypeCell(u)]
         /\ \A i \in 0 .. 5 : HasMac(u) /\ MacCells(u, i) \cap p = {} =>
              \A c \in MacCells(u, i) : cam'[c] = cam[c]
         /\ \A k \in {0, 1} : KeyCells(u, k) \cap p = {} =>
              \A c \in KeyCells(u, k) : cam'[c] = cam[c]
BY WritePart, PartsInCells

LEMMA TypeApart ==
  ASSUME NEW u \in Entries, NEW v \in Entries
  PROVE  /\ u # v => TypeCell(u) \notin {TypeCell(v)}
         /\ \A i \in 0 .. 5 : HasMac(u) => MacCells(u, i) \cap {TypeCell(v)} = {}
         /\ \A k \in {0, 1} : KeyCells(u, k) \cap {TypeCell(v)} = {}
<1>1. u \in Nat /\ u <= 67 /\ v \in Nat /\ v <= 67
  BY EntryRange
<1>2. TypeCell(v)[1] \in 24 .. 26
  BY <1>1, TypeCellRow
<1>3. ASSUME NEW i \in 0 .. 5, HasMac(u)
      PROVE  MacCells(u, i) \cap {TypeCell(v)} = {}
  <2>1. u < 64
    BY <1>3 DEF HasMac, MAX_USER
  <2>2. \A c \in MacCells(u, i) : c[1] \in 0 .. 23
    BY <1>1, <2>1, MacCellRow
  <2>3. QED
    BY <1>2, <2>2
<1>4. ASSUME NEW k \in {0, 1}
      PROVE  KeyCells(u, k) \cap {TypeCell(v)} = {}
  <2>1. \A c \in KeyCells(u, k) : c[1] = 27 + u * 2 + k
    BY <1>1, KeyCellRow
  <2>2. QED
    BY <1>1, <1>2, <2>1
<1>5. u # v => TypeCell(u) # TypeCell(v)
  BY <1>1, TypeCellsApart
<1>6. QED
  BY <1>3, <1>4, <1>5

LEMMA MacApart ==
  ASSUME NEW u \in Entries, NEW v \in Entries, HasMac(v), NEW j \in 0 .. 5
  PROVE  /\ TypeCell(u) \notin MacCells(v, j)
         /\ \A i \in 0 .. 5 : HasMac(u) /\ (u # v \/ i # j) =>
              MacCells(u, i) \cap MacCells(v, j) = {}
         /\ \A k \in {0, 1} : KeyCells(u, k) \cap MacCells(v, j) = {}
<1>1. u \in Nat /\ u <= 67 /\ v \in Nat /\ v < 64
  BY EntryRange DEF HasMac, MAX_USER
<1>2. \A c \in MacCells(v, j) : c[1] \in 0 .. 23
  BY <1>1, MacCellRow
<1>3. TypeCell(u)[1] \in 24 .. 26
  BY <1>1, TypeCellRow
<1>4. ASSUME NEW i \in 0 .. 5, HasMac(u), u # v \/ i # j
      PROVE  MacCells(u, i) \cap MacCells(v, j) = {}
  BY <1>1, <1>4, MacCellsApart DEF HasMac, MAX_USER
<1>5. ASSUME NEW k \in {0, 1}
      PROVE  KeyCells(u, k) \cap MacCells(v, j) = {}
  <2>1. \A c \in KeyCells(u, k) : c[1] = 27 + u * 2 + k
    BY <1>1, KeyCellRow
  <2>2. QED
    BY <1>1, <1>2, <2>1
<1>6. QED
  BY <1>2, <1>3, <1>4, <1>5

LEMMA KeyApart ==
  ASSUME NEW u \in Entries, NEW v \in Entries, NEW l \in {0, 1}
  PROVE  /\ TypeCell(u) \notin KeyCells(v, l)
         /\ \A i \in 0 .. 5 : HasMac(u) => MacCells(u, i) \cap KeyCells(v, l) = {}
         /\ \A k \in {0, 1} : u # v \/ k # l => KeyCells(u, k) \cap KeyCells(v, l) = {}
<1>1. u \in Nat /\ u <= 67 /\ v \in Nat
  BY EntryRange
<1>2. \A c \in KeyCells(v, l) : c[1] = 27 + v * 2 + l
  BY <1>1, KeyCellRow
<1>3. TypeCell(u) \notin KeyCells(v, l)
  <2>1. TypeCell(u)[1] \in 24 .. 26
    BY <1>1, TypeCellRow
  <2>2. QED
    BY <1>1, <1>2, <2>1
<1>4. ASSUME NEW i \in 0 .. 5, HasMac(u)
      PROVE  MacCells(u, i) \cap KeyCells(v, l) = {}
  <2>1. u < 64
    BY <1>4 DEF HasMac, MAX_USER
  <2>2. \A c \in MacCells(u, i) : c[1] \in 0 .. 23
    BY <1>1, <2>1, MacCellRow
  <2>3. QED
    BY <1>1, <1>2, <2>2
<1>5. \A k \in {0, 1} : u # v \/ k # l => KeyCells(u, k) \cap KeyCells(v, l) = {}
  BY <1>1, KeyCellsApart
<1>6. QED
  BY <1>3, <1>4, <1>5
-----------------------------------------------------------------------------
(* The entry of a user keeps its contents when a part it does not meet is  *)
(* written.                                                                *)
LEMMA KeptHolds ==
  ASSUME CamOK, NEW u \in Entries, Holds(u), NEW p \in SUBSET Cells, Write(p),
         types' = types, keys' = keys,
         TypeCell(u) \notin p,
         \A i \in 0 .. 5 : HasMac(u) => MacCells(u, i) \cap p = {},
         \A k \in {0, 1} : KeyCells(u, k) \cap p = {}
  PROVE  Holds(u)'
<1>1. cam'[TypeCell(u)] = types'[u]
  BY OtherParts DEF Holds
<1>2. \A c \in Address(u) : cam'[c] = types'[u]
  <2>1. CASE HasMac(u)
    <3>1. \A i \in 0 .. 5 : \A c \in MacCells(u, i) : cam'[c] = cam[c]
      BY <2>1, OtherParts
    <3>2. QED
      BY <2>1, <3>1 DEF Holds, Address
  <2>2. CASE ~HasMac(u)
    BY <2>2 DEF Address
  <2>3. QED
    BY <2>1, <2>2
<1>3. \A k \in {0, 1} : \A c \in KeyCells(u, k) : cam'[c] = keys'[<<u, k>>]
  BY OtherParts DEF Holds
<1>4. QED
  BY <1>1, <1>2, <1>3 DEF Holds

LEMMA InitCam == Init => CamInv
<1> SUFFICES ASSUME Init PROVE CamInv
  OBVIOUS
<1>1. CamOK
  BY DEF Init, CamOK
<1>2. ASSUME NEW u \in Entries PROVE Holds(u)
  <2>1. u \in Users
    BY EntryRange
  <2>2. TypeCell(u) \in Cells /\ Address(u) \subseteq Cells
        /\ \A k \in {0, 1} : KeyCells(u, k) \subseteq Cells
    BY PartsInCells DEF Address
  <2>3. QED
    BY <2>1, <2>2 DEF Holds, Init
<1>3. QED
  BY <1>1, <1>2 DEF Init, CamInv, NotCalled, OthersHold, WrittenSoFar

LEMMA CallCam ==
  ASSUME CamInv, NEW u \in Users, NEW k \in KeyIds, Call(u, k)
  PROVE  CamInv'
<1>1. at = 0 /\ calls' = calls + 1 /\ UNCHANGED <<cam, types, keys>>
  BY DEF Call
<1>2. \A v \in Entries : Holds(v)
  BY <1>1 DEF CamInv, OthersHold
<1>3. \A v \in Entries : Holds(v)'
  BY <1>1, <1>2 DEF Holds
<1>4. CASE Valid(u, k)
  <2>1. at' = 1 /\ arg' = [user |-> u, keyId |-> k] /\ roll' = roll \ Bit(u)
    BY <1>4 DEF Call, Disable
  <2>2. u \in Entries /\ k \in {0, 1}
    BY <1>4 DEF Entries, Valid, KeyIds
  <2>3. CamOK'
    BY <1>1, <2>1, <2>2 DEF CamInv, CamOK, Cells
  <2>4. NotCalled'
    BY <2>1 DEF NotCalled, Bit
  <2>5. OthersHold'
    BY <1>3 DEF OthersHold
  <2>6. HoldsKey(u, 1 - k, keys[<<u, 1 - k>>])'
    <3>1. 1 - k \in {0, 1}
      BY <2>2
    <3>2. \A c \in KeyCells(u, 1 - k) : cam'[c] = keys'[<<u, 1 - k>>]
      BY <1>3, <2>2, <3>1 DEF Holds
    <3>3. QED
      BY <3>2 DEF HoldsKey
  <2>7. WrittenSoFar'
    BY <1>1, <2>1, <2>2, <2>6 DEF WrittenSoFar, HoldsKey
  <2>8. QED
    BY <2>3, <2>4, <2>5, <2>7 DEF CamInv
<1>5. CASE ~Valid(u, k)
  <2>1. UNCHANGED <<roll, at, arg>>
    BY <1>5 DEF Call
  <2>2. CamOK'
    BY <1>1, <2>1 DEF CamInv, CamOK, Cells
  <2>3. NotCalled' /\ OthersHold' /\ WrittenSoFar'
    BY <1>1, <1>3, <2>1 DEF NotCalled, OthersHold, WrittenSoFar
  <2>4. QED
    BY <2>2, <2>3 DEF CamInv
<1>6. QED
  BY <1>4, <1>5

LEMMA SetTypeCam ==
  ASSUME CamInv, SetType
  PROVE  CamInv'
<1> DEFINE v == arg.user
           l == arg.keyId
           p == {TypeCell(v)}
<1>1. /\ at = 1 /\ Write(p) /\ at' = IF HasMac(v) THEN 2 ELSE 8
      /\ UNCHANGED <<roll, arg, calls, types, keys>>
  BY DEF SetType
<1>2. v \in Entries /\ l \in {0, 1} /\ CamOK
  BY <1>1 DEF CamInv, CamOK
<1>3. p \in SUBSET Cells
  BY <1>2, PartsInCells
<1>4. cam' \in [Cells -> Nat] /\ cam'[TypeCell(v)] = calls
  BY <1>1, <1>2, <1>3, WritePart
<1>5. CamOK'
  BY <1>1, <1>2, <1>4 DEF CamOK, Cells
<1>6. NotCalled'
  BY <1>1 DEF CamInv, NotCalled
<1>7. ASSUME NEW u \in Entries, u # v PROVE Holds(u)'
  <2>1. Holds(u)
    BY <1>7 DEF CamInv, OthersHold
  <2>2. /\ TypeCell(u) \notin p /\ \A i \in 0 .. 5 : HasMac(u) => MacCells(u, i) \cap p = {}
        /\ \A k \in {0, 1} : KeyCells(u, k) \cap p = {}
    BY <1>2, <1>7, TypeApart
  <2>3. QED
    BY <1>1, <1>2, <1>3, <2>1, <2>2, KeptHolds
<1>8. OthersHold'
  BY <1>1, <1>7 DEF OthersHold
<1>9. \A c \in KeyCells(v, 1 - l) : cam'[c] = keys[<<v, 1 - l>>]
  <2>1. 1 - l \in {0, 1}
    BY <1>2
  <2>2. KeyCells(v, 1 - l) \cap p = {}
    BY <1>2, <2>1, TypeApart
  <2>3. HoldsKey(v, 1 - l, keys[<<v, 1 - l>>])
    BY <1>1 DEF CamInv, WrittenSoFar
  <2>4. QED
    BY <1>1, <1>2, <1>3, <2>1, <2>2, <2>3, OtherParts DEF HoldsKey
<1>10. WrittenSoFar'
  <2>1. ASSUME NEW i \in 0 .. 5, HasMac(v) PROVE ~(at' > i + 2)
    BY <1>1, <2>1
  <2>2. at' # 9
    BY <1>1
  <2>3. QED
    BY <1>1, <1>4, <1>9, <2>1, <2>2 DEF WrittenSoFar, HoldsType, HoldsKey
<1>11. QED
  BY <1>5, <1>6, <1>8, <1>10 DEF CamInv

LEMMA SetMacCam ==
  ASSUME CamInv, SetMac
  PROVE  CamInv'
<1> DEFINE v == arg.user
           l == arg.keyId
           j == at - 2
           p == MacCells(v, j)
<1>1. /\ at \in 2 .. 7 /\ Write(p) /\ at' = at + 1
      /\ UNCHANGED <<roll, arg, calls, types, keys>>
  BY DEF SetMac
<1>2. v \in Entries /\ l \in {0, 1} /\ CamOK /\ HasMac(v)
  BY <1>1 DEF CamInv, CamOK
<1>3. j \in 0 .. 5
  BY <1>1
<1> HIDE DEF j
<1>4. p \in SUBSET Cells
  BY <1>2, <1>3, PartsInCells
<1>5. cam' \in [Cells -> Nat] /\ \A c \in p : cam'[c] = calls
  BY <1>1, <1>2, <1>4, WritePart
<1>6. CamOK'
  BY <1>1, <1>2, <1>5 DEF CamOK, Cells
<1>7. NotCalled'
  BY <1>1 DEF CamInv, NotCalled
<1>8. ASSUME NEW u \in Entries, u # v PROVE Holds(u)'
  <2>1. Holds(u)
    BY <1>8 DEF CamInv, OthersHold
  <2>2. /\ TypeCell(u) \notin p /\ \A i \in 0 .. 5 : HasMac(u) => MacCells(u, i) \cap p = {}
        /\ \A k \in {0, 1} : KeyCells(u, k) \cap p = {}
    BY <1>2, <1>3, <1>8, MacApart
  <2>3. QED
    BY <1>1, <1>2, <1>4, <2>1, <2>2, KeptHolds
<1>9. OthersHold'
  BY <1>1, <1>8 DEF OthersHold
<1>10. \A c \in KeyCells(v, 1 - l) : cam'[c] = keys[<<v, 1 - l>>]
  <2>1. 1 - l \in {0, 1}
    BY <1>2
  <2>2. KeyCells(v, 1 - l) \cap p = {}
    BY <1>2, <1>3, <2>1, MacApart
  <2>3. HoldsKey(v, 1 - l, keys[<<v, 1 - l>>])
    BY <1>1 DEF CamInv, WrittenSoFar
  <2>4. QED
    BY <1>1, <1>2, <1>4, <2>1, <2>2, <2>3, OtherParts DEF HoldsKey
<1>11. cam'[TypeCell(v)] = calls
  <2>1. HoldsType(v, calls)
    BY <1>1 DEF CamInv, WrittenSoFar
  <2>2. TypeCell(v) \notin p
    BY <1>2, <1>3, MacApart
  <2>3. QED
    BY <1>1, <1>2, <1>4, <2>1, <2>2, OtherParts DEF HoldsType
<1>12. ASSUME NEW i \in 0 .. 5, at' > i + 2
       PROVE  \A c \in MacCells(v, i) : cam'[c] = calls
  <2>1. CASE i = j
    BY <1>5, <2>1
  <2>2. CASE i # j
    <3>1. at > i + 2
      BY <1>1, <1>12, <2>2 DEF j
    <3>2. HoldsMac(v, i, calls)
      BY <1>1, <1>2, <3>1 DEF CamInv, WrittenSoFar
    <3>3. MacCells(v, i) \cap p = {}
      BY <1>2, <1>3, <2>2, MacApart
    <3>4. QED
      BY <1>1, <1>2, <1>4, <3>2, <3>3, OtherParts DEF HoldsMac
  <2>3. QED
    BY <2>1, <2>2
<1>13. WrittenSoFar'
  <2>1. at' # 9
    BY <1>1
  <2>2. QED
    BY <1>1, <1>10, <1>11, <1>12, <2>1 DEF WrittenSoFar, HoldsType, HoldsKey, HoldsMac
<1>14. QED
  BY <1>6, <1>7, <1>9, <1>13 DEF CamInv

LEMMA SetKeyCam ==
  ASSUME CamInv, SetKey
  PROVE  CamInv'
<1> DEFINE v == arg.user
           l == arg.keyId
           p == KeyCells(v, l)
<1>1. /\ at = 8 /\ Write(p) /\ at' = 9
      /\ UNCHANGED <<roll, arg, calls, types, keys>>
  BY DEF SetKey
<1>2. v \in Entries /\ l \in {0, 1} /\ CamOK
  BY <1>1 DEF CamInv, CamOK
<1>3. p \in SUBSET Cells
  BY <1>2, PartsInCells
<1>4. cam' \in [Cells -> Nat] /\ \A c \in p : cam'[c] = calls
  BY <1>1, <1>2, <1>3, WritePart
<1>5. CamOK'
  BY <1>1, <1>2, <1>4 DEF CamOK, Cells
<1>6. NotCalled'
  BY <1>1 DEF CamInv, NotCalled
<1>7. ASSUME NEW u \in Entries, u # v PROVE Holds(u)'
  <2>1. Holds(u)
    BY <1>7 DEF CamInv, OthersHold
  <2>2. /\ TypeCell(u) \notin p /\ \A i \in 0 .. 5 : HasMac(u) => MacCells(u, i) \cap p = {}
        /\ \A k \in {0, 1} : KeyCells(u, k) \cap p = {}
    BY <1>2, <1>7, KeyApart
  <2>3. QED
    BY <1>1, <1>2, <1>3, <2>1, <2>2, KeptHolds
<1>8. OthersHold'
  BY <1>1, <1>7 DEF OthersHold
<1>9. \A c \in KeyCells(v, 1 - l) : cam'[c] = keys[<<v, 1 - l>>]
  <2>1. 1 - l \in {0, 1} /\ 1 - l # l
    BY <1>2
  <2>2. KeyCells(v, 1 - l) \cap p = {}
    BY <1>2, <2>1, KeyApart
  <2>3. HoldsKey(v, 1 - l, keys[<<v, 1 - l>>])
    BY <1>1 DEF CamInv, WrittenSoFar
  <2>4. QED
    BY <1>1, <1>2, <1>3, <2>1, <2>2, <2>3, OtherParts DEF HoldsKey
<1>10. cam'[TypeCell(v)] = calls
  <2>1. HoldsType(v, calls)
    BY <1>1 DEF CamInv, WrittenSoFar
  <2>2. TypeCell(v) \notin p
    BY <1>2, KeyApart
  <2>3. QED
    BY <1>1, <1>2, <1>3, <2>1, <2>2, OtherParts DEF HoldsType
<1>11. ASSUME NEW i \in 0 .. 5, HasMac(v)
       PROVE  \A c \in MacCells(v, i) : cam'[c] = calls
  <2>1. HoldsMac(v, i, calls)
    BY <1>1, <1>11 DEF CamInv, WrittenSoFar
  <2>2. MacCells(v, i) \cap p = {}
    BY <1>2, <1>11, KeyApart
  <2>3. QED
    BY <1>1, <1>2, <1>3, <1>11, <2>1, <2>2, OtherParts DEF HoldsMac
<1>12. WrittenSoFar'
  BY <1>1, <1>4, <1>9, <1>10, <1>11 DEF WrittenSoFar, HoldsType, HoldsKey, HoldsMac
<1>13. QED
  BY <1>5, <1>6, <1>8, <1>12 DEF CamInv

LEMMA ReturnCam ==
  ASSUME CamInv, Return
  PROVE  CamInv'
<1> DEFINE v == arg.user
           l == arg.keyId
<1>1. /\ at = 9 /\ at' = 0 /\ UNCHANGED <<cam, arg, calls>>
      /\ types' = [types EXCEPT ![v] = calls]
      /\ keys' = [keys EXCEPT ![<<v, l>>] = calls]
  BY DEF Return
<1>2. v \in Entries /\ l \in {0, 1} /\ v \in Users /\ CamOK
  BY <1>1, EntryRange DEF CamInv, CamOK
<1>3. CamOK'
  BY <1>1, <1>2 DEF CamOK, Cells
<1>4. ASSUME NEW u \in Entries PROVE Holds(u)'
  <2>1. u \in Users
    BY EntryRange
  <2>2. CASE u # v
    <3>1. Holds(u)
      BY <2>2 DEF CamInv, OthersHold
    <3>2. types'[u] = types[u] /\ \A k \in {0, 1} : keys'[<<u, k>>] = keys[<<u, k>>]
      BY <1>1, <1>2, <2>1, <2>2 DEF CamOK
    <3>3. QED
      BY <1>1, <3>1, <3>2 DEF Holds
  <2>3. CASE u = v
    <3>1. types'[v] = calls /\ keys'[<<v, l>>] = calls
          /\ keys'[<<v, 1 - l>>] = keys[<<v, 1 - l>>]
      BY <1>1, <1>2 DEF CamOK
    <3>2. cam[TypeCell(v)] = calls
      BY <1>1 DEF CamInv, WrittenSoFar, HoldsType
    <3>3. \A c \in Address(v) : cam[c] = calls
      <4>1. HasMac(v) => \A i \in 0 .. 5 : \A c \in MacCells(v, i) : cam[c] = calls
        BY <1>1 DEF CamInv, WrittenSoFar, HoldsMac
      <4>2. QED
        BY <4>1 DEF Address
    <3>4. /\ \A c \in KeyCells(v, l) : cam[c] = calls
          /\ \A c \in KeyCells(v, 1 - l) : cam[c] = keys[<<v, 1 - l>>]
      BY <1>1 DEF CamInv, WrittenSoFar, HoldsKey
    <3>5. \A k \in {0, 1} : k = l \/ k = 1 - l
      BY <1>2
    <3>6. \A k \in {0, 1} : \A c \in KeyCells(v, k) : cam[c] = keys'[<<v, k>>]
      BY <3>1, <3>4, <3>5
    <3>7. QED
      BY <1>1, <2>3, <3>1, <3>2, <3>3, <3>6 DEF Holds
  <2>4. QED
    BY <2>2, <2>3
<1>5. NotCalled' /\ OthersHold' /\ WrittenSoFar'
  BY <1>1, <1>4 DEF NotCalled, OthersHold, WrittenSoFar
<1>6. QED
  BY <1>3, <1>5 DEF CamInv

LEMMA DisableKeyCam ==
  ASSUME CamInv, NEW u \in Users, DisableKey(u)
  PROVE  CamInv'
<1>1. at = 0 /\ UNCHANGED <<cam, at, arg, calls, types, keys>>
  BY DEF DisableKey
<1>2. CamOK'
  BY <1>1 DEF CamInv, CamOK, Cells
<1>3. OthersHold' /\ NotCalled' /\ WrittenSoFar'
  BY <1>1 DEF CamInv, OthersHold, NotCalled, WrittenSoFar, Holds
<1>4. QED
  BY <1>2, <1>3 DEF CamInv

LEMMA StepCam == CamInv /\ [Next]_vars => CamInv'
<1> SUFFICES ASSUME CamInv, [Next]_vars PROVE CamInv'
  OBVIOUS
<1>1. CASE \E u \in Users : \E k \in KeyIds : Call(u, k)
  BY <1>1, CallCam
<1>2. CASE \E u \in Users : DisableKey(u)
  BY <1>2, DisableKeyCam
<1>3. CASE SetType
  BY <1>3, SetTypeCam
<1>4. CASE SetMac
  BY <1>4, SetMacCam
<1>5. CASE SetKey
  BY <1>5, SetKeyCam
<1>6. CASE Return
  BY <1>6, ReturnCam
<1>7. CASE UNCHANGED vars
  BY <1>7 DEF vars, CamInv, CamOK, NotCalled, OthersHold, WrittenSoFar, Holds,
              HoldsType, HoldsMac, HoldsKey, Cells
<1>8. QED
  BY <1>1, <1>2, <1>3, <1>4, <1>5, <1>6, <1>7 DEF Next

LEMMA CamInvariant == Spec => []CamInv
BY InitCam, StepCam, PTL DEF Spec

(* Between calls the parts of every user hold what was written last for    *)
(* that user.                                                              *)
THEOREM NoUserTouchesAnother == Spec => []UsersApart
<1>1. CamInv => UsersApart
  BY DEF CamInv, OthersHold, UsersApart, Entries
<1>2. QED
  BY <1>1, CamInvariant, PTL

(* A user the engine may look up is complete, at every step of set_key.    *)
THEOREM LookupsAreWhole == Spec => []EngineSeesWhole
<1>1. CamInv => EngineSeesWhole
  <2> SUFFICES ASSUME CamInv, NEW u \in Entries, Bit(u) \cap roll # {} PROVE Holds(u)
    BY DEF EngineSeesWhole, Entries
  <2>1. at = 0 \/ at > 0
    BY DEF CamInv, CamOK
  <2>2. at = 0 \/ u # arg.user
    BY <2>1 DEF CamInv, NotCalled
  <2>3. QED
    BY <2>2 DEF CamInv, OthersHold
<1>2. QED
  BY <1>1, CamInvariant, PTL
-----------------------------------------------------------------------------
(* The receive path.  Its invariant says where the descriptors are, how    *)
(* many BARs of the host are under way, that a frame whose interrupt was   *)
(* seen is handled before a BAR is reported, and that head, count and tail *)
(* of the cache agree with the requests that came and were answered.       *)
RxFrames ==
  [n : 1 .. MaxFrames, kind : Kinds, bar : Rx!Bars \cup {0},
   queued : BOOLEAN, noticed : BOOLEAN]

RxDesc ==
  /\ free \in Nat /\ sent \in Nat
  /\ rxq \in Seq(RxFrames) /\ upq \in Seq(RxFrames)
  /\ sent <= Len(upq) /\ Rx!DescsKept
  /\ arrived \in 0 .. MaxFrames /\ total \in 0 .. arrived /\ overrun \in 0 .. total

RxFlags ==
  /\ rxOn \in BOOLEAN /\ upOn \in BOOLEAN
  /\ rxc \in BOOLEAN /\ txc \in BOOLEAN /\ intr \in [rxc : BOOLEAN, txc : BOOLEAN]
  /\ stage \in {"wlan", "rx", "tx", "janitor", "host"}
  /\ fw_desc \in {"available", "queued", "done"}

Out(bs) == {b \in Rx!Bars : bs[b] \in {"queued", "air", "done"}}

RxBars ==
  /\ bars \in [Rx!Bars -> {"none", "queued", "air", "done", "reported"}]
  /\ queued_bar \in Nat /\ queued_bar = Cardinality(Out(bars))

Noted(f, where, taken, n) ==
  /\ f.bar # 0 => f.kind.own
  /\ f.noticed => f.kind.own /\ where = "rx" /\ taken /\ n > 0

RxNoted ==
  /\ \A i \in 1 .. Len(rxq) : Noted(rxq[i], stage, intr.rxc, queued_bar)
  /\ Rx!NoticedBaReachesHost

Waiting(i) == ba_cache[Wrapped(ba_head_idx + i, BackReqs)]

RxCache ==
  /\ ba_cache \in [0 .. BackReqs - 1 -> 0 .. MaxFrames]
  /\ ba_head_idx \in 0 .. BackReqs - 1 /\ ba_tail_idx \in 0 .. BackReqs - 1
  /\ queued_ba \in 0 .. BackReqs /\ late \in BOOLEAN
  /\ asked \in Seq(0 .. MaxFrames) /\ answers \in Seq(0 .. MaxFrames)

RxOrder ==
  /\ ba_tail_idx = Wrapped(ba_head_idx + queued_ba, BackReqs)
  /\ Len(asked) = Len(answers) + queued_ba
  /\ \A i \in 1 .. Len(answers) : asked[i] = answers[i]
  /\ \A i \in 0 .. queued_ba - 1 : asked[Len(answers) + i + 1] = Waiting(i)

RxInv ==
  /\ RxDesc /\ RxFlags /\ RxBars /\ RxNoted
  /\ RxCache /\ (~late => RxOrder)

LEMMA RxSizes ==
  /\ RxDescs \in Nat /\ BackReqs \in Nat \ {0}
  /\ MaxFrames \in Nat /\ MaxBars \in Nat
BY RxAssumption DEF Rx!Sizes

Accepted(k) == Rx!Intact(k) \/ Rx!Leftover(k)

(* How long a BAR is and how long it may be: handle_bar accepts exactly    *)
(* the intact requests, and every leftover of one, whose length wraps to   *)
(* one that is long enough.                                                *)
LEMMA AcceptedAre ==
  ASSUME NEW k \in Kinds
  PROVE  Accepted(k) <=> k.type = "bar" /\ ~Rx!Damaged(k) /\ Rx!BarAccepted(k)
<1>1. Rx!IsKind(k) /\ UintWrap \in Nat /\ UintWrap > 2 * 8192
  BY RxAssumption DEF Rx!Sizes, Rx!FrameLen
<1>2. k.total \in Nat /\ Rx!Overhead(k.mpdu) \in 0 .. 34
  BY <1>1 DEF Rx!IsKind, Rx!Overhead, Rx!MacStatus, Rx!PhyStatus, Rx!RxHead
<1>3. k.err = {} => k.err \cap {"FCS", "PLCP"} = {}
  OBVIOUS
<1>4. CASE Rx!TooShort(k)
  <2>0. Rx!MpduLen(k) = k.total - Rx!Overhead(k.mpdu) + UintWrap
    BY <1>4 DEF Rx!MpduLen
  <2>1. Rx!MpduLen(k) \in Int /\ Rx!MpduLen(k) > 8192 /\ k.total < 34
    <3>1. UintWrap \in Nat /\ UintWrap > 2 * 8192
      BY <1>1
    <3>2. k.total < Rx!Overhead(k.mpdu) /\ k.total \in Nat /\ Rx!Overhead(k.mpdu) \in 0 .. 34
      BY <1>2, <1>4 DEF Rx!TooShort
    <3>3. k.total - Rx!Overhead(k.mpdu) + UintWrap > 8192
      BY <3>1, <3>2
    <3> QED
      BY <2>0, <3>1, <3>2, <3>3
  <2>2. Rx!Leftover(k) <=> k.type = "bar" /\ k.err = {} /\ k.compressed
    BY <1>4 DEF Rx!Leftover
  <2>3. ~Rx!Intact(k)
    BY <1>2, <1>4 DEF Rx!Intact, Rx!TooShort, Rx!BarLen, Rx!FcsLen
  <2>4. k.err = {} => ~Rx!Damaged(k)
    BY <1>2, <1>3, <2>1 DEF Rx!Damaged, Rx!FcsLen, Rx!FrameLen
  <2>5. Rx!BarAccepted(k) <=> k.err = {} /\ k.compressed
    BY <2>1 DEF Rx!BarAccepted, Rx!BarLen, Rx!FcsLen
  <2> QED
    BY <2>2, <2>3, <2>4, <2>5 DEF Accepted
<1>5. CASE ~Rx!TooShort(k)
  <2>1. Rx!MpduLen(k) = k.total - Rx!Overhead(k.mpdu)
    BY <1>2, <1>5 DEF Rx!MpduLen
  <2>2. ~Rx!Leftover(k)
    BY <1>5 DEF Rx!Leftover
  <2>3. Rx!Intact(k) <=> k.type = "bar" /\ ~Rx!Damaged(k) /\ Rx!BarAccepted(k)
    BY <1>2, <1>3, <2>1 DEF Rx!Intact, Rx!Damaged, Rx!BarAccepted, Rx!BarLen, Rx!FcsLen, Rx!FrameLen
  <2> QED
    BY <2>2, <2>3 DEF Accepted
<1> QED
  BY <1>4, <1>5

LEMMA InitRx == Rx!Init => RxInv
<1> SUFFICES ASSUME Rx!Init PROVE RxInv
  OBVIOUS
<1> USE RxSizes DEF Rx!Init
<1>1. <<>> \in Seq(RxFrames) /\ <<>> \in Seq(0 .. MaxFrames) /\ Len(<<>>) = 0
  BY EmptySeq
<1>2. RxDesc
  <2>1. /\ rxq = <<>> /\ upq = <<>> /\ free = RxDescs /\ sent = 0
        /\ arrived = 0 /\ total = 0 /\ overrun = 0
    OBVIOUS
  <2>2. /\ rxq \in Seq(RxFrames) /\ Len(rxq) = 0
        /\ upq \in Seq(RxFrames) /\ Len(upq) = 0
    BY <1>1, <2>1
  <2> HIDE DEF Rx!Init
  <2> QED
    BY <2>1, <2>2 DEF RxDesc, Rx!DescsKept
<1>3. RxFlags
  BY DEF RxFlags
<1>4. RxBars
  <2>1. Out(bars) = {}
    BY DEF Out
  <2> QED
    BY <2>1, FS_EmptySet DEF RxBars
<1>5. RxNoted
  BY <1>1 DEF RxNoted, Rx!NoticedBaReachesHost
<1>6. RxCache
  <2>1. /\ ba_cache = [n \in Rx!Slots |-> 0] /\ ba_head_idx = 0 /\ ba_tail_idx = 0
        /\ queued_ba = 0 /\ late = FALSE /\ asked = <<>> /\ answers = <<>>
    BY DEF Rx!None
  <2> HIDE DEF Rx!Init
  <2>2. ba_cache \in [0 .. BackReqs - 1 -> 0 .. MaxFrames]
    BY <2>1 DEF Rx!Slots
  <2>3. 0 \in 0 .. BackReqs - 1 /\ 0 \in 0 .. BackReqs
    OBVIOUS
  <2> QED
    BY <1>1, <2>1, <2>2, <2>3 DEF RxCache
<1>7. RxOrder
  <2>1. Wrapped(0, BackReqs) = 0
    BY WrappedIndex
  <2> QED
    BY <1>1, <2>1 DEF RxOrder
<1> QED
  BY <1>2, <1>3, <1>4, <1>5, <1>6, <1>7 DEF RxInv

(* What hardware, firmware and host do with the descriptors: none is lost. *)
LEMMA DescStep ==
  ASSUME RxInv, [Rx!Next]_rxVars
  PROVE  RxDesc'
<1> USE RxSizes
<1>i. /\ RxDesc /\ free \in Nat /\ Len(rxq) \in Nat /\ Len(upq) \in Nat
      /\ free + Len(rxq) + Len(upq) = RxDescs
  BY LenProperties DEF RxInv, RxDesc, Rx!DescsKept
<1>1. ASSUME NEW k \in Kinds, NEW b \in Rx!Bars \cup {Rx!None}, Rx!Receive(k, b)
      PROVE  RxDesc'
  <2> DEFINE f == Rx!Frame(k, b)
  <2>1. arrived < MaxFrames /\ arrived' = arrived + 1 /\ total' = total + 1
        /\ UNCHANGED <<upq, sent>>
    BY <1>1 DEF Rx!Receive
  <2>2. f \in RxFrames
    BY <1>i, <2>1 DEF Rx!Frame, RxFrames, RxDesc, Rx!None
  <2>3. \/ /\ free > 0 /\ free' = free - 1 /\ rxq' = Append(rxq, f)
           /\ overrun' = overrun
        \/ overrun' = overrun + 1 /\ free' = free /\ rxq' = rxq
    BY <1>1 DEF Rx!Receive
  <2> HIDE DEF f
  <2>4. Append(rxq, f) \in Seq(RxFrames) /\ Len(Append(rxq, f)) = Len(rxq) + 1
    BY <1>i, <2>2, Pushed DEF RxDesc
  <2> DEFINE more == Append(rxq, f)
  <2> HIDE DEF more
  <2>m. more \in Seq(RxFrames) /\ Len(more) = Len(rxq) + 1
    BY <2>4 DEF more
  <2>n. \/ free > 0 /\ free' = free - 1 /\ rxq' = more
        \/ free' = free /\ rxq' = rxq
    BY <2>3 DEF more
  <2>5. arrived' \in 0 .. MaxFrames /\ total' \in 0 .. arrived' /\ overrun' \in 0 .. total'
    BY <1>i, <2>1, <2>3 DEF RxDesc
  <2>6. /\ free' \in Nat /\ rxq' \in Seq(RxFrames)
        /\ free' + Len(rxq') = free + Len(rxq)
    <3>1. rxq \in Seq(RxFrames) /\ free \in Nat /\ Len(rxq) \in Nat
      BY <1>i DEF RxDesc
    <3>2. CASE free > 0 /\ free' = free - 1 /\ rxq' = more
      BY <2>m, <3>1, <3>2
    <3>3. CASE free' = free /\ rxq' = rxq
      BY <3>1, <3>3
    <3> QED
      BY <2>n, <3>2, <3>3
  <2>7. free' + Len(rxq') + Len(upq') = RxDescs
    BY <1>i, <2>1, <2>6
  <2> QED
    BY <1>i, <2>1, <2>5, <2>6, <2>7 DEF RxDesc, Rx!DescsKept
<1>2. CASE Rx!Upload
  BY <1>i, <1>2 DEF Rx!Upload, RxDesc, Rx!DescsKept, Rx!tally
<1>3. CASE Rx!ReadIntr
  <2> DEFINE marked(i) == IF rxc /\ rxq[i].bar # Rx!None /\ bars[rxq[i].bar] \in {"air", "done"}
                        THEN [rxq[i] EXCEPT !.noticed = TRUE] ELSE rxq[i]
  <2>1. rxq' = [i \in DOMAIN rxq |-> marked(i)]
        /\ UNCHANGED <<free, upq, sent, total, overrun, arrived>>
    BY <1>3 DEF Rx!ReadIntr, Rx!tally
  <2>2. DOMAIN rxq = 1 .. Len(rxq) /\ \A i \in 1 .. Len(rxq) : rxq[i] \in RxFrames
    BY <1>i, ElementOfSeq, LenProperties DEF RxDesc
  <2>3. \A i \in 1 .. Len(rxq) : marked(i) \in RxFrames
    BY <2>2 DEF RxFrames
  <2> HIDE DEF marked
  <2>4. rxq' \in [1 .. Len(rxq) -> RxFrames]
    BY <2>1, <2>2, <2>3
  <2>5. rxq' \in Seq(RxFrames) /\ Len(rxq') = Len(rxq)
    BY <1>i, <2>4, LenProperties
  <2> QED
    BY <1>i, <2>1, <2>5 DEF RxDesc, Rx!DescsKept
<1>4. CASE Rx!HandleRx
  <2>1. rxq # <<>> /\ rxq' = Tail(rxq)
        /\ UNCHANGED <<sent, total, overrun, arrived>>
    BY <1>4 DEF Rx!HandleRx, Rx!tally
  <2>2. /\ Head(rxq) \in RxFrames /\ Tail(rxq) \in Seq(RxFrames)
        /\ Len(rxq) >= 1 /\ Len(Tail(rxq)) = Len(rxq) - 1
    BY <1>i, <2>1, Popped DEF RxDesc
  <2>3. \/ upq' = Append(upq, Head(rxq)) /\ free' = free
        \/ upq' = upq /\ free' = free + 1
    BY <1>4 DEF Rx!HandleRx, Rx!Reclaim
  <2>4. /\ Append(upq, Head(rxq)) \in Seq(RxFrames)
        /\ Len(Append(upq, Head(rxq))) = Len(upq) + 1
    BY <1>i, <2>2, Pushed DEF RxDesc
  <2> DEFINE more == Append(upq, Head(rxq))
             less == Tail(rxq)
  <2> HIDE DEF more, less
  <2>m. /\ more \in Seq(RxFrames) /\ Len(more) = Len(upq) + 1
        /\ less \in Seq(RxFrames) /\ Len(less) = Len(rxq) - 1
    BY <2>2, <2>4 DEF more, less
  <2>n. /\ rxq' = less
        /\ \/ upq' = more /\ free' = free
           \/ upq' = upq /\ free' = free + 1
    BY <2>1, <2>3 DEF more, less
  <2>5. /\ rxq' \in Seq(RxFrames) /\ upq' \in Seq(RxFrames) /\ free' \in Nat
        /\ Len(upq') >= Len(upq)
    BY <1>i, <2>m, <2>n DEF RxDesc
  <2>6. free' + Len(rxq') + Len(upq') = RxDescs
    BY <1>i, <2>m, <2>n
  <2>7. sent' <= Len(upq')
    <3>1. Len(upq') \in {Len(upq), Len(upq) + 1} /\ sent' = sent
      BY <2>1, <2>m, <2>n
    <3>2. sent \in Nat /\ sent <= Len(upq)
      BY <1>i DEF RxDesc
    <3> QED
      BY <1>i, <3>1, <3>2
  <2> QED
    BY <1>i, <2>1, <2>5, <2>6, <2>7 DEF RxDesc, Rx!DescsKept
<1>5. CASE Rx!HandleUpload
  <2>1. /\ sent > 0 /\ upq' = Tail(upq) /\ sent' = sent - 1 /\ free' = free + 1
        /\ UNCHANGED <<rxq, total, overrun, arrived>>
    BY <1>5 DEF Rx!HandleUpload, Rx!Reclaim, Rx!tally
  <2>2. Tail(upq) \in Seq(RxFrames) /\ Len(Tail(upq)) = Len(upq) - 1
    BY <1>i, <2>1, EmptySeq, Popped DEF RxDesc
  <2> QED
    BY <1>i, <2>1, <2>2 DEF RxDesc, Rx!DescsKept
<1>6. CASE Rx!CheckOverrun
  <2>1. /\ total' = 0 /\ overrun' = 0
        /\ UNCHANGED <<free, rxq, upq, sent, arrived>>
    BY <1>6 DEF Rx!CheckOverrun, Rx!desc
  <2> QED
    BY <1>i, <2>1 DEF RxDesc, Rx!DescsKept
<1>7. CASE UNCHANGED <<free, rxq, upq, sent, arrived, total, overrun>>
  BY <1>i, <1>7 DEF RxDesc, Rx!DescsKept
<1> QED
  <2>1. ASSUME NEW b \in Rx!Bars, Rx!Air(b) \/ Rx!BarSent(b) \/ Rx!HostBar(b)
        PROVE  UNCHANGED <<free, rxq, upq, sent, arrived, total, overrun>>
    BY <2>1 DEF Rx!Air, Rx!BarSent, Rx!HostBar, Rx!desc, Rx!tally
  <2>2. ASSUME NEW s \in Filters, Rx!SetFilter(s)
        PROVE  UNCHANGED <<free, rxq, upq, sent, arrived, total, overrun>>
    BY <2>2 DEF Rx!SetFilter, Rx!desc, Rx!tally
  <2>3. ASSUME Rx!BaSent \/ Rx!RxEnd \/ Rx!TxDone \/ Rx!Janitor \/ Rx!HostEnd
                 \/ UNCHANGED rxVars
        PROVE  UNCHANGED <<free, rxq, upq, sent, arrived, total, overrun>>
    BY <2>3 DEF Rx!BaSent, Rx!RxEnd, Rx!TxDone, Rx!Janitor, Rx!HostEnd, rxVars,
                Rx!desc, Rx!tally
  <2> QED
    BY <1>1, <1>2, <1>3, <1>4, <1>5, <1>6, <1>7, <2>1, <2>2, <2>3
       DEF Rx!Next, Rx!Hardware, Rx!Firmware, Rx!Host

(* The types of the flags, of stage and of fw_desc.                        *)
LEMMA FlagStep ==
  ASSUME RxInv, [Rx!Next]_rxVars
  PROVE  RxFlags'
<1>i. RxFlags
  BY DEF RxInv
<1>1. ASSUME NEW k \in Kinds, NEW b \in Rx!Bars \cup {Rx!None}, Rx!Receive(k, b)
      PROVE  RxFlags'
  <2>1. /\ (rxOn' = (free > 1) /\ rxc' = TRUE) \/ (rxOn' = rxOn /\ rxc' = rxc)
        /\ UNCHANGED <<upOn, txc, intr, stage, fw_desc>>
    BY <1>1 DEF Rx!Receive
  <2>2. (free > 1) \in BOOLEAN
    OBVIOUS
  <2>3. rxOn' \in BOOLEAN /\ rxc' \in BOOLEAN
    BY <1>i, <2>1, <2>2, Zenon DEF RxFlags
  <2> QED
    BY <1>i, <2>1, <2>3, Zenon DEF RxFlags
<1>2. CASE Rx!Upload
  BY <1>i, <1>2 DEF RxFlags, Rx!Upload
<1>3. CASE Rx!BaSent
  BY <1>i, <1>3 DEF RxFlags, Rx!BaSent
<1>4. ASSUME NEW b \in Rx!Bars, Rx!Air(b) \/ Rx!BarSent(b) \/ Rx!HostBar(b)
      PROVE  RxFlags'
  BY <1>i, <1>4 DEF RxFlags, Rx!Air, Rx!BarSent, Rx!HostBar
<1>5. CASE Rx!ReadIntr
  BY <1>i, <1>5 DEF RxFlags, Rx!ReadIntr, Rx!Go
<1>6. CASE Rx!HandleRx
  BY <1>i, <1>6 DEF RxFlags, Rx!HandleRx, Rx!Retrigger
<1>7. CASE Rx!RxEnd
  BY <1>i, <1>7 DEF RxFlags, Rx!RxEnd, Rx!Go
<1>8. CASE Rx!TxDone
  BY <1>i, <1>8 DEF RxFlags, Rx!TxDone, Rx!Go
<1>9. CASE Rx!Janitor
  BY <1>i, <1>9 DEF RxFlags, Rx!Janitor, Rx!Go
<1>10. CASE Rx!HandleUpload
  BY <1>i, <1>10 DEF RxFlags, Rx!HandleUpload, Rx!Retrigger
<1>11. CASE Rx!HostEnd
  BY <1>i, <1>11 DEF RxFlags, Rx!HostEnd, Rx!Go
<1>12. ASSUME NEW s \in Filters, Rx!SetFilter(s)
       PROVE  RxFlags'
  BY <1>i, <1>12 DEF RxFlags, Rx!SetFilter
<1>13. CASE Rx!CheckOverrun
  BY <1>i, <1>13 DEF RxFlags, Rx!CheckOverrun, Rx!Retrigger
<1>14. CASE UNCHANGED rxVars
  BY <1>i, <1>14 DEF RxFlags, rxVars
<1> QED
  BY <1>1, <1>2, <1>3, <1>4, <1>5, <1>6, <1>7, <1>8, <1>9, <1>10, <1>11, <1>12, <1>13,
     <1>14 DEF Rx!Next, Rx!Hardware, Rx!Firmware, Rx!Host

(* RxPath counts as this module does.                                      *)
LEMMA SameCardinality ==
  ASSUME NEW S PROVE Rx!Cardinality(S) = Cardinality(S)
BY DEF Rx!Cardinality, Cardinality

LEMMA OutIsFinite == IsFiniteSet(Out(bars)) /\ IsFiniteSet(Rx!Bars)
<1>1. IsFiniteSet(Rx!Bars)
  BY RxSizes, FS_Interval DEF Rx!Bars
<1> QED
  BY <1>1, FS_Subset DEF Out

(* queued_bar counts the BARs between wlan_tx and their status: one more   *)
(* when the host sends one, and when handle_tx_completion runs, fewer by   *)
(* those that are done.                                                    *)
LEMMA BarStep ==
  ASSUME RxInv, [Rx!Next]_rxVars
  PROVE  RxBars'
<1>i. /\ RxBars /\ IsFiniteSet(Out(bars))
      /\ bars \in [Rx!Bars -> {"none", "queued", "air", "done", "reported"}]
      /\ queued_bar \in Nat /\ queued_bar = Cardinality(Out(bars))
  BY OutIsFinite DEF RxInv, RxBars
<1>1. ASSUME NEW b \in Rx!Bars, Rx!Air(b) \/ Rx!BarSent(b)
      PROVE  RxBars'
  <2>1. /\ bars[b] \in {"queued", "air"} /\ queued_bar' = queued_bar
        /\ \/ bars' = [bars EXCEPT ![b] = "air"]
           \/ bars' = [bars EXCEPT ![b] = "done"]
    BY <1>1 DEF Rx!Air, Rx!BarSent
  <2>2. bars' \in [Rx!Bars -> {"none", "queued", "air", "done", "reported"}]
    BY <1>i, <2>1
  <2>3. Out(bars)' = Out(bars)
    BY <1>i, <2>1 DEF Out
  <2> QED
    BY <1>i, <2>1, <2>2, <2>3 DEF RxBars
<1>2. ASSUME NEW b \in Rx!Bars, Rx!HostBar(b)
      PROVE  RxBars'
  <2>1. /\ bars[b] = "none" /\ queued_bar' = queued_bar + 1
        /\ bars' = [bars EXCEPT ![b] = "queued"]
    BY <1>2 DEF Rx!HostBar
  <2>2. bars' \in [Rx!Bars -> {"none", "queued", "air", "done", "reported"}]
    BY <1>i, <2>1
  <2>3. Out(bars)' = Out(bars) \cup {b} /\ b \notin Out(bars)
    BY <1>i, <2>1 DEF Out
  <2>4. Cardinality(Out(bars) \cup {b}) = Cardinality(Out(bars)) + 1
    BY <1>i, <2>3, FS_AddElement
  <2>5. queued_bar' = Cardinality(Out(bars)') /\ queued_bar' \in Nat
    <3>1. Cardinality(Out(bars)') = Cardinality(Out(bars) \cup {b})
      BY <2>3, Zenon
    <3> QED
      BY <1>i, <2>1, <2>4, <3>1
  <2> QED
    BY <2>2, <2>5 DEF RxBars
<1>3. CASE Rx!TxDone
  <2> DEFINE gone == {b \in Rx!Bars : bars[b] = "done"}
  <2>1. CASE intr.txc
    <3>1. /\ bars' = [b \in Rx!Bars |-> IF bars[b] = "done" THEN "reported" ELSE bars[b]]
          /\ queued_bar' = queued_bar - Cardinality(gone)
      <4>1. bars' = [b \in Rx!Bars |-> IF bars[b] = "done" THEN "reported" ELSE bars[b]]
        BY <1>3, <2>1 DEF Rx!TxDone
      <4>2. queued_bar' = queued_bar - Rx!Cardinality(gone)
        BY <1>3, <2>1, Zenon DEF Rx!TxDone
      <4>3. Rx!Cardinality(gone) = Cardinality(gone)
        BY SameCardinality
      <4> QED
        BY <4>1, <4>2, <4>3
    <3>2. bars' \in [Rx!Bars -> {"none", "queued", "air", "done", "reported"}]
      BY <1>i, <3>1
    <3>3. Out(bars)' = Out(bars) \ gone /\ Out(bars) \cap gone = gone
      BY <1>i, <3>1 DEF Out
    <3>4. /\ IsFiniteSet(Out(bars) \ gone)
          /\ Cardinality(Out(bars) \ gone) = Cardinality(Out(bars)) - Cardinality(gone)
      BY <1>i, <3>3, FS_Difference
    <3>5. Cardinality(Out(bars) \ gone) \in Nat
      BY <3>4, FS_CardinalityType
    <3> QED
      BY <1>i, <3>1, <3>2, <3>3, <3>4, <3>5 DEF RxBars
  <2>2. CASE ~intr.txc
    BY <1>3, <1>i, <2>2 DEF Rx!TxDone, Rx!own, RxBars, Out
  <2> QED
    BY <2>1, <2>2
<1>4. CASE UNCHANGED <<bars, queued_bar>>
  BY <1>i, <1>4 DEF RxBars, Out
<1> QED
  <2>1. ASSUME NEW k \in Kinds, NEW b \in Rx!Bars \cup {Rx!None}, Rx!Receive(k, b)
        PROVE  UNCHANGED <<bars, queued_bar>>
    BY <2>1 DEF Rx!Receive, Rx!own
  <2>2. ASSUME NEW s \in Filters, Rx!SetFilter(s)
        PROVE  UNCHANGED <<bars, queued_bar>>
    BY <2>2 DEF Rx!SetFilter, Rx!own
  <2>3. ASSUME Rx!Upload \/ Rx!BaSent \/ Rx!ReadIntr \/ Rx!HandleRx \/ Rx!RxEnd
                 \/ Rx!Janitor \/ Rx!HandleUpload \/ Rx!HostEnd \/ Rx!CheckOverrun
                 \/ UNCHANGED rxVars
        PROVE  UNCHANGED <<bars, queued_bar>>
    BY <2>3 DEF Rx!Upload, Rx!BaSent, Rx!ReadIntr, Rx!HandleRx, Rx!RxEnd, Rx!Janitor,
                Rx!HandleUpload, Rx!HostEnd, Rx!CheckOverrun, rxVars, Rx!own
  <2> QED
    BY <1>1, <1>2, <1>3, <1>4, <2>1, <2>2, <2>3
       DEF Rx!Next, Rx!Hardware, Rx!Firmware, Rx!Host

(* A frame whose interrupt handle_wlan has taken is handled before a BAR   *)
(* is reported, so that handle_rx passes it on if it is whole.             *)
LEMMA NotedPassed ==
  ASSUME NEW f \in RxFrames, f.noticed, f.kind.own, queued_bar > 0,
         f.kind.err = {}, ~Rx!Damaged(f.kind)
  PROVE  Rx!RxFilter(f.kind) = {}
<1>1. f.kind \in Kinds
  BY DEF RxFrames
<1>2. f.kind.type = "ba"
  BY <1>1, RxAssumption DEF Rx!Sizes, Rx!IsKind
<1>3. Rx!TypeFlag(f.kind.type) = {}
  BY <1>2 DEF Rx!TypeFlag
<1> QED
  BY <1>3 DEF Rx!RxFilter

(* The frames at the MAC, one by one.                                      *)
LEMMA NotedFrames ==
  ASSUME RxInv
  PROVE  /\ rxq \in Seq(RxFrames) /\ Len(rxq) \in Nat /\ DOMAIN rxq = 1 .. Len(rxq)
         /\ \A i \in 1 .. Len(rxq) : rxq[i] \in RxFrames
         /\ \A i \in 1 .. Len(rxq) : Noted(rxq[i], stage, intr.rxc, queued_bar)
BY ElementOfSeq, LenProperties DEF RxInv, RxNoted, RxDesc

LEMMA NotedReceive ==
  ASSUME RxInv, NEW k \in Kinds, NEW b \in Rx!Bars \cup {Rx!None}, Rx!Receive(k, b)
  PROVE  RxNoted'
<1> DEFINE f == Rx!Frame(k, b)
           more == Append(rxq, f)
<1>1. f.bar = b /\ f.kind = k /\ f.noticed = FALSE /\ (b # 0 => k.own)
  BY DEF Rx!Receive, Rx!Frame, Rx!None
<1>2. UNCHANGED <<stage, intr, queued_bar, dropped>> /\ (rxq' = more \/ rxq' = rxq)
  BY DEF Rx!Receive, Rx!own, Rx!hist
<1>3. f \in RxFrames
  BY RxSizes DEF Rx!Receive, Rx!Frame, RxFrames, Rx!None, RxInv, RxDesc
<1>4. Noted(f, stage, intr.rxc, queued_bar)
  BY <1>1 DEF Noted
<1> HIDE DEF f
<1>5. /\ Len(more) = Len(rxq) + 1 /\ more[Len(rxq) + 1] = f
      /\ \A i \in 1 .. Len(rxq) : more[i] = rxq[i]
  BY NotedFrames, <1>3, Pushed
<1> HIDE DEF more
<1>6. \A i \in 1 .. Len(rxq') : Noted(rxq'[i], stage, intr.rxc, queued_bar)
  <2>1. CASE rxq' = rxq
    BY <2>1, NotedFrames
  <2>2. ASSUME rxq' = more, NEW i \in 1 .. Len(more)
        PROVE  Noted(more[i], stage, intr.rxc, queued_bar)
    <3>1. i \in 1 .. Len(rxq) \/ i = Len(rxq) + 1
      BY <1>5, NotedFrames
    <3> QED
      BY <1>4, <1>5, <3>1, NotedFrames
  <2> QED
    BY <1>2, <2>1, <2>2
<1> QED
  BY <1>2, <1>6 DEF RxInv, RxNoted, Rx!NoticedBaReachesHost

(* handle_wlan takes the interrupts: BARs that are with the MAC have not   *)
(* been reported.                                                          *)
LEMMA NotedReadIntr ==
  ASSUME RxInv, Rx!ReadIntr
  PROVE  RxNoted'
<1>1. /\ stage' = "rx" /\ intr'.rxc = rxc /\ UNCHANGED <<queued_bar, dropped>>
      /\ stage = "wlan"
  BY DEF Rx!ReadIntr, Rx!Go, Rx!own, Rx!hist
<1>2. rxq' = [i \in 1 .. Len(rxq) |->
               IF rxc /\ rxq[i].bar # 0 /\ bars[rxq[i].bar] \in {"air", "done"}
               THEN [rxq[i] EXCEPT !.noticed = TRUE] ELSE rxq[i]]
  BY NotedFrames DEF Rx!ReadIntr, Rx!None
<1>3. ASSUME NEW i \in 1 .. Len(rxq)
      PROVE  Noted(rxq'[i], stage', intr'.rxc, queued_bar')
  <2>1. rxq[i] \in RxFrames /\ (rxq[i].bar # 0 => rxq[i].kind.own) /\ ~rxq[i].noticed
    BY <1>1, NotedFrames DEF Noted
  <2>2. CASE rxc /\ rxq[i].bar # 0 /\ bars[rxq[i].bar] \in {"air", "done"}
    <3>1. rxq[i].bar \in Rx!Bars
      BY <2>1, <2>2 DEF RxFrames
    <3>2. rxq[i].bar \in Out(bars)
      BY <2>2, <3>1 DEF Out
    <3>3. queued_bar > 0
      BY <3>2, OutIsFinite, FS_EmptySet DEF RxInv, RxBars
    <3>4. rxq'[i].kind = rxq[i].kind /\ rxq'[i].bar = rxq[i].bar
      BY <1>2, <2>1, <2>2 DEF RxFrames
    <3> QED
      BY <1>1, <2>1, <2>2, <3>3, <3>4 DEF Noted
  <2>3. CASE ~(rxc /\ rxq[i].bar # 0 /\ bars[rxq[i].bar] \in {"air", "done"})
    BY <1>2, <2>1, <2>3 DEF Noted
  <2> QED
    BY <2>2, <2>3
<1>4. Len(rxq') = Len(rxq)
  BY <1>2, NotedFrames
<1> QED
  BY <1>1, <1>3, <1>4 DEF RxInv, RxNoted, Rx!NoticedBaReachesHost

(* handle_rx takes the first frame, and passes it on if it was noted.      *)
LEMMA NotedHandleRx ==
  ASSUME RxInv, Rx!HandleRx
  PROVE  RxNoted'
<1> DEFINE f == Head(rxq)
           rest == Tail(rxq)
<1>1. /\ rxq # <<>> /\ rxq' = rest /\ UNCHANGED <<stage, intr, queued_bar>>
      /\ Rx!RxFilter(f.kind) \cap rx_filter = {} => dropped' = dropped
      /\ dropped' = dropped \/ dropped' = dropped \cup {f}
  BY DEF Rx!HandleRx, Rx!own
<1>2. /\ f \in RxFrames /\ f = rxq[1] /\ Len(rxq) >= 1 /\ Len(rest) = Len(rxq) - 1
      /\ \A i \in 1 .. Len(rest) : rest[i] = rxq[i + 1]
  BY <1>1, NotedFrames, Popped
<1> HIDE DEF f, rest
<1>3. \A i \in 1 .. Len(rest) : Noted(rest[i], stage, intr.rxc, queued_bar)
  <2> SUFFICES ASSUME NEW i \in 1 .. Len(rest)
               PROVE  Noted(rest[i], stage, intr.rxc, queued_bar)
    OBVIOUS
  <2>1. i + 1 \in 1 .. Len(rxq) /\ rest[i] = rxq[i + 1]
    BY <1>2, NotedFrames
  <2>2. Noted(rxq[i + 1], stage, intr.rxc, queued_bar)
    BY <2>1, NotedFrames
  <2> QED
    BY <2>1, <2>2
<1>4. Noted(f, stage, intr.rxc, queued_bar)
  BY <1>2, NotedFrames
<1>5. ASSUME f.noticed, f.kind.err = {}, ~Rx!Damaged(f.kind)
      PROVE  dropped' = dropped
  <2>1. f.kind.own /\ queued_bar > 0
    BY <1>4, <1>5 DEF Noted
  <2>2. Rx!RxFilter(f.kind) = {}
    BY <1>2, <1>5, <2>1, NotedPassed
  <2> QED
    BY <1>1, <2>2
<1>6. Rx!NoticedBaReachesHost'
  BY <1>1, <1>5 DEF RxInv, RxNoted, Rx!NoticedBaReachesHost
<1> QED
  BY <1>1, <1>3, <1>6 DEF RxNoted

(* Past handle_rx no frame is left that was noted.                         *)
LEMMA NotedRxEnd ==
  ASSUME RxInv, Rx!RxEnd
  PROVE  RxNoted'
<1>1. /\ ~(intr.rxc /\ rxq # <<>>)
      /\ UNCHANGED <<rxq, intr, queued_bar, dropped>>
  BY DEF Rx!RxEnd, Rx!own, Rx!hist, Rx!desc
<1>2. ASSUME NEW i \in 1 .. Len(rxq) PROVE Noted(rxq[i], stage', intr.rxc, queued_bar)
  <2>1. rxq # <<>>
    BY EmptySeq, NotedFrames
  <2> QED
    BY <1>1, <2>1, NotedFrames DEF Noted
<1> QED
  BY <1>1, <1>2 DEF RxInv, RxNoted, Rx!NoticedBaReachesHost

(* The steps outside handle_rx, at whose start no frame is noted.          *)
LEMMA NotedElsewhere ==
  ASSUME RxInv, stage # "rx", UNCHANGED <<rxq, dropped>>
  PROVE  RxNoted'
<1>1. \A i \in 1 .. Len(rxq) : Noted(rxq[i], stage', intr'.rxc, queued_bar')
  BY NotedFrames DEF Noted
<1> QED
  BY <1>1 DEF RxInv, RxNoted, Rx!NoticedBaReachesHost

LEMMA NotedOther ==
  ASSUME RxInv, UNCHANGED <<rxq, dropped, stage, intr, queued_bar>>
  PROVE  RxNoted'
BY DEF RxInv, RxNoted, Rx!NoticedBaReachesHost

LEMMA NotedStep ==
  ASSUME RxInv, [Rx!Next]_rxVars
  PROVE  RxNoted'
<1>1. ASSUME NEW b \in Rx!Bars, Rx!Air(b) \/ Rx!BarSent(b)
      PROVE  RxNoted'
  <2>1. UNCHANGED <<rxq, dropped, stage, intr, queued_bar>>
    BY <1>1 DEF Rx!Air, Rx!BarSent, Rx!desc, Rx!hist
  <2> QED
    BY <2>1, NotedOther
<1>2. ASSUME NEW b \in Rx!Bars, Rx!HostBar(b)
      PROVE  RxNoted'
  <2>1. stage # "rx" /\ UNCHANGED <<rxq, dropped>>
    BY <1>2 DEF Rx!HostBar, Rx!desc, Rx!hist
  <2> QED
    BY <2>1, NotedElsewhere
<1>3. ASSUME NEW s \in Filters, Rx!SetFilter(s)
      PROVE  RxNoted'
  <2>1. UNCHANGED <<rxq, dropped, stage, intr, queued_bar>>
    BY <1>3 DEF Rx!SetFilter, Rx!desc, Rx!hist, Rx!own
  <2> QED
    BY <2>1, NotedOther
<1>4. CASE Rx!Upload \/ Rx!BaSent \/ Rx!HandleUpload \/ Rx!CheckOverrun \/ UNCHANGED rxVars
  <2>1. UNCHANGED <<rxq, dropped, stage, intr, queued_bar>>
    BY <1>4 DEF Rx!Upload, Rx!BaSent, Rx!HandleUpload, Rx!CheckOverrun, rxVars, Rx!desc,
                Rx!hist, Rx!own
  <2> QED
    BY <2>1, NotedOther
<1>5. CASE Rx!TxDone \/ Rx!Janitor \/ Rx!HostEnd
  <2>1. stage # "rx" /\ UNCHANGED <<rxq, dropped>>
    BY <1>5 DEF Rx!TxDone, Rx!Janitor, Rx!HostEnd, Rx!Go, Rx!desc, Rx!hist
  <2> QED
    BY <2>1, NotedElsewhere
<1> QED
  BY <1>1, <1>2, <1>3, <1>4, <1>5, NotedReceive, NotedReadIntr, NotedHandleRx, NotedRxEnd
     DEF Rx!Next, Rx!Hardware, Rx!Firmware, Rx!Host
-----------------------------------------------------------------------------
(* The slots of the cache at an offset from its head.                      *)
LEMMA CacheFacts ==
  ASSUME RxInv
  PROVE  /\ BackReqs \in Nat \ {0}
         /\ ba_head_idx \in 0 .. BackReqs - 1 /\ ba_tail_idx \in 0 .. BackReqs - 1
         /\ queued_ba \in 0 .. BackReqs /\ Len(answers) \in Nat /\ Len(asked) \in Nat
         /\ \A a \in 0 .. BackReqs : Wrapped(ba_head_idx + a, BackReqs) \in 0 .. BackReqs - 1
BY RxSizes, WrappedInRange, LenProperties DEF RxInv, RxCache

(* handle_bar stores the request behind those that wait.                   *)
LEMMA CacheBarStep ==
  ASSUME RxInv, Rx!HandleRx,
         Accepted(Head(rxq).kind)
  PROVE  RxCache' /\ (~late' => RxOrder')
<1> DEFINE f == Head(rxq)
           m == f.n
           more == Append(asked, m)
<1>1. rxq # <<>>
  BY DEF Rx!HandleRx
<1>2. f \in RxFrames
  BY <1>1, NotedFrames, Popped
<1>3. m \in 0 .. MaxFrames /\ f.kind \in Kinds
  BY <1>2, RxSizes DEF RxFrames
<1>4. Rx!CacheBar(m)
  <2>1. f.kind.type = "bar" /\ ~Rx!Damaged(f.kind) /\ Rx!BarAccepted(f.kind)
    BY <1>3, AcceptedAre
  <2>2. QED
    BY <2>1 DEF Rx!HandleRx
<1>5. asked' = more /\ UNCHANGED <<answers, fw_desc>>
  BY DEF Rx!HandleRx, Accepted
<1> HIDE DEF f, m
<1>6. /\ ba_cache' = [ba_cache EXCEPT ![ba_tail_idx] = m]
      /\ ba_tail_idx' = Wrapped(ba_tail_idx + 1, BackReqs)
      /\ queued_ba' = IF queued_ba < BackReqs THEN queued_ba + 1 ELSE queued_ba
      /\ late' = (late \/ queued_ba = BackReqs)
      /\ ba_head_idx' = ba_head_idx
  BY <1>4 DEF Rx!CacheBar, Rx!Queued, Wrapped
<1>7. /\ RxCache /\ answers \in Seq(0 .. MaxFrames) /\ asked \in Seq(0 .. MaxFrames)
      /\ ba_cache \in [0 .. BackReqs - 1 -> 0 .. MaxFrames]
  BY DEF RxInv, RxCache
<1>8. /\ more \in Seq(0 .. MaxFrames) /\ Len(more) = Len(asked) + 1
      /\ more[Len(asked) + 1] = m /\ \A i \in 1 .. Len(asked) : more[i] = asked[i]
  BY <1>3, <1>7, Pushed
<1> HIDE DEF more
<1>9. RxCache'
  <2>1. ba_tail_idx' \in 0 .. BackReqs - 1
    <3>1. 1 \in 0 .. BackReqs
      BY CacheFacts
    <3> QED
      BY <1>6, <3>1, CacheFacts, WrappedInRange
  <2>2. late' \in BOOLEAN
    BY <1>6, Zenon
  <2>3. queued_ba' \in 0 .. BackReqs
    BY <1>6, CacheFacts
  <2>4. ba_cache' \in [0 .. BackReqs - 1 -> 0 .. MaxFrames]
    BY <1>3, <1>6, <1>7
  <2> QED
    BY <1>5, <1>6, <1>7, <1>8, <2>1, <2>2, <2>3, <2>4, CacheFacts DEF RxCache
<1>10. ASSUME ~late' PROVE RxOrder'
  <2>1. ~late /\ queued_ba # BackReqs
    BY <1>6, <1>10, Zenon
  <2>2. queued_ba \in 0 .. BackReqs - 1 /\ queued_ba' = queued_ba + 1
    BY <1>6, <2>1, CacheFacts
  <2>3. RxOrder
    BY <2>1 DEF RxInv
  <2>4. ba_tail_idx' = Wrapped(ba_head_idx' + queued_ba', BackReqs)
    <3>1. queued_ba \in 0 .. BackReqs /\ 1 \in 0 .. BackReqs /\ queued_ba + 1 <= BackReqs
      BY <2>2, CacheFacts
    <3>2. Wrapped(Wrapped(ba_head_idx + queued_ba, BackReqs) + 1, BackReqs)
            = Wrapped(ba_head_idx + (queued_ba + 1), BackReqs)
      BY <3>1, CacheFacts, WrappedSum
    <3> QED
      BY <1>6, <2>2, <2>3, <3>2 DEF RxOrder
  <2>5. Len(asked') = Len(answers') + queued_ba'
    BY <1>5, <1>8, <2>2, <2>3, CacheFacts DEF RxOrder
  <2>6. \A i \in 1 .. Len(answers') : asked'[i] = answers'[i]
    <3>1. \A i \in 1 .. Len(answers) : i \in 1 .. Len(asked)
      BY <2>2, <2>3, CacheFacts DEF RxOrder
    <3> QED
      BY <1>5, <1>8, <2>3, <3>1 DEF RxOrder
  <2>7. ASSUME NEW i \in 0 .. queued_ba' - 1
        PROVE  asked'[Len(answers') + i + 1] = Waiting(i)'
    <3>w. Waiting(i)' = ba_cache'[Wrapped(ba_head_idx + i, BackReqs)]
      BY <1>6 DEF Waiting
    <3>1. CASE i = queued_ba
      <4>1. Wrapped(ba_head_idx + i, BackReqs) = ba_tail_idx
        BY <2>3, <3>1 DEF RxOrder
      <4>2. Waiting(i)' = m
        BY <1>6, <1>7, <3>w, <4>1, CacheFacts
      <4>3. Len(answers') + i + 1 = Len(asked) + 1
        BY <1>5, <2>3, <3>1, CacheFacts DEF RxOrder
      <4> QED
        BY <1>5, <1>8, <4>2, <4>3
    <3>2. CASE i # queued_ba
      <4>1. i \in 0 .. queued_ba - 1 /\ i \in 0 .. BackReqs - 1
        BY <2>2, <3>2, CacheFacts
      <4>2. Wrapped(ba_head_idx + i, BackReqs) # ba_tail_idx
        <5>1. Wrapped(ba_head_idx + i, BackReqs) # Wrapped(ba_head_idx + queued_ba, BackReqs)
          BY <2>2, <3>2, <4>1, CacheFacts, WrappedInjective
        <5> QED
          BY <2>3, <5>1 DEF RxOrder
      <4>3. Wrapped(ba_head_idx + i, BackReqs) \in 0 .. BackReqs - 1
        BY <4>1, CacheFacts
      <4>4. Waiting(i)' = Waiting(i)
        BY <1>6, <1>7, <3>w, <4>2, <4>3 DEF Waiting
      <4>5. Len(answers) + i + 1 \in 1 .. Len(asked)
        BY <2>2, <2>3, <4>1, CacheFacts DEF RxOrder
      <4> QED
        BY <1>5, <1>8, <2>3, <4>1, <4>4, <4>5 DEF RxOrder
    <3> QED
      BY <3>1, <3>2
  <2> QED
    BY <2>4, <2>5, <2>6, <2>7 DEF RxOrder
<1> QED
  BY <1>9, <1>10

(* wlan_send_buffered_ba answers the request at the head.                  *)
LEMMA CacheAnswered ==
  ASSUME RxInv, Rx!Janitor, queued_ba > 0, fw_desc = "available"
  PROVE  RxCache' /\ (~late' => RxOrder')
<1> DEFINE m == ba_cache[ba_head_idx]
           more == Append(answers, m)
<1>1. /\ answers' = more /\ ba_head_idx' = Wrapped(ba_head_idx + 1, BackReqs)
      /\ queued_ba' = queued_ba - 1
      /\ UNCHANGED <<ba_cache, ba_tail_idx, asked, late>>
  BY DEF Rx!Janitor, Rx!NextHead, Wrapped
<1>2. /\ RxCache /\ answers \in Seq(0 .. MaxFrames) /\ asked \in Seq(0 .. MaxFrames)
      /\ ba_cache \in [0 .. BackReqs - 1 -> 0 .. MaxFrames]
  BY DEF RxInv, RxCache
<1>3. m \in 0 .. MaxFrames
  BY <1>2, CacheFacts
<1> HIDE DEF m
<1>4. /\ more \in Seq(0 .. MaxFrames) /\ Len(more) = Len(answers) + 1
      /\ more[Len(answers) + 1] = m /\ \A i \in 1 .. Len(answers) : more[i] = answers[i]
  BY <1>2, <1>3, Pushed
<1> HIDE DEF more
<1>5. 1 \in 0 .. BackReqs
  BY CacheFacts
<1>6. ba_head_idx' \in 0 .. BackReqs - 1 /\ queued_ba' \in 0 .. BackReqs
  BY <1>1, <1>5, CacheFacts
<1>7. RxCache'
  BY <1>1, <1>2, <1>4, <1>6 DEF RxCache
<1>8. ASSUME ~late' PROVE RxOrder'
  <2>1. RxOrder
    BY <1>1, <1>8 DEF RxInv
  <2>2. ASSUME NEW i \in 0 .. queued_ba - 1
        PROVE  Wrapped(ba_head_idx' + i, BackReqs) = Wrapped(ba_head_idx + (i + 1), BackReqs)
    <3>1. i \in 0 .. BackReqs /\ 1 + i <= BackReqs /\ 1 + i = i + 1
      BY CacheFacts
    <3>2. Wrapped(Wrapped(ba_head_idx + 1, BackReqs) + i, BackReqs)
            = Wrapped(ba_head_idx + (1 + i), BackReqs)
      BY <1>5, <3>1, CacheFacts, WrappedSum
    <3> QED
      BY <1>1, <3>1, <3>2
  <2>3. m = asked[Len(answers) + 1]
    <3>1. Wrapped(ba_head_idx, BackReqs) = ba_head_idx
      BY CacheFacts, WrappedIndex
    <3>2. 0 \in 0 .. queued_ba - 1 /\ Len(answers) + 0 + 1 = Len(answers) + 1
          /\ ba_head_idx + 0 = ba_head_idx
      BY CacheFacts
    <3>3. asked[Len(answers) + 0 + 1] = Waiting(0)
      BY <2>1, <3>2 DEF RxOrder
    <3> QED
      BY <3>1, <3>2, <3>3 DEF Waiting, m
  <2>4. ba_tail_idx' = Wrapped(ba_head_idx' + queued_ba', BackReqs)
    <3>1. queued_ba - 1 \in 0 .. queued_ba - 1 /\ (queued_ba - 1) + 1 = queued_ba
      BY CacheFacts
    <3>2. Wrapped(ba_head_idx' + (queued_ba - 1), BackReqs)
            = Wrapped(ba_head_idx + ((queued_ba - 1) + 1), BackReqs)
      BY <2>2, <3>1
    <3> QED
      BY <1>1, <2>1, <3>1, <3>2 DEF RxOrder
  <2>5. Len(asked') = Len(answers') + queued_ba'
    BY <1>1, <1>4, <2>1, CacheFacts DEF RxOrder
  <2>6. ASSUME NEW i \in 1 .. Len(answers') PROVE asked'[i] = answers'[i]
    <3>1. i \in 1 .. Len(answers) \/ i = Len(answers) + 1
      BY <1>1, <1>4, CacheFacts
    <3> QED
      BY <1>1, <1>4, <2>1, <2>3, <3>1 DEF RxOrder
  <2>7. ASSUME NEW i \in 0 .. queued_ba' - 1
        PROVE  asked'[Len(answers') + i + 1] = Waiting(i)'
    <3>1. i \in 0 .. queued_ba - 1 /\ i + 1 \in 0 .. queued_ba - 1
      BY <1>1, CacheFacts
    <3>2. Waiting(i)' = Waiting(i + 1)
      <4>1. Wrapped(ba_head_idx' + i, BackReqs) = Wrapped(ba_head_idx + (i + 1), BackReqs)
        BY <2>2, <3>1
      <4> QED
        BY <1>1, <4>1 DEF Waiting
    <3>3. asked[Len(answers) + (i + 1) + 1] = Waiting(i + 1)
      BY <2>1, <3>1 DEF RxOrder
    <3>4. Len(answers') + i + 1 = Len(answers) + (i + 1) + 1
      BY <1>1, <1>4, CacheFacts
    <3> QED
      BY <1>1, <3>2, <3>3, <3>4
  <2> QED
    BY <2>4, <2>5, <2>6, <2>7 DEF RxOrder
<1> QED
  BY <1>7, <1>8

(* Nothing else touches the cache or the history of the requests.          *)
LEMMA CacheStep ==
  ASSUME RxInv, [Rx!Next]_rxVars
  PROVE  RxCache' /\ (~late' => RxOrder')
<1> DEFINE same == UNCHANGED <<ba_cache, ba_head_idx, ba_tail_idx, queued_ba, asked, answers,
                               late>>
<1>1. ASSUME same PROVE RxCache' /\ (~late' => RxOrder')
  BY <1>1 DEF RxInv, RxCache, RxOrder, Waiting
<1>2. CASE Rx!HandleRx
  <2>1. CASE Accepted(Head(rxq).kind)
    BY <1>2, <2>1, CacheBarStep
  <2>2. CASE ~Accepted(Head(rxq).kind)
    <3>1. Head(rxq).kind \in Kinds
      <4>1. Head(rxq) \in RxFrames
        BY <1>2, NotedFrames, Popped DEF Rx!HandleRx
      <4> QED
        BY <4>1 DEF RxFrames
    <3>2. ~(Head(rxq).kind.type = "bar" /\ ~Rx!Damaged(Head(rxq).kind) /\ Rx!BarAccepted(Head(rxq).kind))
      BY <2>2, <3>1, AcceptedAre
    <3>3. UNCHANGED <<ba_cache, ba_head_idx, ba_tail_idx, queued_ba, late>>
      BY <1>2, <3>2 DEF Rx!HandleRx, Rx!cache
    <3>4. UNCHANGED <<asked, answers>>
      BY <1>2, <2>2 DEF Rx!HandleRx, Accepted
    <3>5. same
      BY <3>3, <3>4
    <3> QED
      BY <1>1, <3>5
  <2> QED
    BY <2>1, <2>2
<1>3. CASE Rx!Janitor
  <2>1. CASE queued_ba > 0 /\ fw_desc = "available"
    BY <1>3, <2>1, CacheAnswered
  <2>2. CASE ~(queued_ba > 0 /\ fw_desc = "available")
    <3>1. same
      BY <1>3, <2>2 DEF Rx!Janitor
    <3> QED
      BY <1>1, <3>1
  <2> QED
    BY <2>1, <2>2
<1> HIDE DEF same
<1>4. ASSUME NEW k \in Kinds, NEW b \in Rx!Bars \cup {Rx!None}, Rx!Receive(k, b)
      PROVE  same
  BY <1>4 DEF Rx!Receive, Rx!cache, Rx!hist, same
<1>5. ASSUME NEW b \in Rx!Bars, Rx!Air(b) \/ Rx!BarSent(b) \/ Rx!HostBar(b)
      PROVE  same
  BY <1>5 DEF Rx!Air, Rx!BarSent, Rx!HostBar, Rx!cache, Rx!hist, same
<1>6. ASSUME NEW s \in Filters, Rx!SetFilter(s)
      PROVE  same
  BY <1>6 DEF Rx!SetFilter, Rx!cache, Rx!hist, same
<1>7. CASE Rx!Upload \/ Rx!BaSent \/ Rx!HandleUpload \/ Rx!CheckOverrun \/ Rx!ReadIntr
             \/ Rx!RxEnd \/ Rx!TxDone \/ Rx!HostEnd \/ UNCHANGED rxVars
  <2>1. same
    BY <1>7 DEF Rx!Upload, Rx!BaSent, Rx!HandleUpload, Rx!CheckOverrun, Rx!ReadIntr,
                Rx!RxEnd, Rx!TxDone, Rx!HostEnd, rxVars, Rx!cache, Rx!hist, same
  <2> QED
    BY <1>1, <2>1
<1> QED
  BY <1>1, <1>2, <1>3, <1>4, <1>5, <1>6, <1>7
     DEF Rx!Next, Rx!Hardware, Rx!Firmware, Rx!Host

LEMMA StepRx == RxInv /\ [Rx!Next]_rxVars => RxInv'
BY DescStep, FlagStep, BarStep, NotedStep, CacheStep DEF RxInv

(* The receive path's invariant, wherever it is one of the parts that may  *)
(* move.                                                                   *)
LEMMA RxCorrect == AllSpec => []RxInv
<1>1. AllInit => RxInv
  BY InitRx DEF AllInit
<1>2. RxInv /\ [AllNext]_<<part, camVars, magicVars, usbVars, rxVars>> => RxInv'
  <2> SUFFICES ASSUME RxInv, [AllNext]_<<part, camVars, magicVars, usbVars, rxVars>> PROVE RxInv'
    OBVIOUS
  <2>1. [Rx!Next]_rxVars
    BY DEF AllNext, CamStep, MagicStep, UsbStep, RxStep
  <2> QED
    BY <2>1, StepRx
<1> QED
  BY <1>1, <1>2, PTL DEF AllSpec

(* The indices of the cache of BlockAck requests keep their ranges, the    *)
(* MAC's count of overruns never exceeds that of frames, and queued_bar is *)
(* the number of BARs that wlan_tx has sent to the MAC and that have no    *)
(* status yet, whatever order their completions come in.                   *)
THEOREM RxTypeCorrect == AllSpec => []Rx!TypeOK
<1>1. ASSUME RxInv PROVE Rx!TypeOK
  <2> USE DEF RxInv
  <2>1. free \in 0 .. RxDescs /\ sent \in 0 .. Len(upq)
    <3>1. Len(rxq) \in Nat /\ Len(upq) \in Nat
      BY <1>1, LenProperties DEF RxDesc
    <3>2. free \in Nat /\ sent \in Nat /\ sent <= Len(upq)
          /\ free + Len(rxq) + Len(upq) = RxDescs
      BY <1>1 DEF RxDesc, Rx!DescsKept
    <3> QED
      BY <3>1, <3>2, RxSizes
  <2>2. ba_cache \in [Rx!Slots -> 0 .. MaxFrames]
        /\ ba_head_idx \in Rx!Slots /\ ba_tail_idx \in Rx!Slots /\ queued_ba \in 0 .. BackReqs
    BY <1>1 DEF RxCache, Rx!Slots
  <2>3. queued_bar = Rx!Cardinality({b \in Rx!Bars : bars[b] \in {"queued", "air", "done"}})
    BY <1>1, SameCardinality, Zenon DEF RxBars, Out
  <2>4. overrun <= total /\ total <= MaxFrames
    BY <1>1, RxSizes DEF RxDesc
  <2>5. bars \in [Rx!Bars -> {"none", "queued", "air", "done", "reported"}]
    BY <1>1 DEF RxBars
  <2> QED
    BY <1>1, <2>1, <2>2, <2>3, <2>4, <2>5, Zenon DEF RxFlags, Rx!TypeOK
<1> QED
  BY <1>1, RxCorrect, PTL

(* Until the cache overflows, the requests that came intact and for us are *)
(* answered once each and in the order they came in, and with them nothing *)
(* but frames shorter than what the MAC adds, in a buffer that still holds *)
(* an earlier request; and the MAC, the USB DMA and the empty descriptors  *)
(* together have all of the receive queue                                  *)
(* (handle_bar, wlan_send_buffered_ba, handle_rx, handle_upload), for      *)
(* every size of cache and queue and every mix of frames.                  *)
THEOREM RequestsAnswered == AllSpec => []AnsweredInOrder
<1>1. ASSUME RxInv PROVE Rx!DescsKept
  BY <1>1 DEF RxInv, RxDesc
<1>2. ASSUME RxInv, ~late
      PROVE  asked = answers \o [i \in 1 .. queued_ba |->
                                   ba_cache[(ba_head_idx + i - 1) % BackReqs]]
  <2> DEFINE rest == [i \in 1 .. queued_ba |-> ba_cache[(ba_head_idx + i - 1) % BackReqs]]
             Ids == 0 .. MaxFrames
  <2>1. RxOrder /\ RxCache
    BY <1>2 DEF RxInv
  <2>2. \A i \in 1 .. queued_ba : rest[i] = Waiting(i - 1)
    <3> SUFFICES ASSUME NEW i \in 1 .. queued_ba PROVE rest[i] = Waiting(i - 1)
      OBVIOUS
    <3>1. ba_head_idx + i - 1 = ba_head_idx + (i - 1)
      BY <1>2, CacheFacts
    <3> QED
      BY <3>1 DEF Waiting, Wrapped
  <2>3. ASSUME NEW i \in 1 .. queued_ba PROVE Waiting(i - 1) \in Ids
    <3>1. i - 1 \in 0 .. BackReqs
      BY <1>2, CacheFacts
    <3>2. Wrapped(ba_head_idx + (i - 1), BackReqs) \in 0 .. BackReqs - 1
      BY <1>2, <3>1, CacheFacts
    <3> QED
      BY <2>1, <3>2 DEF RxCache, Waiting
  <2>4. rest \in Seq(Ids) /\ Len(rest) = queued_ba
    <3>1. rest \in [1 .. queued_ba -> Ids]
      BY <2>2, <2>3
    <3>2. queued_ba \in Nat
      BY <1>2, CacheFacts
    <3> HIDE DEF rest, Ids
    <3>3. rest \in Seq(Ids)
      BY <3>1, <3>2
    <3> QED
      BY <3>1, <3>2, <3>3, LenProperties
  <2> HIDE DEF rest
  <2>5. /\ answers \o rest \in Seq(Ids)
        /\ Len(answers \o rest) = Len(answers) + queued_ba
        /\ \A i \in 1 .. Len(answers) : (answers \o rest)[i] = answers[i]
        /\ \A i \in Len(answers) + 1 .. Len(answers) + queued_ba :
             (answers \o rest)[i] = rest[i - Len(answers)]
    BY <2>1, <2>4, Joined DEF RxCache
  <2>6. ASSUME NEW i \in 1 .. Len(asked) PROVE asked[i] = (answers \o rest)[i]
    <3>1. CASE i \in 1 .. Len(answers)
      BY <2>1, <2>5, <3>1 DEF RxOrder
    <3>2. CASE i \in Len(answers) + 1 .. Len(answers) + queued_ba
      <4> DEFINE j == i - Len(answers)
      <4>1. j \in 1 .. queued_ba /\ j - 1 \in 0 .. queued_ba - 1
            /\ Len(answers) + (j - 1) + 1 = i
        BY <1>2, <3>2, CacheFacts
      <4>2. asked[Len(answers) + (j - 1) + 1] = Waiting(j - 1)
        BY <2>1, <4>1 DEF RxOrder
      <4>3. (answers \o rest)[i] = rest[j]
        BY <2>5, <3>2
      <4>4. rest[j] = Waiting(j - 1)
        BY <2>2, <4>1
      <4>5. asked[i] = Waiting(j - 1)
        BY <4>1, <4>2
      <4> HIDE DEF j
      <4> QED
        BY <4>3, <4>4, <4>5
    <3>3. i \in 1 .. Len(answers) \/ i \in Len(answers) + 1 .. Len(answers) + queued_ba
      BY <1>2, <2>1, CacheFacts DEF RxOrder
    <3> QED
      BY <3>1, <3>2, <3>3
  <2>7. asked \in Seq(Ids) /\ Len(asked) = Len(answers \o rest)
    BY <2>1, <2>5 DEF RxOrder, RxCache
  <2>8. asked = answers \o rest
    BY <2>5, <2>6, <2>7, SeqEqual
  <2> QED
    BY <2>8 DEF rest
<1>3. RxInv => AnsweredInOrder
  BY <1>1, <1>2 DEF AnsweredInOrder, Rx!AnsweredInOrder
<1> QED
  BY <1>3, RxCorrect, PTL

(* A BlockAck whose interrupt handle_wlan took before it reported the      *)
(* host's BAR is never filtered away: handle_rx empties the queue before   *)
(* handle_tx_completion may count queued_bar down (wlan.c:956-959), for    *)
(* every number of BARs and every filter the host sets.                    *)
THEOREM NoticedBaPassed == AllSpec => []NoticedBaReachesHost
<1>1. RxInv => NoticedBaReachesHost
  BY DEF RxInv, RxNoted, NoticedBaReachesHost
<1> QED
  BY <1>1, RxCorrect, PTL
-----------------------------------------------------------------------------
(* The life on the bus.  The watchdog, the magic word behind it, the two   *)
(* remote wakeup bits and the reason to be awake depend on the place where *)
(* the main loop is, so the invariant names the places: a stopped CPU      *)
(* stands before the end of usb_handler, a sleeping host sends no request. *)
IsCore(c) ==
  /\ c = [hs |-> c.hs, addr |-> c.addr, conf |-> c.conf, wakeup |-> c.wakeup,
          outInt |-> c.outInt, toggles |-> c.toggles, regs |-> c.regs]
  /\ c.wakeup \in BOOLEAN

IsFw(f) ==
  f = [config |-> f.config, alt |-> f.alt, reboot |-> f.reboot, wol |-> f.wol,
       feature |-> f.feature]

UsbTypes ==
  /\ phase \in {"boot", "run", "stopped", "hung"}
  /\ pc \in {"fw", "host", "usb", "resume"}
  /\ suspend \in {"awake", "suspended"}
  /\ IsCore(core) /\ IsFw(fwusb)
  /\ wdog \in [armed : BOOLEAN, magic : {"none", "run", "suspend"}, warm : Nat]
  /\ crashes \in Nat

UsbPlaces ==
  /\ phase = "stopped" => pc = "resume" /\ suspend = "suspended"
  /\ suspend = "suspended" \/ "suspend" \in src7 => req = Usb!NoReq

WakeupBits == WOL /\ phase # "boot" => (core.wakeup <=> 1 \in fwusb.feature)

Reason ==
  phase = "run" /\ suspend = "suspended" =>
    \/ core.wakeup /\ fwusb.wol # {}
    \/ src7 \cap {"resume", "reset"} # {}

Watched ==
  /\ Usb!WatchdogFollowsLife
  /\ Usb!WarmStartMeansBite
  /\ phase = "boot" => wdog.magic # "run"

UsbInv == UsbTypes /\ UsbPlaces /\ WakeupBits /\ Reason /\ Watched

LEMMA InitUsb == Usb!Init => UsbInv
<1> SUFFICES ASSUME Usb!Init PROVE UsbInv
  OBVIOUS
<1> USE DEF Usb!Init
<1>1. UsbTypes
  <2>1. IsCore(core)
    BY DEF IsCore, Usb!RomCore
  <2>2. IsFw(fwusb)
    BY DEF IsFw, Usb!FreshFw
  <2>3. wdog \in [armed : BOOLEAN, magic : {"none", "run", "suspend"}, warm : Nat]
    OBVIOUS
  <2>4. QED
    BY <2>1, <2>2, <2>3 DEF UsbTypes
<1>2. Watched
  BY DEF Watched, Usb!WatchdogFollowsLife, Usb!WarmStartMeansBite
<1>3. UsbPlaces /\ WakeupBits /\ Reason
  BY DEF UsbPlaces, WakeupBits, Reason
<1>4. QED
  BY <1>1, <1>2, <1>3 DEF UsbInv

(* What a request does to the two records.                                 *)
Kept(c, f, c2, f2) ==
  /\ IsCore(c2) /\ IsFw(f2)
  /\ f2.wol = f.wol
  /\ WOL /\ (c.wakeup <=> 1 \in f.feature) => (c2.wakeup <=> 1 \in f2.feature)

LEMMA KeptSame ==
  ASSUME IsCore(core), IsFw(fwusb), UNCHANGED <<core, fwusb>>
  PROVE  Kept(core, fwusb, core', fwusb')
BY DEF Kept

LEMMA SetupKeeps ==
  ASSUME IsCore(core), IsFw(fwusb), NEW r, Usb!Setup(r)
  PROVE  Kept(core, fwusb, core', fwusb')
<1> USE DEF Usb!ctl
<1>1. CASE Usb!Refuse
  BY <1>1, KeptSame DEF Usb!Refuse
<1>2. ASSUME NEW d, Usb!Send(d) PROVE Kept(core, fwusb, core', fwusb')
  BY <1>2, KeptSame DEF Usb!Send
<1>3. CASE Usb!GetStatus(r)
  BY <1>1, <1>2, <1>3 DEF Usb!GetStatus
<1>4. CASE Usb!GetDescriptor(r) \/ Usb!GetConfiguration(r) \/ Usb!GetInterface(r)
  BY <1>1, <1>2, <1>4 DEF Usb!GetDescriptor, Usb!GetConfiguration, Usb!GetInterface
<1>5. CASE Usb!SetAddress(r)
  <2>1. CASE Usb!Refuse
    BY <1>1, <2>1
  <2>2. CASE core' = [core EXCEPT !.addr = r.value, !.conf = FALSE] /\ UNCHANGED fwusb
    BY <2>2 DEF Kept, IsCore, IsFw
  <2>3. QED
    BY <1>5, <2>1, <2>2 DEF Usb!SetAddress
<1>6. ASSUME NEW c, IsCore(c)
      PROVE  /\ IsCore(Usb!Reconfigured(c))
             /\ Usb!Reconfigured(c).wakeup = c.wakeup
  <2> DEFINE x == Usb!FifoCfg(c.hs, c.regs)
  <2>1. Usb!Reconfigured(c) = [c EXCEPT !.regs = x, !.toggles = {}, !.outInt = TRUE]
    BY DEF Usb!Reconfigured
  <2> HIDE DEF x
  <2>2. QED
    BY <1>6, <2>1 DEF IsCore
<1>7. CASE Usb!SetConfiguration(r)
  <2>1. CASE Usb!Refuse
    BY <1>1, <2>1
  <2>2. CASE /\ core' = [Usb!Reconfigured(core) EXCEPT !.conf = TRUE]
             /\ fwusb' = [fwusb EXCEPT !.config = r.value]
    <3>1. IsCore(core') /\ core'.wakeup = core.wakeup
      <4> DEFINE c == Usb!Reconfigured(core)
      <4>1. IsCore(c) /\ c.wakeup = core.wakeup
        BY <1>6
      <4> HIDE DEF c
      <4>2. core' = [c EXCEPT !.conf = TRUE]
        BY <2>2 DEF c
      <4>3. QED
        BY <4>1, <4>2 DEF IsCore
    <3>2. IsFw(fwusb') /\ fwusb'.wol = fwusb.wol /\ fwusb'.feature = fwusb.feature
      BY <2>2 DEF IsFw
    <3>3. QED
      BY <3>1, <3>2 DEF Kept
  <2>3. CASE core' = [core EXCEPT !.conf = @ /\ r.value # 0] /\ UNCHANGED fwusb
    BY <2>3 DEF Kept, IsCore, IsFw
  <2>4. QED
    BY <1>7, <2>1, <2>2, <2>3 DEF Usb!SetConfiguration
<1>8. CASE Usb!SetInterface(r)
  <2>1. CASE Usb!Refuse
    BY <1>1, <2>1
  <2>2. CASE core' = Usb!Reconfigured(core) /\ fwusb' = [fwusb EXCEPT !.alt = 0]
    <3>1. IsCore(core') /\ core'.wakeup = core.wakeup
      BY <1>6, <2>2
    <3>2. IsFw(fwusb') /\ fwusb'.wol = fwusb.wol /\ fwusb'.feature = fwusb.feature
      BY <2>2 DEF IsFw
    <3>3. QED
      BY <3>1, <3>2 DEF Kept
  <2>3. QED
    BY <1>8, <2>1, <2>2 DEF Usb!SetInterface
<1>9. CASE Usb!ManipulateFeature(r)
  <2>1. CASE Usb!Refuse
    BY <1>1, <2>1
  <2>2. CASE /\ fwusb' = [fwusb EXCEPT !.feature = Usb!NewFeatures(r)]
             /\ core' = [core EXCEPT !.wakeup = Usb!NewWakeup(r)]
    <3>1. Usb!NewWakeup(r) \in BOOLEAN
      BY DEF Usb!NewWakeup, IsCore
    <3>2. IsCore(core') /\ core'.wakeup = Usb!NewWakeup(r)
      BY <2>2, <3>1 DEF IsCore
    <3>3. IsFw(fwusb') /\ fwusb'.wol = fwusb.wol /\ fwusb'.feature = Usb!NewFeatures(r)
      BY <2>2 DEF IsFw
    <3>4. CASE 1 \in Usb!Bits(r.value) /\ WOL
      <4>1. Usb!NewWakeup(r) <=> r.req # "clear_feature"
        BY <3>4 DEF Usb!NewWakeup, Usb!RemoteWakeup
      <4>2. 1 \in Usb!NewFeatures(r) <=> r.req # "clear_feature"
        BY <3>4 DEF Usb!NewFeatures
      <4>3. QED
        BY <3>2, <3>3, <4>1, <4>2 DEF Kept
    <3>5. CASE 1 \notin Usb!Bits(r.value) /\ WOL
      <4>1. Usb!NewWakeup(r) = core.wakeup
        BY <3>5 DEF Usb!NewWakeup, Usb!RemoteWakeup
      <4>2. 1 \in Usb!NewFeatures(r) <=> 1 \in fwusb.feature
        BY <3>5 DEF Usb!NewFeatures
      <4>3. QED
        BY <3>2, <3>3, <4>1, <4>2 DEF Kept
    <3>6. QED
      BY <3>2, <3>3, <3>4, <3>5 DEF Kept
  <2>3. QED
    BY <1>9, <2>1, <2>2 DEF Usb!ManipulateFeature
<1>10. QED
  BY <1>1, <1>3, <1>4, <1>5, <1>7, <1>8, <1>9 DEF Usb!Setup

LEMMA ControlKeeps ==
  ASSUME IsCore(core), IsFw(fwusb), Usb!Control
  PROVE  Kept(core, fwusb, core', fwusb') /\ req' = Usb!NoReq
BY KeptSame, SetupKeeps DEF Usb!Control

LEMMA RebootLeads ==
  ASSUME UsbInv, Usb!Reboot, suspend' \in {"awake", "suspended"}, UNCHANGED <<fwusb, crashes>>
  PROVE  UsbInv'
<1> USE DEF Usb!Reboot, UsbInv
<1>1. IsCore(core')
  BY DEF Usb!RomCore, IsCore
<1>2. /\ wdog' \in [armed : BOOLEAN, magic : {"none", "run", "suspend"}, warm : Nat]
      /\ wdog'.armed = FALSE /\ wdog'.magic = "suspend" /\ wdog'.warm = wdog.warm
  BY DEF UsbTypes, Usb!RebootWdog, Usb!DisableWatchdog
<1>3. UsbTypes'
  BY <1>1, <1>2 DEF UsbTypes
<1>4. (UsbPlaces /\ WakeupBits /\ Reason)'
  BY DEF UsbPlaces, WakeupBits, Reason
<1>5. Watched'
  BY <1>2 DEF Watched, Usb!WatchdogFollowsLife, Usb!WarmStartMeansBite
<1>6. QED
  BY <1>3, <1>4, <1>5

(* start(): the same for the first start and for the one after a bite, but *)
(* that only a bite finds the magic word of a run.                         *)
LEMMA StartLeads ==
  ASSUME UsbInv, Usb!Start, IsCore(core'), core'.wakeup <=> core.wakeup \/ WOL,
         crashes' \in Nat, crashes' >= crashes, wdog.magic = "run" => crashes' = crashes + 1
  PROVE  UsbInv'
<1> USE DEF Usb!Start, UsbInv
<1>1. /\ wdog' \in [armed : BOOLEAN, magic : {"none", "run", "suspend"}, warm : Nat]
      /\ wdog'.armed = TRUE /\ wdog'.magic = "run"
      /\ wdog'.warm = wdog.warm + (IF wdog.magic = "run" THEN 1 ELSE 0)
  BY DEF UsbTypes, Usb!StartWdog
<1>2. IsFw(fwusb') /\ (WOL => 1 \in fwusb'.feature)
  BY DEF Usb!FreshFw, Usb!RemoteWakeup, IsFw
<1>3. UsbTypes'
  BY <1>1, <1>2 DEF UsbTypes
<1>4. UsbPlaces' /\ Reason'
  BY DEF UsbPlaces, Reason
<1>5. WakeupBits'
  BY <1>2 DEF WakeupBits
<1>6. Watched'
  <2>1. wdog.warm \in Nat /\ wdog.warm <= crashes /\ crashes \in Nat
    BY DEF Watched, Usb!WarmStartMeansBite, UsbTypes
  <2>2. wdog'.warm <= crashes'
    BY <1>1, <2>1
  <2>3. QED
    BY <1>1, <2>2 DEF Watched, Usb!WatchdogFollowsLife, Usb!WarmStartMeansBite
<1>7. QED
  BY <1>3, <1>4, <1>5, <1>6

LEMMA StepHandleUsb ==
  ASSUME UsbInv, Usb!HandleUsb
  PROVE  UsbInv'
<1> USE DEF UsbInv
<1>1. CASE "reset" \in src7 /\ Usb!Reboot /\ UNCHANGED <<fwusb, suspend>>
  BY <1>1, RebootLeads DEF Usb!HandleUsb, UsbTypes
<1>2. CASE "reset" \notin src7 /\ Usb!Control
  <2>1. /\ phase = "run" /\ pc = "usb" /\ pc' = "resume" /\ crashes' = crashes
        /\ src7' = src7 \ {"suspend"}
    BY <1>2 DEF Usb!HandleUsb, Usb!Reboot
  <2>2. Kept(core, fwusb, core', fwusb') /\ req' = Usb!NoReq
    BY <1>2, ControlKeeps DEF UsbTypes
  <2>3. WOL \in BOOLEAN
    BY UsbAssumption
  <2>4. WakeupBits'
    BY <2>1, <2>2 DEF WakeupBits, Kept
  <2>5. CASE "suspend" \in src7
    <3>1. /\ suspend' = "suspended"
          /\ phase' = IF Usb!StaysAwake(fwusb') THEN "run" ELSE "stopped"
          /\ wdog' = IF Usb!StaysAwake(fwusb') THEN wdog ELSE Usb!DisableWatchdog(wdog)
      BY <1>2, <2>5 DEF Usb!HandleUsb
    <3>2. wdog.warm \in Nat /\ wdog.warm <= crashes
      BY DEF Watched, Usb!WarmStartMeansBite, UsbTypes
    <3>3. CASE Usb!StaysAwake(fwusb')
      <4>1. phase' = "run" /\ wdog' = wdog
        BY <3>1, <3>3
      <4>2. core'.wakeup /\ fwusb'.wol # {}
        BY <2>4, <3>3, <4>1 DEF Usb!StaysAwake, Usb!RemoteWakeup, WakeupBits
      <4>3. UsbTypes' /\ UsbPlaces' /\ Reason'
        BY <2>1, <2>2, <3>1, <4>1, <4>2 DEF UsbTypes, UsbPlaces, Reason, Kept
      <4>4. Watched'
        BY <2>1, <3>1, <3>2, <4>1
           DEF Watched, Usb!WatchdogFollowsLife, Usb!WarmStartMeansBite
      <4>5. QED
        BY <2>4, <4>3, <4>4
    <3>4. CASE ~Usb!StaysAwake(fwusb')
      <4>1. phase' = "stopped"
        BY <3>1, <3>4
      <4>2. /\ wdog' \in [armed : BOOLEAN, magic : {"none", "run", "suspend"}, warm : Nat]
            /\ wdog'.armed = FALSE /\ wdog'.magic = "suspend" /\ wdog'.warm = wdog.warm
        BY <3>1, <3>4 DEF Usb!DisableWatchdog, UsbTypes
      <4>3. UsbTypes' /\ UsbPlaces' /\ Reason'
        BY <2>1, <2>2, <3>1, <4>1, <4>2 DEF UsbTypes, UsbPlaces, Reason, Kept
      <4>4. Watched'
        BY <2>1, <3>1, <3>2, <4>1, <4>2
           DEF Watched, Usb!WatchdogFollowsLife, Usb!WarmStartMeansBite
      <4>5. QED
        BY <2>4, <4>3, <4>4
    <3>5. QED
      BY <3>3, <3>4
  <2>6. CASE "suspend" \notin src7
    <3>1. UNCHANGED <<suspend, phase, wdog>>
      BY <1>2, <2>6 DEF Usb!HandleUsb
    <3>2. UsbTypes' /\ UsbPlaces'
      BY <2>1, <2>2, <3>1 DEF UsbTypes, UsbPlaces, Kept
    <3>3. Reason'
      <4> SUFFICES ASSUME suspend = "suspended" PROVE Reason'
        BY <3>1 DEF Reason
      <4>1. UNCHANGED <<core, fwusb>>
        BY <1>2 DEF Usb!Control, UsbPlaces
      <4>2. QED
        BY <2>1, <3>1, <4>1 DEF Reason
    <3>4. Watched'
      BY <2>1, <3>1 DEF Watched, Usb!WatchdogFollowsLife, Usb!WarmStartMeansBite
    <3>5. QED
      BY <2>4, <3>2, <3>3, <3>4
  <2>7. QED
    BY <2>5, <2>6
<1>3. QED
  BY <1>1, <1>2 DEF Usb!HandleUsb

(* The steps that leave the watchdog and the place of the CPU alone.       *)
LEMMA WatchedSame ==
  ASSUME UsbInv, UNCHANGED <<phase, pc, suspend, wdog, crashes>>
  PROVE  Watched'
BY DEF UsbInv, Watched, Usb!WatchdogFollowsLife, Usb!WarmStartMeansBite

LEMMA StepUsb == UsbInv /\ [Usb!Next]_usbVars => UsbInv'
<1> SUFFICES ASSUME UsbInv, [Usb!Next]_usbVars PROVE UsbInv'
  OBVIOUS
<1> USE DEF UsbInv
<1>1. CASE Usb!Upload
  <2>1. IsCore(core') /\ (core'.wakeup <=> core.wakeup \/ WOL)
    <3> DEFINE x == Usb!PtaInit(core.hs, core.regs)
    <3>1. core' = [core EXCEPT !.regs = x, !.wakeup = @ \/ WOL]
      BY <1>1 DEF Usb!Upload, Usb!StartCore
    <3> HIDE DEF x
    <3>2. IsCore(core) /\ WOL \in BOOLEAN
      BY UsbAssumption DEF UsbTypes
    <3>3. QED
      BY <3>1, <3>2 DEF IsCore
  <2>2. crashes' \in Nat /\ crashes' >= crashes /\ wdog.magic # "run"
    BY <1>1 DEF Usb!Upload, UsbTypes, Watched
  <2>3. QED
    BY <1>1, <2>1, <2>2, StartLeads DEF Usb!Upload
<1>2. CASE Usb!Bite
  <2>1. IsCore(core') /\ (core'.wakeup <=> core.wakeup \/ WOL)
    <3> DEFINE x == Usb!PtaInit(core.hs, core.regs)
    <3>1. core' = [[core EXCEPT !.regs = x, !.wakeup = @ \/ WOL] EXCEPT !.outInt = TRUE]
      BY <1>2 DEF Usb!Bite, Usb!StartCore
    <3> HIDE DEF x
    <3>2. IsCore(core) /\ WOL \in BOOLEAN
      BY UsbAssumption DEF UsbTypes
    <3>3. QED
      BY <3>1, <3>2 DEF IsCore
  <2>2. crashes' = crashes + 1 /\ crashes' \in Nat /\ crashes' >= crashes
    BY <1>2 DEF Usb!Bite, UsbTypes
  <2>3. QED
    BY <1>2, <2>1, <2>2, StartLeads DEF Usb!Bite
<1>3. CASE Usb!HandleFw
  <2>1. CASE Usb!Reboot
    BY <1>3, <2>1, RebootLeads DEF Usb!HandleFw, UsbTypes
  <2>2. CASE Usb!FeedWatchdog
    <3>1. /\ phase = "run" /\ pc' = "host"
          /\ UNCHANGED <<phase, core, src7, req, fwusb, suspend, crashes>>
      BY <1>3, <2>2 DEF Usb!HandleFw, Usb!FeedWatchdog
    <3>2. /\ wdog' \in [armed : BOOLEAN, magic : {"none", "run", "suspend"}, warm : Nat]
          /\ wdog'.armed = TRUE /\ wdog'.magic = wdog.magic /\ wdog'.warm = wdog.warm
      BY <2>2 DEF Usb!FeedWatchdog, UsbTypes
    <3>3. UsbTypes' /\ UsbPlaces' /\ WakeupBits' /\ Reason'
      BY <3>1, <3>2 DEF UsbTypes, UsbPlaces, WakeupBits, Reason
    <3>4. Watched'
      BY <3>1, <3>2 DEF Watched, Usb!WatchdogFollowsLife, Usb!WarmStartMeansBite
    <3>5. QED
      BY <3>3, <3>4
  <2>3. QED
    BY <1>3, <2>1, <2>2 DEF Usb!HandleFw
<1>4. CASE Usb!Host
  <2>1. /\ phase = "run" /\ pc = "host" /\ pc' = "usb"
        /\ UNCHANGED <<phase, core, suspend, src7, req, wdog, crashes>>
    BY <1>4 DEF Usb!Host
  <2>2. /\ IsFw(fwusb') /\ fwusb'.feature = fwusb.feature
        /\ suspend = "suspended" => fwusb' = fwusb
    BY <1>4 DEF Usb!Host, UsbTypes, IsFw
  <2>3. UsbTypes' /\ UsbPlaces' /\ WakeupBits' /\ Reason'
    BY <2>1, <2>2 DEF UsbTypes, UsbPlaces, WakeupBits, Reason
  <2>4. Watched'
    BY <2>1 DEF Watched, Usb!WatchdogFollowsLife, Usb!WarmStartMeansBite
  <2>5. QED
    BY <2>3, <2>4
<1>5. CASE Usb!HandleUsb
  BY <1>5, StepHandleUsb
<1>6. CASE Usb!HandleResume
  <2>1. CASE "resume" \in seen
    BY <1>6, <2>1, RebootLeads DEF Usb!HandleResume
  <2>2. CASE "resume" \notin seen
    <3>1. /\ phase = "run" /\ pc = "resume" /\ pc' = "fw"
          /\ UNCHANGED <<phase, core, suspend, src7, req, wdog, fwusb, crashes>>
      BY <1>6, <2>2 DEF Usb!HandleResume
    <3>2. UsbTypes' /\ UsbPlaces' /\ WakeupBits' /\ Reason'
      BY <3>1 DEF UsbTypes, UsbPlaces, WakeupBits, Reason
    <3>3. Watched'
      BY <3>1 DEF Watched, Usb!WatchdogFollowsLife, Usb!WarmStartMeansBite
    <3>4. QED
      BY <3>2, <3>3
  <2>3. QED
    BY <2>1, <2>2
<1>7. CASE Usb!ClockBack
  <2>1. /\ phase = "stopped" /\ src7 \cap {"resume", "reset"} # {} /\ phase' = "run"
        /\ UNCHANGED <<pc, core, fwusb, suspend, src7, req, wdog, crashes>>
    BY <1>7 DEF Usb!ClockBack
  <2>2. UsbTypes' /\ UsbPlaces' /\ WakeupBits' /\ Reason'
    BY <2>1 DEF UsbTypes, UsbPlaces, WakeupBits, Reason
  <2>3. Watched'
    BY <2>1 DEF Watched, Usb!WatchdogFollowsLife, Usb!WarmStartMeansBite, UsbPlaces
  <2>4. QED
    BY <2>2, <2>3
<1>8. CASE Usb!Request
  <2>1. UNCHANGED <<phase, pc, core, fwusb, suspend, src7, wdog, crashes>>
    BY <1>8 DEF Usb!Request
  <2>2. UsbTypes' /\ UsbPlaces' /\ WakeupBits' /\ Reason'
    BY <1>8, <2>1 DEF UsbTypes, UsbPlaces, WakeupBits, Reason, Usb!Request
  <2>3. QED
    BY <2>1, <2>2, WatchedSame
<1>9. CASE Usb!BusEvent
  <2>1. UNCHANGED <<phase, pc, core, fwusb, suspend, req, wdog, crashes>>
    BY <1>9 DEF Usb!BusEvent
  <2>2. PICK ev \in {"reset", "suspend", "resume"} :
             /\ ev = "suspend" => req = Usb!NoReq
             /\ src7' = src7 \cup {ev}
    BY <1>9 DEF Usb!BusEvent
  <2>3. UsbTypes' /\ UsbPlaces' /\ WakeupBits'
    BY <2>1, <2>2 DEF UsbTypes, UsbPlaces, WakeupBits
  <2>4. Reason'
    BY <2>1, <2>2 DEF Reason
  <2>5. QED
    BY <2>1, <2>3, <2>4, WatchedSame
<1>10. CASE Usb!Data
  <2>1. UNCHANGED <<phase, pc, fwusb, suspend, src7, req, wdog, crashes>>
    BY <1>10 DEF Usb!Data
  <2>2. IsCore(core') /\ core'.wakeup = core.wakeup
    <3>1. PICK e \in {1, 3} : core' = [core EXCEPT !.toggles = (@ \cup {e}) \ (@ \cap {e})]
      BY <1>10 DEF Usb!Data
    <3>2. QED
      BY <3>1 DEF UsbTypes, IsCore
  <2>3. UsbTypes' /\ UsbPlaces' /\ WakeupBits' /\ Reason'
    BY <2>1, <2>2 DEF UsbTypes, UsbPlaces, WakeupBits, Reason
  <2>4. QED
    BY <2>1, <2>3, WatchedSame
<1>11. CASE Usb!Hang
  <2>1. /\ phase = "run" /\ phase' = "hung"
        /\ UNCHANGED <<pc, core, fwusb, suspend, src7, req, wdog, crashes>>
    BY <1>11 DEF Usb!Hang
  <2>2. UsbTypes' /\ UsbPlaces' /\ WakeupBits' /\ Reason'
    BY <2>1 DEF UsbTypes, UsbPlaces, WakeupBits, Reason
  <2>3. Watched'
    BY <2>1 DEF Watched, Usb!WatchdogFollowsLife, Usb!WarmStartMeansBite
  <2>4. QED
    BY <2>2, <2>3
<1>12. CASE UNCHANGED usbVars
  <2>1. UNCHANGED <<phase, pc, core, fwusb, suspend, src7, req, wdog, crashes>>
    BY <1>12 DEF usbVars
  <2>2. UsbTypes' /\ UsbPlaces' /\ WakeupBits' /\ Reason'
    BY <2>1 DEF UsbTypes, UsbPlaces, WakeupBits, Reason
  <2>3. QED
    BY <2>1, <2>2, WatchedSame
<1>13. QED
  BY <1>1, <1>2, <1>3, <1>4, <1>5, <1>6, <1>7, <1>8, <1>9, <1>10, <1>11, <1>12 DEF Usb!Next

LEMMA UsbCorrect == AllSpec => []UsbInv
<1>1. AllInit => UsbInv
  BY InitUsb DEF AllInit
<1>2. UsbInv /\ [AllNext]_<<part, camVars, magicVars, usbVars, rxVars>> => UsbInv'
  <2> SUFFICES ASSUME UsbInv, [AllNext]_<<part, camVars, magicVars, usbVars, rxVars>>
               PROVE  UsbInv'
    OBVIOUS
  <2>1. [Usb!Next]_usbVars
    BY DEF AllNext, CamStep, MagicStep, UsbStep, RxStep
  <2>2. QED
    BY <2>1, StepUsb
<1>3. QED
  BY <1>1, <1>2, PTL DEF AllSpec

(* For every set of requests the host may send, in every order with bus    *)
(* events, commands, hangs and bites: the watchdog is off where nobody     *)
(* feeds it and on while commands and the bus are handled, a warm start    *)
(* means that it has bitten, the firmware stays awake in a suspend only    *)
(* for a reason, and the feature word agrees with the bit of the core.     *)
THEOREM LifeCorrect == AllSpec => []LifeFollowsHost
<1>1. UsbInv => LifeFollowsHost
  <2> SUFFICES ASSUME UsbInv PROVE LifeFollowsHost
    OBVIOUS
  <2>1. Usb!WatchdogFollowsLife /\ Usb!WarmStartMeansBite
    BY DEF UsbInv, Watched
  <2>2. Usb!AwakeForAReason
    BY DEF UsbInv, Reason, Usb!AwakeForAReason
  <2>3. Usb!WakeupAgrees
    BY DEF UsbInv, WakeupBits, Usb!WakeupAgrees, Usb!RemoteWakeup
  <2>4. QED
    BY <2>1, <2>2, <2>3 DEF LifeFollowsHost
<1>2. QED
  BY UsbCorrect, <1>1, PTL
-----------------------------------------------------------------------------
(* The scanner.  found counts the bytes of a magic packet the frame ends   *)
(* with; where the frame ends with a beginning of a magic packet that no   *)
(* byte 0xff precedes, it counts just those.                               *)
ML == Magic!L
MagicLen == Magic!Magic

(* The last n bytes of d are the first n of a magic packet.                *)
Begun(d, n) == n <= Len(d) /\ \A i \in 1 .. n : d[Len(d) - n + i] = Magic!MagicByte(i)

(* And no byte 0xff precedes them.                                         *)
BegunClean(d, n) == Begun(d, n) /\ (Len(d) > n => d[Len(d) - n] # FF)

NoFF == \A i \in 1 .. ML : Mac[i] # FF

MagicInv ==
  /\ data \in Seq(Bytes)
  /\ found \in 0 .. MagicLen
  /\ Begun(data, found)
  /\ NoFF => \A n \in 1 .. MagicLen : BegunClean(data, n) => found = n

LEMMA MagicSizes ==
  /\ ML \in Nat \ {0} /\ MagicLen \in Nat /\ ML <= MagicLen
  /\ \A n \in Nat : (n % ML) + 1 \in 1 .. ML
<1>1. ML \in Nat \ {0}
  BY MagicAssumption, LenProperties DEF Magic!Sizes, ML, Magic!L
<1>2. Reps * ML \in Nat
  BY <1>1, MagicAssumption DEF Magic!Sizes
<1>3. MagicLen = ML + Reps * ML
  BY DEF ML, MagicLen, Magic!Magic
<1>4. \A n \in Nat : n % ML \in 0 .. ML - 1
  BY <1>1
<1>5. QED
  BY <1>1, <1>2, <1>3, <1>4

(* The byte after n of a magic packet.                                     *)
LEMMA NextMagicByte ==
  ASSUME NEW n \in Nat
  PROVE  Magic!MagicByte(n + 1) = IF n < ML THEN FF ELSE Magic!Expected(n)
<1>1. (n + 1) - 1 = n /\ (n + 1 <= ML <=> n < ML)
  BY MagicSizes
<1>2. QED
  BY <1>1 DEF Magic!MagicByte, Magic!Expected, ML

(* One more byte.                                                          *)
LEMMA BegunMore ==
  ASSUME NEW d \in Seq(Bytes), NEW b \in Bytes, NEW n \in Nat
  PROVE  /\ Begun(Append(d, b), n + 1) <=> Begun(d, n) /\ b = Magic!MagicByte(n + 1)
         /\ BegunClean(Append(d, b), n + 1) => BegunClean(d, n)
<1> DEFINE e == Append(d, b)
<1>1. /\ e \in Seq(Bytes) /\ Len(d) \in Nat /\ Len(e) = Len(d) + 1
      /\ \A i \in 1 .. Len(d) : e[i] = d[i]
      /\ e[Len(d) + 1] = b
  BY Pushed
<1> HIDE DEF e
<1>2. n + 1 <= Len(e) <=> n <= Len(d)
  BY <1>1
<1>3. Len(e) - (n + 1) = Len(d) - n
  BY <1>1
<1>4. ASSUME n <= Len(d), NEW i \in 1 .. n
      PROVE  e[Len(e) - (n + 1) + i] = d[Len(d) - n + i]
  <2>1. Len(d) - n + i \in 1 .. Len(d)
    BY <1>1, <1>4
  <2>2. QED
    BY <1>1, <1>3, <2>1
<1>5. ASSUME n <= Len(d) PROVE e[Len(e) - (n + 1) + (n + 1)] = b
  BY <1>1
<1>6. ASSUME Begun(e, n + 1) PROVE Begun(d, n) /\ b = Magic!MagicByte(n + 1)
  <2>1. n <= Len(d)
    BY <1>2, <1>6 DEF Begun
  <2>2. \A i \in 1 .. n + 1 : e[Len(e) - (n + 1) + i] = Magic!MagicByte(i)
    BY <1>6 DEF Begun
  <2>3. ASSUME NEW i \in 1 .. n PROVE d[Len(d) - n + i] = Magic!MagicByte(i)
    BY <1>4, <2>1, <2>2
  <2>4. b = Magic!MagicByte(n + 1)
    BY <1>5, <2>1, <2>2
  <2>5. QED
    BY <2>1, <2>3, <2>4 DEF Begun
<1>7. ASSUME Begun(d, n), b = Magic!MagicByte(n + 1) PROVE Begun(e, n + 1)
  <2>1. n <= Len(d) /\ n + 1 <= Len(e)
    BY <1>2, <1>7 DEF Begun
  <2>2. ASSUME NEW i \in 1 .. n + 1 PROVE e[Len(e) - (n + 1) + i] = Magic!MagicByte(i)
    <3>1. CASE i = n + 1
      BY <1>5, <1>7, <2>1, <3>1
    <3>2. CASE i # n + 1
      <4>1. i \in 1 .. n
        BY <3>2
      <4>2. QED
        BY <1>4, <1>7, <2>1, <4>1 DEF Begun
    <3>3. QED
      BY <3>1, <3>2
  <2>3. QED
    BY <2>1, <2>2 DEF Begun
<1>8. ASSUME BegunClean(e, n + 1) PROVE BegunClean(d, n)
  <2>1. Begun(d, n)
    BY <1>6, <1>8 DEF BegunClean
  <2>2. ASSUME Len(d) > n PROVE d[Len(d) - n] # FF
    <3>1. Len(e) > n + 1 /\ Len(d) - n \in 1 .. Len(d)
      BY <1>1, <2>2
    <3>2. e[Len(d) - n] # FF
      BY <1>3, <1>8, <3>1 DEF BegunClean
    <3>3. QED
      BY <1>1, <3>1, <3>2
  <2>3. QED
    BY <2>1, <2>2 DEF BegunClean
<1>9. QED
  BY <1>6, <1>7, <1>8 DEF e

LEMMA InitMagic == Magic!Init => MagicInv
<1> SUFFICES ASSUME Magic!Init PROVE MagicInv
  OBVIOUS
<1>1. data = <<>> /\ found = 0 /\ Len(data) = 0
  BY DEF Magic!Init
<1>2. Begun(data, found)
  BY <1>1 DEF Begun
<1>3. ASSUME NEW n \in 1 .. MagicLen PROVE ~BegunClean(data, n)
  BY <1>1, MagicSizes DEF BegunClean, Begun
<1>4. QED
  BY <1>1, <1>2, <1>3, MagicSizes DEF MagicInv

LEMMA StepMagic == MagicInv /\ [Magic!Step]_magicVars => MagicInv'
<1> SUFFICES ASSUME MagicInv, [Magic!Step]_magicVars PROVE MagicInv'
  OBVIOUS
<1>1. CASE UNCHANGED magicVars
  BY <1>1 DEF magicVars, MagicInv, Begun, BegunClean
<1>2. CASE Magic!Step
  <2>1. PICK b \in Bytes : data' = Append(data, b) /\ found' = Magic!Scan(found, b)
    BY <1>2 DEF Magic!Step
  <2>2. data \in Seq(Bytes) /\ Len(data) \in Nat /\ found \in 0 .. MagicLen - 1
    BY <1>2, MagicSizes, LenProperties DEF MagicInv, Magic!Step, MagicLen
  <2>3. data' \in Seq(Bytes)
    BY <2>1, <2>2, Pushed
  <2> DEFINE fits == b = Magic!MagicByte(found + 1)
  <2>4. fits <=> b = IF found < ML THEN FF ELSE Magic!Expected(found)
    <3>1. found \in Nat
      BY <2>2, MagicSizes
    <3>2. Magic!MagicByte(found + 1) = IF found < ML THEN FF ELSE Magic!Expected(found)
      BY <3>1, NextMagicByte
    <3>3. QED
      BY <3>2
  <2>5. Magic!MagicByte(1) = FF
    BY NextMagicByte, MagicSizes
  <2> HIDE DEF fits
  <2>6. /\ fits => found' = found + 1
        /\ ~fits /\ b = FF => found >= ML /\ found' = 1
        /\ ~fits /\ b # FF => found' = 0
    <3> DEFINE x == Magic!Expected(found)
    <3>1. found' = IF found >= ML /\ b = x THEN found + 1
                   ELSE IF b = FF THEN (IF found >= ML THEN 0 ELSE found) + 1 ELSE 0
      BY <2>1 DEF Magic!Scan, Magic!Sync, ML
    <3>2. fits <=> b = IF found < ML THEN FF ELSE x
      BY <2>4
    <3>3. found \in Nat /\ ML \in Nat
      BY <2>2, MagicSizes
    <3> HIDE DEF x
    <3>4. QED
      BY <3>1, <3>2, <3>3
  <2>7. found' \in 0 .. MagicLen
    BY <2>2, <2>6, MagicSizes
  <2>8. Begun(data', found')
    <3>1. CASE fits
      <4>1. Begun(data, found)
        BY DEF MagicInv
      <4>2. QED
        BY <2>1, <2>2, <2>6, <3>1, <4>1, BegunMore, MagicSizes DEF fits
    <3>2. CASE ~fits /\ b = FF
      <4>1. Begun(data, 0)
        BY <2>2 DEF Begun
      <4>2. Begun(Append(data, b), 0 + 1)
        BY <2>2, <2>5, <3>2, <4>1, BegunMore
      <4>3. QED
        BY <2>1, <2>6, <3>2, <4>2
    <3>3. CASE ~fits /\ b # FF
      <4>1. found' = 0 /\ Len(data') \in Nat
        BY <2>3, <2>6, <3>3, LenProperties
      <4>2. QED
        BY <4>1 DEF Begun
    <3>4. QED
      BY <3>1, <3>2, <3>3
  <2>9. ASSUME NoFF, NEW n \in 1 .. MagicLen, BegunClean(data', n) PROVE found' = n
    <3>1. n - 1 \in Nat /\ (n - 1) + 1 = n
      BY MagicSizes
    <3>2. BegunClean(data, n - 1) /\ b = Magic!MagicByte(n)
      <4> DEFINE m == n - 1
      <4>1. m \in Nat /\ m + 1 = n
        BY <3>1
      <4> HIDE DEF m
      <4>2. BegunClean(Append(data, b), m + 1)
        BY <2>1, <2>9, <4>1
      <4>3. Begun(Append(data, b), m + 1)
        BY <4>2 DEF BegunClean
      <4>4. BegunClean(data, m) /\ b = Magic!MagicByte(m + 1)
        BY <2>2, <4>1, <4>2, <4>3, BegunMore
      <4>5. QED
        BY <4>1, <4>4 DEF m
    <3>3. CASE n # 1
      <4>1. n - 1 \in 1 .. MagicLen
        BY <3>3, MagicSizes
      <4>2. found = n - 1
        BY <2>9, <3>2, <4>1 DEF MagicInv
      <4>3. fits
        BY <3>1, <3>2, <4>2 DEF fits
      <4>4. QED
        BY <2>6, <3>1, <4>2, <4>3
    <3>4. CASE n = 1
      <4>1. b = FF
        BY <2>5, <3>2, <3>4
      <4>2. CASE found >= ML
        <5>1. Magic!Expected(found) # FF
          <6>1. (found % ML) + 1 \in 1 .. ML /\ Magic!Expected(found) = Mac[(found % ML) + 1]
            BY <2>2, MagicSizes DEF Magic!Expected, ML
          <6>2. QED
            BY <2>9, <6>1 DEF NoFF
        <5>2. ~fits
          BY <2>2, <2>4, <4>1, <4>2, <5>1, MagicSizes
        <5>3. QED
          BY <2>6, <3>4, <4>1, <5>2
      <4>3. CASE found = 0
        <5>1. fits
          BY <2>5, <4>1, <4>3 DEF fits
        <5>2. QED
          BY <2>6, <3>4, <4>3, <5>1
      <4>4. CASE found # 0 /\ found < ML
        <5>1. found \in Nat /\ found - 1 \in Nat /\ (found - 1) + 1 = found /\ found - 1 < ML
          BY <2>2, <4>4, MagicSizes
        <5>2. Magic!MagicByte(found) = FF
          BY <5>1, NextMagicByte
        <5>3. found <= Len(data) /\ data[Len(data) - found + found] = Magic!MagicByte(found)
          BY <4>4, <5>1 DEF MagicInv, Begun
        <5>4. Len(data) > 0 /\ Len(data) - found + found = Len(data)
          BY <2>2, <4>4, <5>1, <5>3
        <5>5. data[Len(data)] # FF
          BY <2>2, <3>2, <3>4, <5>4 DEF BegunClean
        <5>6. QED
          BY <5>2, <5>3, <5>4, <5>5
      <4>5. QED
        BY <2>2, <4>2, <4>3, <4>4, MagicSizes
    <3>5. QED
      BY <3>3, <3>4
  <2>10. QED
    BY <2>3, <2>7, <2>8, <2>9 DEF MagicInv
<1>3. QED
  BY <1>1, <1>2

LEMMA MagicCorrect == AllSpec => []MagicInv
<1>1. AllInit => MagicInv
  BY InitMagic DEF AllInit
<1>2. MagicInv /\ [AllNext]_<<part, camVars, magicVars, usbVars, rxVars>> => MagicInv'
  <2> SUFFICES ASSUME MagicInv, [AllNext]_<<part, camVars, magicVars, usbVars, rxVars>>
               PROVE  MagicInv'
    OBVIOUS
  <2>1. [Magic!Step]_magicVars
    BY DEF AllNext, CamStep, MagicStep, UsbStep, RxStep
  <2>2. QED
    BY <2>1, StepMagic
<1>3. QED
  BY <1>1, <1>2, PTL DEF AllSpec

(* For every address, every number of copies and every frame: what the     *)
(* scanner of wol.c takes for a magic packet is one, and it finds every    *)
(* magic packet that no byte 0xff precedes, for an address without 0xff.   *)
THEOREM MagicIsFound == AllSpec => []MagicFound
<1>1. MagicInv => MagicFound
  <2> SUFFICES ASSUME MagicInv PROVE MagicFound
    OBVIOUS
  <2>1. MagicLen = Magic!Magic /\ MagicLen \in 1 .. MagicLen /\ Len(data) \in Nat
    BY MagicSizes, LenProperties DEF MagicLen, MagicInv
  <2>2. Begun(data, MagicLen) <=> Magic!EndsAt(Len(data))
    BY <2>1 DEF Begun, Magic!EndsAt
  <2>3. Magic!Sound
    BY <2>1, <2>2 DEF MagicInv, Magic!Sound
  <2>4. Magic!CleanFound
    BY <2>1, <2>2 DEF MagicInv, Magic!CleanFound, BegunClean, NoFF, ML
  <2>5. QED
    BY <2>3, <2>4 DEF MagicFound
<1>2. QED
  BY MagicCorrect, <1>1, PTL
=============================================================================
