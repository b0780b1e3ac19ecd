------------------------------ MODULE CamKeys ------------------------------
(***************************************************************************)
(* The key cache of carlfw/src/cam.c: set_key writes the cipher, the MAC   *)
(* address and the key of a user into the rows of the CAM, row by row,     *)
(* while the security engine may look up any user that is in the roll call *)
(* table.  Rows are shared: a row has the ciphers of 32 users or one byte  *)
(* of the addresses of 16 users, so set_key reads it, changes its part of  *)
(* a word and writes it back.                                              *)
(***************************************************************************)
EXTENDS Naturals, FiniteSets

CONSTANTS
  Users,      \* the users in set_key and disable_key
  MaxCalls    \* bound: calls

MAX_USER == 64                \* AR9170_CAM_MAX_USER
ENCRY_TYPE_START_ADDR == 24
DEFAULT_ENCRY_TYPE == 26
KEY_START_ADDR == 27

ASSUME CamAssumption == Users \subseteq Nat /\ IsFiniteSet(Users) /\ MaxCalls \in Nat

KeyIds == 0 .. 2
Valid(user, keyId) == user <= MAX_USER + 3 /\ keyId <= 1

(***************************************************************************)
(* Where things are.  A cell is four bits: the row, the word, the nibble.  *)
(***************************************************************************)
Nibbles == 0 .. 7

TypeCell(u) ==
  IF u >= MAX_USER THEN <<DEFAULT_ENCRY_TYPE, 0, (u - MAX_USER) % 8>>
  ELSE <<ENCRY_TYPE_START_ADDR + u \div 32, (u \div 8) % 4, u % 8>>

MacCells(u, i) ==
  {<<(u \div 16) * 6 + i, (u \div 4) % 4, n>> : n \in {2 * (u % 4), 2 * (u % 4) + 1}}

KeyRow(u, keyId) == KEY_START_ADDR + u * 2 + keyId
KeyCells(u, keyId) == {KeyRow(u, keyId)} \X (0 .. 3) \X Nibbles

HasMac(u) == u < MAX_USER
Address(u) == IF HasMac(u) THEN UNION {MacCells(u, i) : i \in 0 .. 5} ELSE {}
Cells == UNION {{TypeCell(u)} \cup Address(u) \cup KeyCells(u, 0) \cup KeyCells(u, 1) :
                u \in {v \in Users : Valid(v, 0)}}

VARIABLES
  cam,      \* the cells: the number of the call that wrote them
  roll,     \* the two roll call registers: the bits that are set
  at,       \* where set_key is: 0 idle, 1 cipher, 2 .. 7 the address, 8 key, 9 enable
  arg,      \* its user and keyId
  calls,    \* calls of set_key
  types,    \* history: the last call that set cipher and address of a user
  keys      \* history: the last call that set a key

vars == <<cam, roll, at, arg, calls, types, keys>>

Init ==
  /\ cam = [c \in Cells |-> 0] /\ roll = {}
  /\ at = 0 /\ arg = [user |-> 0, keyId |-> 0] /\ calls = 0
  /\ types = [u \in Users |-> 0] /\ keys = [p \in Users \X {0, 1} |-> 0]

(* disable_cam_user and enable_cam_user: the users behind 63 have no bit.  *)
Bit(u) ==
  IF u <= 31 THEN {<<"L", u>>} ELSE IF u <= 63 THEN {<<"H", u - 32>>} ELSE {}

\* Slip: the engine may go on using the user.
DisableNot(u) == roll' = roll
Disable(u) == roll' = roll \ Bit(u)
Enable(u) == roll' = roll \cup Bit(u)

Write(cells) == cam' = [c \in DOMAIN cam |-> IF c \in cells THEN calls ELSE cam[c]]

Call(u, keyId) ==
  /\ at = 0 /\ calls < MaxCalls /\ calls' = calls + 1
  /\ IF Valid(u, keyId)
     THEN Disable(u) /\ at' = 1 /\ arg' = [user |-> u, keyId |-> keyId]
     ELSE UNCHANGED <<roll, at, arg>>
  /\ UNCHANGED <<cam, types, keys>>

SetType ==
  /\ at = 1 /\ Write({TypeCell(arg.user)})
  /\ at' = IF HasMac(arg.user) THEN 2 ELSE 8
  /\ UNCHANGED <<roll, arg, calls, types, keys>>

SetMac ==
  /\ at \in 2 .. 7 /\ Write(MacCells(arg.user, at - 2))
  /\ at' = at + 1
  /\ UNCHANGED <<roll, arg, calls, types, keys>>

SetKey ==
  /\ at = 8 /\ Write(KeyCells(arg.user, arg.keyId))
  /\ at' = 9
  /\ UNCHANGED <<roll, arg, calls, types, keys>>

Return ==
  /\ at = 9 /\ Enable(arg.user)
  /\ at' = 0
  /\ types' = [types EXCEPT ![arg.user] = calls]
  /\ keys' = [keys EXCEPT ![<<arg.user, arg.keyId>>] = calls]
  /\ UNCHANGED <<cam, arg, calls>>

(* disable_key, which checks nothing.                                      *)
DisableKey(u) ==
  /\ at = 0 /\ Disable(u)
  /\ UNCHANGED <<cam, at, arg, calls, types, keys>>

Next ==
  \/ \E u \in Users : (\E k \in KeyIds : Call(u, k)) \/ DisableKey(u)
  \/ SetType \/ SetMac \/ SetKey \/ Return

Spec == Init /\ [][Next]_vars
-----------------------------------------------------------------------------
Holds(u) ==
  /\ \A c \in {TypeCell(u)} \cup Address(u) : cam[c] = types[u]
  /\ \A k \in {0, 1} : \A c \in KeyCells(u, k) : cam[c] = keys[<<u, k>>]

(* Between calls every user has the cipher, the address and the keys of    *)
(* the last calls for that user: the read-modify-writes of shared rows and *)
(* the row numbers never touch another user's part.                        *)
UsersApart == at = 0 => \A u \in Users : Valid(u, 0) => Holds(u)

(* The engine finds an enabled user complete, also while set_key is        *)
(* between two rows: never the new cipher with the old key, or half an     *)
(* address.                                                                *)
EngineSeesWhole ==
  \A u \in Users : Valid(u, 0) /\ Bit(u) \cap roll # {} => Holds(u)

=============================================================================
