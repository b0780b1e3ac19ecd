------------------------------ MODULE WolMagic ------------------------------
(***************************************************************************)
(* The scanner for wake on LAN magic packets, wlan_rx_wol_magic_packet in  *)
(* carlfw/src/wol.c: one step per byte of the frame.  A magic packet is    *)
(* Len bytes 0xff and then Reps copies of the address, Len bytes each (6   *)
(* and 16 in the code, fewer for TLC).                                     *)
(***************************************************************************)
EXTENDS Naturals, Sequences

CONSTANTS
    Mac,        \* the address looked for, a sequence of bytes
    Reps,       \* copies of the address in a magic packet
    Bytes,      \* bytes a frame may hold
    FF,         \* the byte 0xff
    MaxData     \* bound on the length of a frame

VARIABLES data,     \* the bytes scanned
          found     \* how many bytes of a magic packet they end with

vars == <<data, found>>

L == Len(Mac)
Magic == L + Reps * L

\* What the constants are.
Sizes == Mac \in Seq(Bytes) /\ Mac # <<>> /\ FF \in Bytes /\ Reps \in Nat /\ MaxData \in Nat

\* The byte the scanner expects after n > = L bytes: mac[found % 6].
Expected(n) == Mac[(n % L) + 1]

Sync(n, b) == IF b = FF THEN n + 1 ELSE 0

\* Slip: a wrong byte in the addresses keeps the synchronisation.
KeepSync(n, b) ==
    IF n >= L THEN IF b = Expected(n) THEN n + 1 ELSE L
    ELSE Sync(n, b)

\* found after one more byte; the second test sees what the first has reset.
Scan(n, b) ==
    IF n >= L /\ b = Expected(n) THEN n + 1
    ELSE Sync(IF n >= L THEN 0 ELSE n, b)

Init == data = <<>> /\ found = 0

\* The scanner returns as soon as it has found a packet.
Step ==
    /\ found # Magic /\ Len(data) < MaxData
    /\ \E b \in Bytes : data' = Append(data, b) /\ found' = Scan(found, b)

Spec == Init /\ [][Step]_vars

-----------------------------------------------------------------------------
\* Byte i of a magic packet.
MagicByte(i) == IF i <= L THEN FF ELSE Mac[((i - 1) % L) + 1]

\* The frame contains a magic packet that ends at its byte e.
EndsAt(e) == e >= Magic /\ \A i \in 1 .. Magic : data[e - Magic + i] = MagicByte(i)

\* What the scanner takes for a magic packet is one.
Sound == found = Magic => EndsAt(Len(data))

\* A magic packet that no byte 0xff precedes is found, whatever beginnings of
\* magic packets come before it, if the address has no byte 0xff either.
CleanFound ==
    /\ \A i \in 1 .. L : Mac[i] # FF
    /\ EndsAt(Len(data))
    /\ Len(data) > Magic => data[Len(data) - Magic] # FF
    => found = Magic

\* "scan for standard WOL Magic frame": every magic packet is found.
Complete == EndsAt(Len(data)) => found = Magic
=============================================================================
