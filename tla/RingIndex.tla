----------------------------- MODULE RingIndex -----------------------------
(***************************************************************************)
(* The index arithmetic the firmware's rings share: an index is advanced   *)
(* and then reduced with %= (wlan.c:139,148,557,604, usb/main.c:77,96).    *)
(***************************************************************************)
EXTENDS Naturals

(* index %= size                                                           *)
Wrapped(i, n) == i % n
=============================================================================
