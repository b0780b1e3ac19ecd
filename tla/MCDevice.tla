------------------------------ MODULE MCDevice ------------------------------
(* The firmware at its other interfaces: the key cache, the receive path   *)
(* with the host's and other stations' BlockAck requests, the USB control  *)
(* endpoint with suspend, reset and watchdog, and the scanner for magic    *)
(* packets.  The parts share no state in these models, so only one of them *)
(* moves in a behaviour, and the others stay as they begin.                *)
EXTENDS CamKeys, Sequences

CONSTANTS
  Mac, Reps, Bytes, FF, MaxData,                    \* WolMagic
  STANDARD_CMDS, MODESWITCH, WOL, Requests, MaxCrash,   \* UsbCtrl
  RxDescs, BackReqs, UintWrap, Kinds, Filters, MaxFrames, MaxBars, MaxTicks   \* RxPath

VARIABLES
  part,     \* the part that moves
  data, found,
  phase, pc, core, fwusb, suspend, src7, seen, req, last, wdog, crashes,
  free, rxq, upq, sent, rxOn, upOn, rxc, txc, intr, stage, rx_filter, ba_cache,
  ba_head_idx, ba_tail_idx, queued_ba, fw_desc, bars, queued_bar, total, overrun,
  mac_reset, ticks, arrived, asked, misread, answers, late, dropped

camVars == vars
magicVars == <<data, found>>
usbVars == <<phase, pc, core, fwusb, suspend, src7, seen, req, last, wdog, crashes>>
rxVars == <<free, rxq, upq, sent, rxOn, upOn, rxc, txc, intr, stage, rx_filter, ba_cache,
            ba_head_idx, ba_tail_idx, queued_ba, fw_desc, bars, queued_bar, total, overrun,
            mac_reset, ticks, arrived, asked, misread, answers, late, dropped>>

(* An address of two bytes, none of them 0xff.                             *)
MCMac == <<"m0", "m1">>
Magic == INSTANCE WolMagic

ASSUME MagicAssumption == Magic!Sizes
-----------------------------------------------------------------------------
(* The standard requests, with the values the handlers tell apart.         *)
Std(name, recip, in, value) ==
  [type |-> "standard", req |-> name, recip |-> recip, in |-> in, value |-> value, index |-> 0]
MCRequests ==
  {Std("get_status", x, TRUE, 0) : x \in {"device", "interface", "endpoint"}}
  \cup {Std(n, "device", FALSE, f) : n \in {"set_feature", "clear_feature"}, f \in {1, 2}}
  \cup {Std("set_address", "device", FALSE, a) : a \in {5, 256}}
  \cup {Std("get_descriptor", "device", TRUE, d) : d \in {512, 1792, 784}}
  \cup {Std("set_configuration", "device", FALSE, c) : c \in {0, 1, 2}}
  \cup {Std("get_configuration", "device", TRUE, 0), Std("get_interface", "interface", TRUE, 0),
        Std("set_interface", "interface", FALSE, 0), Std("synch_frame", "endpoint", TRUE, 0),
        [Std("get_status", "device", TRUE, 0) EXCEPT !.type = "vendor"]}

Usb == INSTANCE UsbCtrl

ASSUME UsbAssumption == {STANDARD_CMDS, MODESWITCH, WOL} \subseteq BOOLEAN
-----------------------------------------------------------------------------
Frame(type, err, length, mpdu) ==
  [type |-> type, err |-> err, total |-> length, mpdu |-> mpdu, compressed |-> TRUE, own |-> FALSE]

(* A BlockAck request as short as it may be; some that must not be         *)
(* answered: for another station, one byte short; a frame so short that its*)
(* length wraps, in a buffer that held a request; and a BlockAck for a BAR *)
(* of the host.                                                            *)
MCKinds ==
  { Frame("bar", {}, 58, "single"),
    Frame("bar", {"WRONG_RA"}, 58, "last"), Frame("bar", {}, 57, "single"),
    Frame("bar", {}, 33, "single"),
    [Frame("ba", {}, 66, "single") EXCEPT !.own = TRUE] }
MCFilters == {{"CTL_BACKR", "CTL_OTHER"}}

Rx == INSTANCE RxPath

ASSUME RxAssumption == Rx!Sizes
-----------------------------------------------------------------------------
(* A part that does not move is at an initial state; the key cache, which  *)
(* is large, is left out then.                                             *)
AllInit ==
  /\ part \in {"cam", "magic", "usb", "rx"}
  /\ IF part = "cam" THEN Init
     ELSE /\ cam = <<>> /\ roll = {} /\ at = 0 /\ arg = [user |-> 0, keyId |-> 0]
          /\ calls = 0 /\ types = <<>> /\ keys = <<>>
  /\ Magic!Init
  /\ Usb!Init /\ (part # "usb" => core.hs)
  /\ Rx!Init

CamStep == part = "cam" /\ Next /\ UNCHANGED <<part, magicVars, usbVars, rxVars>>
MagicStep == part = "magic" /\ Magic!Step /\ UNCHANGED <<part, camVars, usbVars, rxVars>>
UsbStep == part = "usb" /\ Usb!Next /\ UNCHANGED <<part, camVars, magicVars, rxVars>>
RxStep == part = "rx" /\ Rx!Next /\ UNCHANGED <<part, camVars, magicVars, usbVars>>

AllNext == CamStep \/ MagicStep \/ UsbStep \/ RxStep

AllSpec == AllInit /\ [][AllNext]_<<part, camVars, magicVars, usbVars, rxVars>>
-----------------------------------------------------------------------------
(* The properties of the parts, as their modules state them.               *)
(* handle_bar: other stations' requests are answered in their order, and   *)
(* nothing else but frames whose length wraps; no receive descriptor is    *)
(* lost.                                                                   *)
AnsweredInOrder == Rx!AnsweredInOrder /\ Rx!DescsKept

(* wlan_rx_filter: a BlockAck for a BAR that is with the MAC is passed on. *)
NoticedBaReachesHost == Rx!NoticedBaReachesHost

(* usb_handler, start: the watchdog is off where nobody feeds it, a warm   *)
(* start means that it has bitten, and while the host sleeps the firmware  *)
(* runs only for a reason, which core and feature word agree on.           *)
LifeFollowsHost ==
  /\ Usb!WatchdogFollowsLife /\ Usb!WarmStartMeansBite
  /\ Usb!AwakeForAReason /\ Usb!WakeupAgrees

(* wlan_rx_wol_magic_packet: what is found is a magic packet, and one that *)
(* no byte 0xff precedes is found.                                         *)
MagicFound == Magic!Sound /\ Magic!CleanFound
=============================================================================
