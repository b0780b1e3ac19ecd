------------------------------ MODULE MCBeacon ------------------------------
(* What the firmware does by the beat of the beacons and of the bus: the   *)
(* content after beacon, power save and channel changes, wake on LAN, and  *)
(* suspend and resume.  The parts share no state in these models, so only  *)
(* one of them moves in a behaviour, and the others stay as they begin.    *)
EXTENDS Cab

CONSTANTS
  Parts,                                         \* the parts a run looks at
  MaxCount, MaxCmds,                             \* Radio
  Aps, Macs, Zero, Broadcast, Ssid, Ssids, LostTicks,  \* Wol
  STANDARD_CMDS, MODESWITCH, WOL, Requests, MaxCrash  \* UsbCtrl

VARIABLES
  part,     \* the part that moves
  psm, phy, cca, adda, ready, changing, cmds, txq, bug,
  sent, cmd, regs, mode, wake, beacon, heard, cause,
  phase, pc, core, fwusb, suspend, src7, seen, req, last, wdog, crashes

Radio == INSTANCE Radio
Wol == INSTANCE Wol
Usb == INSTANCE UsbCtrl

radioVars == <<psm, phy, cca, adda, ready, changing, cmds, txq, bug>>
wolVars == <<sent, cmd, regs, mode, wake, beacon, heard, cause>>
usbVars == <<phase, pc, core, fwusb, suspend, src7, seen, req, last, wdog, crashes>>

(* The SSID looked for, one that differs in its last letter, a shorter one;*)
(* and the requests that change what the firmware does when suspended.     *)
MCSsid == <<"a", "b">>
MCSsids == {<<"a", "b">>, <<"a", "c">>, <<"a">>}
WakeupRequests ==
  {[type |-> "standard", req |-> name, recip |-> "device", in |-> FALSE, value |-> 1,
    index |-> 0] : name \in {"set_feature", "clear_feature"}}
-----------------------------------------------------------------------------
(* A part that does not move is at one of its initial states.              *)
AllInit ==
  /\ part \in Parts
  /\ Init /\ Radio!Init /\ Wol!Init /\ Usb!Init
  /\ part # "wol" => regs = CHOOSE r \in [mac : Macs, bssid : Aps] : TRUE
  /\ part # "usb" => core.hs

CabStep == part = "cab" /\ Next /\ UNCHANGED <<part, radioVars, wolVars, usbVars>>
RadioStep == part = "radio" /\ Radio!Next /\ UNCHANGED <<part, vars, wolVars, usbVars>>
WolStep == part = "wol" /\ Wol!Next /\ UNCHANGED <<part, vars, radioVars, usbVars>>
UsbStep == part = "usb" /\ Usb!Next /\ UNCHANGED <<part, vars, radioVars, wolVars>>

AllNext == CabStep \/ RadioStep \/ WolStep \/ UsbStep

(* The fairness of the parts, each while it is the one that moves.         *)
CabFair ==
  /\ WF_vars(part = "cab" /\ (FlushFrame \/ FlushEnd))
  /\ SF_vars(part = "cab" /\ SendBufferedCab)
  /\ SF_vars(part = "cab" /\ TxStatus)
  /\ SF_vars(part = "cab" /\ \E fresh \in BOOLEAN : ModifyBeacon(TRUE, fresh))
  /\ WF_vars(part = "cab" /\ ~elapsed /\ Clock)
RadioFair ==
  /\ WF_radioVars(part = "radio" /\ Radio!Pretbtt)
  /\ WF_radioVars(part = "radio" /\ \E i \in BOOLEAN : Radio!RfCmd(i))
WolFair ==
  /\ WF_wolVars(part = "wol" /\ Wol!wol_janitor) /\ WF_wolVars(part = "wol" /\ Wol!Tick)
UsbFair ==
  /\ WF_usbVars(part = "usb" /\ Usb!HandleFw) /\ WF_usbVars(part = "usb" /\ Usb!Host)
  /\ WF_usbVars(part = "usb" /\ Usb!HandleUsb)
  /\ WF_usbVars(part = "usb" /\ Usb!HandleResume)
  /\ WF_usbVars(part = "usb" /\ Usb!ClockBack) /\ WF_usbVars(part = "usb" /\ Usb!Bite)

AllSpec == /\ AllInit /\ [][AllNext]_<<part, vars, radioVars, wolVars, usbVars>>
           /\ CabFair /\ RadioFair /\ WolFair /\ UsbFair
-----------------------------------------------------------------------------
(* The properties of the parts, as their modules state them.               *)
(* wlan_cab_flush_queue: every broadcast frame is sent in the end.         *)
CabSent == part = "cab" => EventuallySent

(* rf_psm, rf_notify_set_channel, set_channel_end: a radio put to sleep    *)
(* with a count wakes up in the end, transmissions go on after a channel   *)
(* change, though power save begins or ends inside it, and no radio is     *)
(* off without a reason.                                                   *)
RadioGoesOn ==
  /\ part = "radio" => Radio!CountEnds /\ Radio!TransmissionResumes
  /\ []Radio!OffHasReason

(* wol_janitor: a host that asked for it is woken when its access point is *)
(* gone, though the command is copied in part; what wakes it is a frame to *)
(* everybody or to the zero address, a probe request or a lost connection, *)
(* and a deauthentication of everybody always does.                        *)
HostWoken ==
  /\ part = "wol" => Wol!LostWakes
  /\ [](Wol!WakeHasCause /\ Wol!DeauthWakes)

(* "connection lost after 10sec without receiving a beacon" (wol.c): the   *)
(* access point of the host is not taken for lost while its beacons come.  *)
LostMeansNoBeacon == Wol!LostMeansNoBeacon

(* usb_handler: a device that is reset, or resumed when suspended, reboots.*)
ResumeReboots == part = "usb" => Usb!ResumeReboots
=============================================================================
