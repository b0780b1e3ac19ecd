-------------------------------- MODULE Wol --------------------------------
(***************************************************************************)
(* Wake on LAN, carlfw/src/wol.c: what makes a suspended device wake its   *)
(* host.  The scanner for magic packets is WolMagic; here a frame either   *)
(* has a packet for some address or not.  The life around it (suspend,     *)
(* reboot after the resume) is UsbCtrl.                                    *)
(***************************************************************************)
EXTENDS Naturals, Sequences

CONSTANTS
    Aps,            \* access points in reach
    Macs,           \* addresses
    Zero,           \* the address a zeroed structure holds, in both roles
    Broadcast,      \* the address of all
    Ssid,           \* CONFIG_CARL9170FW_WOL_PROBE_REQUEST_SSID, a sequence
    Ssids,          \* SSIDs others probe for
    LostTicks       \* ticks in 10 seconds

VARIABLES
    sent,       \* the last command of the host: flags, mac, bssid
    cmd,        \* fw.wol.cmd
    regs,       \* MAC_ADDR and BSSID registers
    mode,       \* fw.suspend_mode: "awake", "suspended", "awake_host"
    wake,       \* fw.wol.wake_up
    beacon,     \* ticks since fw.wol.last_beacon
    heard,      \* history: ticks since a beacon of the host's access point
    cause       \* history: what has happened that may wake the host

vars == <<sent, cmd, regs, mode, wake, beacon, heard, cause>>

Flags == {"disconnect", "magic"}
Commands == [flags : SUBSET Flags, mac : Macs, bssid : Aps]
NoCmd == [flags |-> {}, mac |-> Zero, bssid |-> Zero]

Init ==
    /\ sent = NoCmd /\ cmd = NoCmd
    /\ \E m \in Macs, a \in Aps : regs = [mac |-> m, bssid |-> a]
    /\ mode = "awake" /\ wake = FALSE /\ beacon = 0 /\ heard = 0 /\ cause = {}

\* wol_cmd copies as many bytes as a pointer has: the flags.
wol_cmd ==
    /\ mode = "awake"
    /\ \E c \in Commands : sent' = c /\ cmd' = [cmd EXCEPT !.flags = c.flags]
    /\ UNCHANGED <<regs, mode, wake, beacon, heard, cause>>

\* wol_prepare, called by usb_handler when there are flags.
wol_prepare ==
    /\ mode = "awake" /\ cmd.flags # {} /\ mode' = "suspended"
    /\ regs' = [mac |-> cmd.mac, bssid |-> cmd.bssid]
    /\ beacon' = 0 /\ heard' = 0
    /\ UNCHANGED <<sent, cmd, wake, cause>>

-----------------------------------------------------------------------------
(***************************************************************************)
(* wol_rx: each frame received while suspended.  cause keeps what the host *)
(* has asked to be woken for (sent, not what was copied) by whom it was    *)
(* addressed to: everybody, the host, or the zero address.                 *)
(***************************************************************************)
Note(c) == cause' = cause \cup {c}
To(address) == CASE address = Broadcast -> "toall"
                 [] address = Zero -> "tozero"
                 [] OTHER -> "tohost"
NoteFrame(flag, address) ==
    IF flag \in sent.flags /\ address \in {Broadcast, Zero, sent.mac}
      THEN Note(To(address)) ELSE UNCHANGED cause
Quiet == UNCHANGED <<sent, cmd, regs, mode>>

Asked(f) == f \in cmd.flags

(***************************************************************************)
(* AR9170_RX_ERROR_WRONG_RA, set by the hardware for a frame that is       *)
(* neither for the address in its register nor for everybody, and          *)
(* CARL9170_RX_FILTER_OTHER_RA that wlan_rx_filter makes of it.  Since     *)
(* wol_prepare the register holds the zero address: that of the host was   *)
(* not copied.                                                             *)
(***************************************************************************)
WrongRa(ra) == ra \notin {regs.mac, Broadcast}

\* wlan_rx_wol_disconnect; a frame for another receiver is ignored.
RxDeauth(ra) ==
    /\ wake' = (wake \/ (Asked("disconnect") /\ ~WrongRa(ra)))
    /\ NoteFrame("disconnect", ra)
    /\ Quiet /\ UNCHANGED <<beacon, heard>>

RxBeacon(ap) ==
    /\ beacon' = IF Asked("disconnect") /\ ap = regs.bssid THEN 0 ELSE beacon
    /\ heard' = IF ap = sent.bssid THEN 0 ELSE heard
    /\ Quiet /\ UNCHANGED <<wake, cause>>

RxMagic(mac) ==
    /\ wake' = (wake \/ (Asked("magic") /\ mac = regs.mac))
    /\ NoteFrame("magic", mac)
    /\ Quiet /\ UNCHANGED <<beacon, heard>>

(***************************************************************************)
(* wlan_rx_wol_probe_ssid compares ssid_len + 1 bytes of the information   *)
(* element, whose first two are its number and its length: the last byte   *)
(* of the SSID is not compared.                                            *)
(***************************************************************************)
ProbeMatches(ssid) ==
    Len(ssid) = Len(Ssid) /\ \A i \in 1 .. Len(Ssid) - 1 : ssid[i] = Ssid[i]

RxProbe(ssid) ==
    /\ wake' = (wake \/ ProbeMatches(ssid))
    /\ Note(IF ssid = Ssid THEN "probe" ELSE "otherprobe")
    /\ Quiet /\ UNCHANGED <<beacon, heard>>

Rx == /\ mode = "suspended"
      /\ \/ \E ra \in Macs \cup {Zero, Broadcast} : RxDeauth(ra)
         \/ \E ap \in Aps \cup {Zero} : RxBeacon(ap)
         \/ \E m \in Macs \cup {Zero} : RxMagic(m)
         \/ \E s \in Ssids : RxProbe(s)

-----------------------------------------------------------------------------
\* Slip: the age of the last beacon is compared at the next beacon only.
NeverLost == FALSE

\* is_after_msecs(fw.wol.last_beacon, 10000)
BeaconLost == beacon > LostTicks

(***************************************************************************)
(* wol_janitor, once per round: without a beacon for 10 seconds wake up.   *)
(* Null frames are never sent: their interval is among what wol_cmd does   *)
(* not copy, so it stays 0.                                                *)
(***************************************************************************)
Lost == Asked("disconnect") /\ BeaconLost

wol_janitor ==
    /\ mode = "suspended"
    /\ wake' = (wake \/ Lost)
    /\ cause' = IF Lost THEN cause \cup {"lost"} ELSE cause
    /\ mode' = IF wake' THEN "awake_host" ELSE mode
    /\ UNCHANGED <<sent, cmd, regs, beacon, heard>>

\* Time; ages beyond the limit are all alike.
Tick ==
    /\ mode = "suspended" /\ (beacon <= LostTicks \/ heard <= LostTicks)
    /\ beacon' = IF beacon <= LostTicks THEN beacon + 1 ELSE beacon
    /\ heard' = IF heard <= LostTicks THEN heard + 1 ELSE heard
    /\ UNCHANGED <<sent, cmd, regs, mode, wake, cause>>

\* The host wakes up, or sleeps on; after a resume UsbCtrl reboots.
Next == wol_cmd \/ wol_prepare \/ Rx \/ wol_janitor \/ Tick

\* The main loop turns and time passes.
Fairness == WF_vars(wol_janitor) /\ WF_vars(Tick)

Spec == Init /\ [][Next]_vars /\ Fairness

-----------------------------------------------------------------------------
\* Each variable has its type.
TypeOK ==
    /\ sent \in Commands \cup {NoCmd} /\ cmd.flags \subseteq Flags
    /\ mode \in {"awake", "suspended", "awake_host"} /\ wake \in BOOLEAN
    /\ beacon \in 0 .. LostTicks + 1 /\ heard \in 0 .. LostTicks + 1
    /\ cause \subseteq {"toall", "tohost", "tozero", "probe", "otherprobe", "lost"}

\* What wakes the host is a frame to everybody or to the zero address, of a kind
\* it has asked for, a probe request, or a connection taken for lost: a frame
\* for the host itself does not, because its address was not copied.
WakeHasCause == wake => cause \ {"tohost"} # {}

\* A deauthentication for everybody wakes a host that has asked for it, whatever
\* the command has left uncopied.
DeauthWakes == "toall" \in cause => wake

\* A host that has asked to be woken when disconnected is woken when its access
\* point is gone, unless a beacon of the zero address comes, which the firmware
\* takes for one of the access point.
LostWakes ==
    mode = "suspended" /\ "disconnect" \in sent.flags /\ heard > LostTicks ~>
        mode = "awake_host" \/ heard = 0 \/ beacon = 0

\* "connection lost after 10sec without receiving a beacon": the connection is
\* not taken for lost while beacons of the access point arrive.
LostMeansNoBeacon == [][cause' # cause /\ "lost" \in cause' => heard > LostTicks]_vars

\* "should catch both broadcast and unicast MLMEs": a frame for the host itself,
\* of a kind it has asked for, wakes it.
OwnFrameWakes == "tohost" \in cause => wake

\* "Scan probe requests for a given SSID.": others do not wake the host.
WakeOnlyForSsid == wake => cause # {"otherprobe"}
=============================================================================
