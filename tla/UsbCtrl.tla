------------------------------ MODULE UsbCtrl ------------------------------
(***************************************************************************)
(* The USB control endpoint and the life of the firmware on the bus:       *)
(* carlfw/usb/usb.c (standard requests), carlfw/usb/main.c (usb_handler,   *)
(* suspend, resume, reset, reboot, watchdog) and start() and handle_fw()   *)
(* of carlfw/src/main.c.  One round of the main loop is HandleFw (feed the *)
(* watchdog, reboot on request), Host (commands), HandleUsb.               *)
(*                                                                         *)
(* The host sends one control request at a time and waits for its answer.  *)
(* GO_TO_SUSPEND stops the CPU inside usb_handler; the clock comes back    *)
(* with the resume signal and the handler goes on with the interrupt byte  *)
(* it had read before.                                                     *)
(***************************************************************************)
EXTENDS UsbFifo, FiniteSets

CONSTANTS
    STANDARD_CMDS, MODESWITCH, WOL,   \* CONFIG_CARL9170FW_... options
    Requests,                         \* control requests the host may send
    MaxCrash                          \* bound on watchdog bites

VARIABLES
    phase,      \* "boot" (ROM), "run", "stopped" (CPU clock off), "hung"
    pc,         \* place in the round: "fw", "host", "usb"
    core,       \* USB core: hs, addr, conf, wakeup, regs, outInt, toggles
    fwusb,      \* fw.usb: config, alt, feature; fw.reboot; fw.wol.cmd.flags
    suspend,    \* fw.suspend_mode
    src7,       \* USB reset, suspend and resume, as INTR_SOURCE_7 shows them
    seen,       \* the byte usb_handler works on while the CPU is stopped
    req,        \* the request in the SETUP FIFO, or NoReq
    last,       \* what the handler returned, what was answered, what was sent
    wdog,       \* watchdog: armed, magic word, warm starts counted
    crashes     \* history: how often the watchdog really bit

vars == <<phase, pc, core, fwusb, suspend, src7, seen, req, last, wdog, crashes>>
ctl == <<core, fwusb>>

NoReq == [type |-> "none"]
Idle == [ret |-> 0, answer |-> "none", sent |-> <<>>]
Features == {1, 2}                 \* bits of a feature word the model keeps
RemoteWakeup == 1                  \* USB_DEVICE_REMOTE_WAKEUP, used as a mask
DmaEnabled == 3                    \* ENABLE_TO_DEVICE | ENABLE_FROM_DEVICE

\* usb_pta_init: both directions on, 512 byte transfers at high speed.
PtaInit(hs, regs) == [regs EXCEPT ![DmaCtl] = DmaEnabled + (IF hs THEN 4 ELSE 0) + 16]

(***************************************************************************)
(* start() and init().  boot() zeroes fw; usb_init sets the configuration  *)
(* and, with WOL, the remote wakeup feature.  The ROM has enumerated the   *)
(* device before it runs the firmware, and a warm start keeps the core.    *)
(***************************************************************************)
FreshFw == [config |-> 1, alt |-> 0, reboot |-> FALSE, wol |-> {},
            feature |-> IF WOL THEN {RemoteWakeup} ELSE {}]

StartCore(c) == [c EXCEPT !.regs = PtaInit(c.hs, @), !.wakeup = @ \/ WOL]

StartWdog == [armed |-> TRUE, magic |-> "run",
              warm |-> wdog.warm + (IF wdog.magic = "run" THEN 1 ELSE 0)]

Start ==
    /\ fwusb' = FreshFw
    /\ wdog' = StartWdog
    /\ suspend' = "awake"
    /\ phase' = "run" /\ pc' = "fw"
    /\ UNCHANGED <<src7, req, last, seen>>

InitRegs == [o \in {DmaCtl} \cup UNION {{InMaxHigh + 2 * e, InMaxLow + 2 * e,
                       OutMaxHigh + 2 * e, OutMaxLow + 2 * e} : e \in Endpoints} |-> 0]

RomCore(hs, regs) ==
    [hs |-> hs, addr |-> 1, conf |-> TRUE, wakeup |-> FALSE, outInt |-> TRUE,
     toggles |-> {}, regs |-> regs]

Init ==
    /\ phase = "boot" /\ pc = "fw"
    /\ \E hs \in BOOLEAN : core = RomCore(hs, InitRegs)
    /\ fwusb = [FreshFw EXCEPT !.feature = {}]
    /\ suspend = "awake"
    /\ src7 = {} /\ seen = {} /\ req = NoReq /\ last = Idle
    /\ wdog = [armed |-> FALSE, magic |-> "none", warm |-> 0]
    /\ crashes = 0

\* The host uploads the firmware to the boot ROM, which runs it.
Upload == phase = "boot" /\ Start /\ core' = StartCore(core) /\ UNCHANGED crashes

(***************************************************************************)
(* reboot(): watchdog off, DMA off, back to the boot ROM, which resets the *)
(* core; the host enumerates the device again, at either speed.  What the  *)
(* handler did before in the same call is lost.                            *)
(***************************************************************************)
DisableWatchdog(w) == [w EXCEPT !.armed = FALSE, !.magic = "suspend"]

\* Slip: the power is turned off before anybody thought of the watchdog.
WatchdogLeft(w) == [w EXCEPT !.magic = "suspend"]

RebootWdog(w) == DisableWatchdog(w)

Reboot ==
    /\ phase' = "boot" /\ pc' = "fw"
    /\ wdog' = RebootWdog(wdog)
    /\ \E hs \in BOOLEAN : core' = RomCore(hs, InitRegs)
    /\ req' = NoReq /\ last' = Idle /\ src7' = {} /\ seen' = {}

-----------------------------------------------------------------------------
\* Standard requests, carlfw/usb/usb.c.  A handler returns -1, or 1.

\* USB_CHECK_REQTYPE, negated.
Matches(r, recip, in) == r.recip = recip /\ r.in = in

Reply(ret, sent) ==
    last' = [ret |-> ret, answer |-> IF ret < 0 THEN "stall" ELSE "done", sent |-> sent]

Refuse == Reply(-1, <<>>) /\ UNCHANGED ctl
Send(data) == Reply(1, data) /\ UNCHANGED ctl

\* usb_get_status: USB_DEVICE_SELF_POWERED is 0, so only bit 0 is masked.
GetStatus(r) ==
    IF ~r.in THEN Refuse
    ELSE Send(CASE r.recip = "device" -> <<"status", fwusb.feature \ {RemoteWakeup}>>
                [] r.recip = "interface" -> <<"intfstatus", {}>>
                [] OTHER -> <<"epstatus", fwusb.feature>>)

\* wMaxPacketSize of endpoints 1 to 4 in the two configuration descriptors.
usb_config_highspeed == <<512, 512, 64, 64>>
usb_config_fullspeed == <<64, 64, 64, 64>>
cfg_desc(hs) == IF hs THEN usb_config_highspeed ELSE usb_config_fullspeed

\* wValue of the descriptors there are: the type, and the number of a string.
HasDescriptor(value) ==
    \/ value \div 256 \in {1, 2, 6} \cup (IF MODESWITCH THEN {7} ELSE {})
    \/ value \div 256 = 3 /\ value % 256 \in {0, 16, 32, 48}

\* usb_get_descriptor; cfg_desc and os_cfg_desc follow the speed.
GetDescriptor(r) ==
    IF Matches(r, "device", TRUE) /\ HasDescriptor(r.value)
      THEN Send(<<"descriptor", r.value \div 256, core.hs # (r.value \div 256 = 7)>>)
      ELSE Refuse

GetConfiguration(r) ==
    IF Matches(r, "device", TRUE) THEN Send(<<"configuration", fwusb.config>>) ELSE Refuse

GetInterface(r) ==
    IF Matches(r, "interface", TRUE) /\ core.conf /\ fwusb.config = 1
      THEN Send(<<"setting", fwusb.alt>>)
      ELSE Refuse

\* Setting the address clears the CONFIGURE bit: it is in the same byte.
SetAddress(r) ==
    IF Matches(r, "device", FALSE) /\ r.value < 128
      THEN /\ core' = [core EXCEPT !.addr = r.value, !.conf = FALSE]
           /\ Reply(1, <<>>) /\ UNCHANGED fwusb
      ELSE Refuse

\* usb_reset_eps, usb_enable_global_int, usb_trigger_out.
Reconfigured(c) ==
    [c EXCEPT !.regs = FifoCfg(c.hs, @), !.toggles = {}, !.outInt = TRUE]

(***************************************************************************)
(* usb_set_configuration.  0 clears CONFIGURE and falls through: with      *)
(* MODESWITCH into the case of 1, which sets it again, without into the    *)
(* refusal of everything.                                                  *)
(***************************************************************************)
SetConfiguration(r) ==
    IF ~Matches(r, "device", FALSE) THEN Refuse
    ELSE IF MODESWITCH /\ r.value \in {0, 1}
      THEN /\ core' = [Reconfigured(core) EXCEPT !.conf = TRUE]
           /\ fwusb' = [fwusb EXCEPT !.config = r.value]
           /\ Reply(1, <<>>)
      ELSE /\ core' = [core EXCEPT !.conf = @ /\ r.value # 0]
           /\ Reply(-1, <<>>) /\ UNCHANGED fwusb

\* usb_set_interface: one interface with one setting.
SetInterface(r) ==
    IF MODESWITCH /\ Matches(r, "interface", FALSE) /\ core.conf
         /\ r.index = 0 /\ r.value = 0
      THEN /\ core' = Reconfigured(core)
           /\ fwusb' = [fwusb EXCEPT !.alt = 0]
           /\ Reply(1, <<>>)
      ELSE Refuse

\* The features after usb_manipulate_feature.
Bits(value) == {b \in Features : (value \div b) % 2 = 1}
NewFeatures(r) == IF r.req = "clear_feature" THEN fwusb.feature \ Bits(r.value)
                                             ELSE fwusb.feature \cup Bits(r.value)

\* MAIN_CTRL_REMOTE_WAKEUP after usb_manipulate_feature.
NewWakeup(r) == IF WOL /\ RemoteWakeup \in Bits(r.value) THEN r.req # "clear_feature"
                                                    ELSE core.wakeup

(***************************************************************************)
(* usb_manipulate_feature returns 1, and usb_standard_command drops it:    *)
(* the request is carried out and stalled.                                 *)
(***************************************************************************)
ManipulateFeature(r) ==
    IF Matches(r, "device", FALSE) /\ core.conf
      THEN /\ fwusb' = [fwusb EXCEPT !.feature = NewFeatures(r)]
           /\ core' = [core EXCEPT !.wakeup = NewWakeup(r)]
           /\ last' = [ret |-> 1, answer |-> "stall", sent |-> <<>>]
      ELSE Refuse

\* usb_ep0setup: class and vendor requests are refused.
Setup(r) ==
    IF r.type # "standard" \/ ~STANDARD_CMDS THEN Refuse
    ELSE CASE r.req = "get_status" -> GetStatus(r)
           [] r.req \in {"set_feature", "clear_feature"} -> ManipulateFeature(r)
           [] r.req = "set_address" -> SetAddress(r)
           [] r.req = "get_descriptor" -> GetDescriptor(r)
           [] r.req = "get_configuration" -> GetConfiguration(r)
           [] r.req = "set_configuration" -> SetConfiguration(r)
           [] r.req = "get_interface" -> GetInterface(r)
           [] r.req = "set_interface" -> SetInterface(r)
           [] OTHER -> Refuse

-----------------------------------------------------------------------------
\* The main loop.

\* handle_fw: write the watchdog's timer, reboot if asked to.
FeedWatchdog ==
    /\ wdog' = [wdog EXCEPT !.armed = TRUE] /\ pc' = "host"
    /\ UNCHANGED <<phase, core, src7, seen, req, last>>
HandleFw ==
    /\ phase = "run" /\ pc = "fw"
    /\ IF fwusb.reboot THEN Reboot ELSE FeedWatchdog
    /\ UNCHANGED <<fwusb, suspend, crashes>>

\* handle_host_interface: CMD_REBOOT and CMD_WOL matter here.
Host ==
    /\ phase = "run" /\ pc = "host" /\ pc' = "usb"
    /\ \/ UNCHANGED fwusb
       \/ suspend = "awake" /\ fwusb' = [fwusb EXCEPT !.reboot = TRUE]
       \/ /\ WOL /\ suspend = "awake"
          /\ \E f \in SUBSET {"disconnect", "magic"} : fwusb' = [fwusb EXCEPT !.wol = f]
    /\ UNCHANGED <<phase, core, suspend, src7, seen, req, last, wdog, crashes>>

\* The SETUP part of usb_handler.
Control ==
    IF req = NoReq THEN UNCHANGED <<req, last, core, fwusb>>
                   ELSE Setup(req) /\ req' = NoReq

\* The firmware stays awake for the host only if it may wake it up.
StaysAwake(usb) == WOL /\ RemoteWakeup \in usb.feature /\ usb.wol # {}

(***************************************************************************)
(* usb_handler after the control part, for the interrupts s: a reset       *)
(* reboots; a suspend stops the CPU, or prepares wake on LAN; a resume     *)
(* reboots.  Stopped, the handler keeps s for later.                       *)
(***************************************************************************)
HandleUsb ==
    /\ phase = "run" /\ pc = "usb"
    /\ \/ /\ "reset" \in src7 /\ Reboot
          /\ UNCHANGED <<fwusb, suspend>>
       \/ /\ "reset" \notin src7 /\ Control
          /\ seen' = src7 \ {"suspend"}
          /\ IF "suspend" \in src7
               THEN /\ suspend' = "suspended"
                    /\ phase' = IF StaysAwake(fwusb') THEN "run" ELSE "stopped"
                    /\ wdog' = IF StaysAwake(fwusb') THEN wdog ELSE DisableWatchdog(wdog)
               ELSE UNCHANGED <<suspend, phase, wdog>>
          /\ src7' = src7 \ {"suspend"}
          /\ pc' = "resume"
    /\ UNCHANGED crashes

\* Slip: the resume is acknowledged, and the firmware goes on as before.
ResumeAcked ==
    /\ phase = "run" /\ pc = "resume" /\ pc' = "fw" /\ seen' = {}
    /\ src7' = src7 \ {"resume"} /\ suspend' = "awake"
    /\ UNCHANGED <<phase, core, req, last, wdog, fwusb, crashes>>

\* The last part of usb_handler: a resume it has seen reboots.
HandleResume ==
    /\ phase = "run" /\ pc = "resume"
    /\ IF "resume" \in seen
         THEN /\ Reboot /\ suspend' = "awake"
         ELSE /\ pc' = "fw" /\ seen' = {}
              /\ UNCHANGED <<phase, core, suspend, src7, req, last, wdog>>
    /\ UNCHANGED <<fwusb, crashes>>

\* The resume signal gives a stopped CPU its clock again.
ClockBack ==
    /\ phase = "stopped" /\ src7 \cap {"resume", "reset"} # {}
    /\ phase' = "run"
    /\ UNCHANGED <<pc, core, fwusb, suspend, src7, seen, req, last, wdog, crashes>>

-----------------------------------------------------------------------------
\* The host and the hardware.

Request ==
    /\ phase \in {"run", "hung"} /\ req = NoReq /\ suspend = "awake"
    /\ "suspend" \notin src7
    /\ \E r \in Requests : req' = r
    /\ last' = Idle
    /\ UNCHANGED <<phase, pc, core, fwusb, suspend, src7, seen, wdog, crashes>>

\* A bus event; the host resumes only a bus it has suspended.
BusEvent ==
    /\ phase # "boot"
    /\ \E ev \in {"reset", "suspend", "resume"} \ src7 :
         /\ ev = "suspend" => suspend = "awake" /\ src7 = {} /\ req = NoReq
         /\ ev = "resume" => suspend = "suspended" \/ "suspend" \in src7
         /\ src7' = src7 \cup {ev}
    /\ UNCHANGED <<phase, pc, core, fwusb, suspend, seen, req, last, wdog, crashes>>

\* A data transfer moves an endpoint's toggle.
Data ==
    /\ phase = "run" /\ core.conf /\ suspend = "awake"
    /\ \E e \in {1, 3} : core' = [core EXCEPT !.toggles = (@ \cup {e}) \ (@ \cap {e})]
    /\ UNCHANGED <<phase, pc, fwusb, suspend, src7, seen, req, last, wdog, crashes>>

\* The firmware hangs; the watchdog, if it runs, starts it again.
Hang == /\ phase = "run" /\ crashes < MaxCrash /\ phase' = "hung"
        /\ UNCHANGED <<pc, core, fwusb, suspend, src7, seen, req, last, wdog, crashes>>

Bite == /\ phase = "hung" /\ wdog.armed
        /\ Start /\ core' = [StartCore(core) EXCEPT !.outInt = TRUE]
        /\ crashes' = crashes + 1

Next == \/ Upload \/ HandleFw \/ Host \/ HandleUsb \/ HandleResume \/ ClockBack
        \/ Request \/ BusEvent \/ Data \/ Hang \/ Bite

\* The main loop turns, the clock comes back, the watchdog bites.
Fairness == /\ WF_vars(HandleFw) /\ WF_vars(Host) /\ WF_vars(HandleUsb)
            /\ WF_vars(HandleResume) /\ WF_vars(ClockBack) /\ WF_vars(Bite)

Spec == Init /\ [][Next]_vars /\ Fairness

-----------------------------------------------------------------------------
\* Properties.

\* Every register and every field of the firmware context has its type.
TypeOK ==
    /\ phase \in {"boot", "run", "stopped", "hung"}
    /\ pc \in {"fw", "host", "usb", "resume"}
    /\ core.addr \in 0 .. 127 /\ {core.hs, core.conf, core.wakeup} \subseteq BOOLEAN
    /\ \A o \in DOMAIN core.regs : core.regs[o] \in 0 .. 255
    /\ fwusb.config \in {0, 1} /\ fwusb.feature \subseteq Features
    /\ src7 \cup seen \subseteq {"reset", "suspend", "resume"}
    /\ wdog.warm \in 0 .. MaxCrash

\* Nobody feeds the watchdog in the boot ROM or while the CPU is stopped: there
\* it must be off, or it would start the firmware behind the host's back.  While
\* the firmware handles commands and the bus, a hang must be caught.
WatchdogFollowsLife ==
    /\ phase \in {"boot", "stopped"} => ~wdog.armed
    /\ phase = "run" /\ pc \in {"host", "usb"} => wdog.armed

\* start() counts a warm start only when the watchdog has bitten: reboots on
\* request, on reset and after a resume leave another magic word behind.  While
\* the host is awake a bite would be counted; between the end of a suspend and
\* the reboot it would not, for handle_fw arms the timer but not the word.
WarmStartMeansBite ==
    /\ wdog.warm <= crashes
    /\ phase \in {"run", "hung"} /\ suspend = "awake" => wdog.magic = "run"

\* With wake on LAN the firmware decides by its feature word whether it may
\* wake the host, and the core by its own bit: they agree.
WakeupAgrees == WOL /\ phase = "run" => (core.wakeup <=> RemoteWakeup \in fwusb.feature)

\* While the host sleeps the firmware runs on only if the core lets it wake the
\* host and there is something to wake it for, or on its last way to the reboot.
AwakeForAReason ==
    phase = "run" /\ suspend = "suspended" /\ pc = "host" =>
        \/ core.wakeup /\ fwusb.wol # {}
        \/ src7 \cap {"resume", "reset"} # {}

\* A stalled request leaves configuration, address and toggles alone; what it
\* may have changed is a feature, or the configured state it has given up.
StallChangesLittle ==
    [][last'.answer = "stall" /\ last.answer # "stall" =>
         /\ core'.addr = core.addr /\ core'.toggles = core.toggles
         /\ core'.regs = core.regs /\ fwusb'.config = fwusb.config
         /\ core'.conf => core.conf]_vars

\* A device the host resets, or resumes after a suspend, is in the boot ROM in
\* the end, ready for a new firmware, whatever other bus events and requests come
\* in between (unless the firmware crashes: MaxCrash = 0 where this is checked).
ResumeReboots == src7 \cap {"resume", "reset"} # {} ~> phase = "boot"

\* usb/main.c stalls endpoint 0 for a "transmission failure": a request the
\* handler has carried out is not stalled.
SuccessIsAnswered == last.ret > 0 => last.answer = "done"

\* "Disable Device": after SET_CONFIGURATION 0 the device is not configured.
ConfigZeroDisables == fwusb.config = 0 => ~core.conf

\* Features "are read as a bit array returned by USB_REQ_GET_STATUS": bit 1 of
\* the answer tells whether remote wakeup is enabled.
StatusTellsWakeup ==
    \A s \in SUBSET Features :
        req = NoReq /\ last.answer = "done" /\ last.sent = <<"status", s>> =>
            ((2 \in s) <=> core.wakeup)

\* Up and down stream stay enabled while the firmware runs.
DmaStaysEnabled == phase = "run" => core.regs[DmaCtl] = PtaInit(core.hs, core.regs)[DmaCtl]

\* After a switch of the configuration the core takes packets of the size the
\* descriptors announce.
PacketSizeAgrees ==
    core.regs[InMaxLow + 6] # 0 =>
        \A e \in Endpoints : CoreMaxPacket(core.regs, e) = cfg_desc(core.hs)[e]
=============================================================================
