------------------------------- MODULE Radio -------------------------------
(***************************************************************************)
(* Channel changes and power save: carlfw/src/rf.c, the commands of        *)
(* cmd.c that call it, handle_pretbtt of wlan.c and the test of the power  *)
(* save state in __wlan_tx.  Power save counts beacons: a command sets     *)
(* SLEEP and a count, each PRETBTT interrupt counts down, and at 0 the     *)
(* radio wakes up.  State 0 also means that the driver does not use it.    *)
(***************************************************************************)
EXTENDS Naturals

CONSTANTS
    MaxCount,   \* bound on the count in a power save command
    MaxCmds     \* bound on power save commands and channel changes

VARIABLES
    psm,        \* fw.phy.psm.state: the SLEEP bit and the count below it
    phy,        \* fw.phy.state: "on", "off"
    cca,        \* CCA threshold and virtual CCA: "go", "stop" (no transmission)
    adda,       \* ADDAC and synthesizer: "up", "down"
    ready,      \* the driver has sent RF_INIT
    changing,   \* the driver is between FREQ_START and FREQUENCY
    cmds,       \* commands sent
    txq,        \* a frame waits in a hardware queue
    bug         \* history: BUG_ON of __wlan_tx has fired

vars == <<psm, phy, cca, adda, ready, changing, cmds, txq, bug>>
driver == <<ready, changing, cmds>>
radio == <<psm, phy, adda>>

Software == [sleep |-> FALSE, count |-> 0]    \* CARL9170_PSM_SOFTWARE, _WAKE

\* The fw structure is zero after boot(): the PHY is off until RF_INIT.
Init ==
    /\ psm = Software /\ phy = "off" /\ cca = "go" /\ adda = "down"
    /\ ready = FALSE /\ changing = FALSE /\ cmds = 0 /\ txq = FALSE /\ bug = FALSE

(***************************************************************************)
(* rf_psm, applied to state s: nothing if the driver does not use it; go   *)
(* to sleep if the SLEEP bit is set, and clear it; else count down, and    *)
(* wake up at 0.                                                           *)
(***************************************************************************)
Sleep(s) ==
    /\ psm' = [s EXCEPT !.sleep = FALSE]
    /\ phy' = "off" /\ adda' = "down"

Wake ==
    /\ psm' = Software
    /\ phy' = "on" /\ adda' = "up"

CountDown(s) ==
    IF s.count = 1 THEN Wake
    ELSE psm' = [s EXCEPT !.count = @ - 1] /\ UNCHANGED <<phy, adda>>

rf_psm(s) ==
    IF s = Software THEN psm' = s /\ UNCHANGED <<phy, adda>>
    ELSE IF s.sleep THEN Sleep(s)
    ELSE CountDown(s)

\* CARL9170_CMD_PSM.
CmdPsm ==
    /\ ready /\ cmds < MaxCmds /\ cmds' = cmds + 1
    /\ \E s \in [sleep : BOOLEAN, count : 0 .. MaxCount] : rf_psm(s)
    /\ UNCHANGED <<cca, ready, changing, txq, bug>>

\* Slip: no beacon is expected while the PHY is off.
PretbttOn ==
    /\ IF phy = "on" THEN rf_psm(psm) ELSE UNCHANGED radio
    /\ UNCHANGED <<cca, driver, txq, bug>>

\* The PRETBTT interrupt.
Pretbtt ==
    /\ rf_psm(psm)
    /\ UNCHANGED <<cca, driver, txq, bug>>

(***************************************************************************)
(* CARL9170_CMD_FREQ_START stops transmissions; FREQUENCY and RF_INIT      *)
(* (which also programs ADDAC and wakes the analog part) end with          *)
(* set_channel_end, whether the calibration has ended in time or not.  The *)
(* driver begins with RF_INIT and brackets each change with FREQ_START.    *)
(***************************************************************************)
rf_notify_set_channel ==
    /\ ~changing /\ cmds < MaxCmds /\ cmds' = cmds + 1
    /\ cca' = "stop" /\ phy' = "off" /\ changing' = TRUE
    /\ UNCHANGED <<psm, adda, ready, txq, bug>>

set_channel_end == cca' = "go" /\ phy' = "on"

program_ADDAC(initialize) == adda' = IF initialize THEN "up" ELSE adda

RfCmd(initialize) ==
    /\ changing /\ (ready \/ initialize)
    /\ program_ADDAC(initialize)
    /\ set_channel_end
    /\ ready' = TRUE /\ changing' = FALSE
    /\ UNCHANGED <<psm, cmds, txq, bug>>

(***************************************************************************)
(* __wlan_tx is called for frames from the host, which sends none while    *)
(* the radio is in power save, and for retries of a frame whose            *)
(* transmission failed.                                                    *)
(***************************************************************************)
WlanTx == bug' = (bug \/ psm # Software)

HostFrame == ready /\ psm = Software /\ ~txq /\ txq' = TRUE /\ WlanTx
             /\ UNCHANGED <<radio, cca, driver>>

Retry == txq /\ WlanTx /\ UNCHANGED <<radio, cca, driver, txq>>

Sent == txq /\ phy = "on" /\ cca = "go" /\ txq' = FALSE
        /\ UNCHANGED <<radio, cca, driver, bug>>

Next == \/ CmdPsm \/ Pretbtt \/ rf_notify_set_channel
        \/ \E i \in BOOLEAN : RfCmd(i)
        \/ HostFrame \/ Retry \/ Sent

\* Beacon intervals pass, and the driver ends the channel changes it starts.
Fairness == WF_vars(Pretbtt) /\ WF_vars(\E i \in BOOLEAN : RfCmd(i))

Spec == Init /\ [][Next]_vars /\ Fairness

-----------------------------------------------------------------------------
\* Each variable has its type; the SLEEP bit is acted on in the call that sets it.
TypeOK ==
    /\ psm \in [sleep : {FALSE}, count : 0 .. MaxCount]
    /\ phy \in {"on", "off"} /\ cca \in {"go", "stop"} /\ adda \in {"up", "down"}
    /\ {ready, changing, txq, bug} \subseteq BOOLEAN /\ cmds \in 0 .. MaxCmds

\* fw.phy.state says "off" only with a reason: transmissions are stopped for a
\* channel change, or the analog part is down.  (It may say "on" when it is not:
\* power save wakes up inside a channel change, or a channel change ends inside
\* power save.)
OffHasReason == phy = "off" => cca = "stop" \/ adda = "down"

\* A radio put to sleep with a count wakes up in the end, whatever channel
\* changes and further counts come in between.
CountEnds == psm.count > 0 ~> psm = Software

\* A channel change lets transmissions go on in the end, though its calibration
\* may not end and power save may begin or end inside it.
TransmissionResumes == cca = "stop" ~> cca = "go"

\* rf_psm takes state 0 for "not enabled by the driver": once the driver has
\* initialised the radio and does not use power save, the radio is powered.
SoftwareMeansPowered == psm = Software /\ ready => adda = "up"

\* BUG_ON(fw.phy.psm.state != CARL9170_PSM_WAKE): no frame is handed to the
\* hardware while the radio counts beacons.
NoTxWhileAsleep == ~bug
=============================================================================
