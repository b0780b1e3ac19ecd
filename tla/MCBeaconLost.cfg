\* A host with two access points in reach, whose connection is lost after two ticks.
SPECIFICATION AllSpec
CONSTANTS
  Parts = {"wol"}
  MaxFrames = 4
  MaxCount = 3
  MaxCmds = 4
  Aps = {ap1, ap2}
  Macs = {m1, m2}
  Zero = zero
  Broadcast = broadcast
  Ssid <- MCSsid
  Ssids <- MCSsids
  LostTicks = 2
  STANDARD_CMDS = TRUE
  MODESWITCH = FALSE
  WOL = TRUE
  Requests <- WakeupRequests
  MaxCrash = 0
PROPERTIES LostMeansNoBeacon
\* A broadcast queue runs empty; a host that is woken comes back by itself.
CHECK_DEADLOCK FALSE
