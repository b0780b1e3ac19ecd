\* Four broadcast frames; counts up to 3; two access points and addresses, the
\* connection lost after two ticks; a device that may wake the host.
SPECIFICATION AllSpec
CONSTANTS
  Parts = {"cab", "radio", "wol", "usb"}
  MaxFrames = 4
  MaxCount = 3
  MaxCmds = 4
  Aps = {ap1, ap2}
  Macs = {m1, m2}
  Zero = zero
  Broadcast = broadcast
  Ssid <- MCSsid
  Ssids <- MCSsids
  LostTicks = 2
  STANDARD_CMDS = TRUE
  MODESWITCH = FALSE
  WOL = TRUE
  Requests <- WakeupRequests
  MaxCrash = 0
INVARIANTS AnnouncedFirst BitUndone PromiseKept
PROPERTIES CabSent RadioGoesOn HostWoken ResumeReboots
\* A broadcast queue runs empty; a host that is woken comes back by itself.
CHECK_DEADLOCK FALSE
