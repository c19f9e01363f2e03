CONSTANTS
  Region = {r1}
  NoFrame = NoFrame
  FastPowersOff = FALSE
  BeginMayHang = FALSE
  GrayPlane <- Everything
  Window = {}
  TurnOff = {TRUE, FALSE}
  Answer = {"ok", "refreshHangs", "powerOffHangs"}
  HostMay = {}
SPECIFICATION Spec
INVARIANTS
  NoGhost
  BuffersOwned
  PendingFrameHeld
  ParkedPowerOffIsOwed
PROPERTIES
  LentUntouched
