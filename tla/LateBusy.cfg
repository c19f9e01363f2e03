CONSTANTS
  Region = {r1}
  NoFrame = NoFrame
  FastPowersOff = FALSE
  BeginMayHang = TRUE
  GrayPlane = {}
  Window = {}
  TurnOff = {FALSE}
  Answer = {"ok"}
  HostMay = {}
SPECIFICATION Spec
INVARIANT NoGhost
