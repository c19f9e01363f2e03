CONSTANTS
  Region = {r1}
  NoFrame = NoFrame
  FastPowersOff = FALSE
  BeginMayHang = FALSE
  GrayPlane = {}
  Window = {}
  TurnOff = {FALSE}
  Answer = {"ok"}
  HostMay = {"shadow"}
SPECIFICATION Spec
INVARIANT NoGhost
