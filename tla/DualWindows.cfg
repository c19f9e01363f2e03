CONSTANTS
  Region = {r1, r2}
  NoFrame = NoFrame
  FastPowersOff = TRUE
  BeginMayHang = FALSE
  GrayPlane <- Everything
  Window <- Halves
  TurnOff = {FALSE}
  Answer = {"ok"}
  HostMay = {}
SYMMETRY Symmetry
SPECIFICATION Spec
PROPERTIES
  ImplementsPageDisplay
