CONSTANTS
  Region = {r1, r2}
  NoFrame = NoFrame
  FastPowersOff = FALSE
  BeginMayHang = FALSE
  GrayPlane <- Masks
  Window <- Halves
  TurnOff = {TRUE, FALSE}
  Answer = {"ok", "refreshHangs"}
  HostMay = {}
SYMMETRY Symmetry
SPECIFICATION Spec
INVARIANTS
  ShadowIsScreen
  PendingFrameIntact
PROPERTIES
  ImplementsPageDisplay
