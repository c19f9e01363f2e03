SPECIFICATION Spec
CONSTANTS
  b0 = b0
  b1 = b1
  kbd = kbd
  pad = pad
  axis = axis
  TapId = tap
  Report = {kbd, pad, axis}
  Keyboard = {kbd}
  Bare = {}
  AxisPad = {axis}
  Bytes = 2
  Bit <- AllBits
  Frames <- Sent
  Preferred = 2
  GenericAlways = TRUE
  RollOver <- B0
  ZoneUsage <- Zones
  RestSlots = 1
  RawCap = 3
  KeyCap = 1
  Peer = {p, q}
  NoPeer = none
  MaxBonds = 1
  SelectedAttempts = 2
  Chunks = 2
  Offset <- Offsets
  EventCount = 2
INVARIANTS
  TypeOK EdgesPaired PressesReported RepeatsExplained
  TornDownInOrder ConnectedIsLinked
  QuietTeardown
PROPERTIES
  SilenceReleases
  EndFinishes KeepsTrying
  FileInOrder OwnerReturns TransferFinishes
