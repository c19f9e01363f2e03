SPECIFICATION Spec
CONSTANTS
  FlashChunks = 3
  EraseChunks = 2
  MaxCuts = 2
  MaxCards = 1
  Version = {1, 2, 3}
  Size <- Sizes
  kMaxRedirects = 1
  kMaxStalled = 2
  kMaxAttempts = 3
  Pattern <- Patterns
  Repeats = {1, 2}
  Chapters = {2, 4}
  PageParts = 2
  kEntries = 2
  kMaxPages = 3
  Strokes = 3
  StaleFrames = 2
  Task = {t1, t2}
  Rate = {8, 16}
  DrainBuffers = 2
  StopMayTimeOut = FALSE
INVARIANTS
  TypeOK NeverStranded SelectedIsWhole FetchIsWhole MotorIsTimed
  CacheIsTrue GesturesAreWhole EjectStands
  OneTask OutputHeld ChannelFlagTruth
PROPERTIES
  SwitchIsAtomic FetchDescends BootSettles FetchEnds
  ImplementsContract StopEnds RestartAnswered
