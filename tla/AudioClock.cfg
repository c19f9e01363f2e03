CONSTANTS
  Task = {t1, t2}
  Rate = {8, 16}
  DrainBuffers = 2
  StopMayTimeOut = FALSE
SPECIFICATION AudioSpec
INVARIANT ClockIsCurrentRate
