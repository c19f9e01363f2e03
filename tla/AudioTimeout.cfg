CONSTANTS
  Task = {t1, t2}
  Rate = {8, 16}
  DrainBuffers = 2
  StopMayTimeOut = TRUE
SPECIFICATION AudioSpec
INVARIANT OneTask
