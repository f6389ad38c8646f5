SPECIFICATION Spec
CONSTANTS
  NumSpes = 1
  FifoSize = 50
  TASK_SIZE = 16
  Commands = {"ADD"}
  InitCommand = "program"
  AckWords = {"other"}
  Client = "registering"
  IncBackStores = 1
INVARIANT WaitSound
