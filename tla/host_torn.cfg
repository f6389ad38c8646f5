SPECIFICATION Spec
CONSTANTS
  NumSpes = 2
  FifoSize = 50
  TASK_SIZE = 16
  Commands = {"ADD"}
  InitCommand = "program"
  AckWords = {"clear", "other"}
  Client = "draining"
  IncBackStores = 2
INVARIANT WaitSound
