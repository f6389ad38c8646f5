SPECIFICATION Spec
CONSTANTS
  NumSpes = 1
  FifoSize = 64
  TASK_SIZE = 16
  Commands = {"ADD"}
  InitCommand = "program"
  AckWords = {"other"}
  Client = "disciplined"
  IncBackStores = 1
INVARIANT NoAckLost
PROPERTY ImplementsTaskFifo
