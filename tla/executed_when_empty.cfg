SPECIFICATION Spec
CONSTANTS
  NumSpes = 1
  FifoSize = 48
  TASK_SIZE = 16
  Commands = {"ADD"}
  InitCommand = "program"
  AckWords = {"other"}
  Client = "disciplined"
  IncBackStores = 1
  Cycles = 4
  Lookups = {"missing"}
INVARIANT ExecutedWhenEmpty
