SPECIFICATION FairSpec
CONSTANTS
  NumSpes = 1
  FifoSize = 80
  TASK_SIZE = 16
  Commands = {"NOOP"}
  InitCommand = "program"
  AckWords = {"other"}
  Cycles = 4
  Lookups = {"missing", "lost"}
INVARIANTS TypeOK EachSlotOnce FetchIsStable ContextHoldsItsTask RetiresInOrder LeavesEmptyPipeline
PROPERTY KickedIsCollected
CHECK_DEADLOCK FALSE
