SPECIFICATION FairSpec
CONSTANTS
  NumSpes = 2
  FifoSize = 40
  TASK_SIZE = 16
  Commands = {"ADD"}
  InitCommand = "program"
  AckWords = {"other"}
  Client = "disciplined"
  IncBackStores = 1
INVARIANTS TypeOK RingInv AckAccounting SelectFindsFree OpenSlotIsPrivate WaitSound
PROPERTIES EntryCollected SelectReturns WaitReturns
