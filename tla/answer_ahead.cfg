SPECIFICATION MsgFairSpec
CONSTANTS
  Types = {"THREAD_RUN"}
  Client = "early"
  StopCodes = {0}
  Outcomes = {"ok"}
  Endings = {"exit"}
  MaxPipe = 1
  Faults = {"interrupted"}
  MaxTurns = 1
PROPERTY StopReturns
CHECK_DEADLOCK FALSE
