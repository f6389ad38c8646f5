SPECIFICATION MsgFairSpec
CONSTANTS
  Types = {"THREAD_LOOP", "THREAD_RUN"}
  Client = "early"
  StopCodes = {0, 5, 16}
  Outcomes = {"ok", "fail"}
  Endings = {"exit"}
  MaxPipe = 3
  Faults = {"interrupted", "early_exit"}
  MaxTurns = 6
INVARIANTS MsgTypeOK ThreadInv ContextOutlivesSpu  LockStep ReceivesSentWord ReportsFit
PROPERTIES StopHeard ReceiveReturns SendReturns
CHECK_DEADLOCK FALSE
