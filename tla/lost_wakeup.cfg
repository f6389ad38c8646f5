SPECIFICATION FairSpec
CONSTANTS
  Types = {"THREAD_LOOP"}
  Client = "example2"
  StopCodes = {0}
  Outcomes = {"ok"}
  Endings = {}
  MaxPipe = 1
PROPERTY WokenUp
CHECK_DEADLOCK FALSE
