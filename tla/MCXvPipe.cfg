\* Init and two processes, of which one may be killed, around a pipe of two bytes.
SPECIFICATION FairSpec
CONSTANTS
  NPROC = 3
  Killable = {2}
  MaxPid = 3
  MaxKills = 1
  PIPESIZE = 2
  UintSize = 4
  NFILE = 2
  NOFILE = 2
  Sizes = {3}
  MaxBytes = 6
INVARIANTS HasParent NoLostWakeup EndsAreCounted
PROPERTIES ImplementsByteStream InitReaps
CHECK_DEADLOCK FALSE
