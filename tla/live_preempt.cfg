SPECIFICATION FairSpec
CONSTANTS
  NULL = NULL
  SSI = SSI
  MAXPROC = 2
  MAXTHREAD = 3
  MAXMSG = 3
  Values = {}
  Requests = {"CREATE_PROCESS","DO_IO"}
  Devices = {"terminal0","other"}
  Preemptive = TRUE
  InitThreads = 2
  MaxIO = 1
INVARIANTS SoftBlockedOK ControlOK
PROPERTIES StubsReturn ReadyRuns
