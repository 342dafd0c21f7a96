SPECIFICATION Spec
CONSTANTS
  NULL = NULL
  SSI = SSI
  MAXPROC = 1
  MAXTHREAD = 2
  MAXMSG = 2
  Values = {}
  Requests = {"DO_IO"}
  Devices = {"terminal0"}
  Preemptive = FALSE
  InitThreads = 1
  MaxIO = 1
INVARIANTS IdleAwaitsIO
