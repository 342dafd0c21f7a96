SPECIFICATION Spec
CONSTANTS
  NULL = NULL
  SSI = SSI
  MAXPROC = 2
  MAXTHREAD = 3
  MAXMSG = 2
  Values = {}
  Requests = {"DO_IO","CREATE_PROCESS","CREATE_THREAD","TERMINATE_PROCESS"}
  Devices = {"terminal0"}
  Preemptive = FALSE
  InitThreads = 1
  MaxIO = 1
INVARIANTS AckDelivered
