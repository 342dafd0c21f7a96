SPECIFICATION Spec
CONSTANTS
  NULL = NULL
  SSI = SSI
  MAXPROC = 1
  MAXTHREAD = 3
  MAXMSG = 2
  Values = {v}
  Requests = {"GET_ERRNO"}
  Devices = {"terminal0"}
  Preemptive = TRUE
  InitThreads = 3
  MaxIO = 0
INVARIANTS TypeOK ListsOK NoLostWakeup RequestIntegrity RepliesMatch
PROPERTIES ImplementsMailbox
