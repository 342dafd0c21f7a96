SPECIFICATION TrapSpec
CONSTANTS
  NULL = NULL
  SSI = SSI
  MAXPROC = 2
  MAXTHREAD = 2
  MAXMSG = 1
  Values = {}
  Requests = {"SETPGMMGR","SETSYSMGR","CREATE_PROCESS","CREATE_THREAD","TERMINATE_PROCESS","TERMINATE_THREAD"}
  Devices = {"terminal0"}
  Preemptive = FALSE
  InitThreads = 1
  MaxIO = 0
INVARIANTS TrapTypeOK TrapListsOK TrapEndIsHonest RequestIntegrity MessagesConserved
PROPERTIES ImplementsMailbox
