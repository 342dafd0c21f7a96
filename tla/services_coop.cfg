SPECIFICATION Spec
CONSTANTS
  NULL = NULL
  SSI = SSI
  MAXPROC = 3
  MAXTHREAD = 3
  MAXMSG = 2
  Values = {}
  Requests = {"CREATE_PROCESS","CREATE_THREAD","TERMINATE_PROCESS","TERMINATE_THREAD"}
  Devices = {"terminal0"}
  Preemptive = FALSE
  InitThreads = 1
  MaxIO = 0
INVARIANTS ThreadCountExact TreeOK RequestIntegrity EndIsHonest
PROPERTIES ImplementsMailbox DeathWakesAll
