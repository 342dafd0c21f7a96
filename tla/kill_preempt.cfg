SPECIFICATION Spec
CONSTANTS
  NULL = NULL
  SSI = SSI
  MAXPROC = 2
  MAXTHREAD = 2
  MAXMSG = 2
  Values = {v}
  Requests = {"SETSYSMGR","CREATE_PROCESS","TERMINATE_PROCESS","TERMINATE_THREAD"}
  Devices = {"terminal0"}
  Preemptive = TRUE
  InitThreads = 1
  MaxIO = 0
INVARIANTS SoundUntilStale LinkedUntilStale FreeProcessHasNoManager MessagesConserved
PROPERTIES ManagersFixed WakeUps MailboxUntilStale
CONSTRAINT NotStale
