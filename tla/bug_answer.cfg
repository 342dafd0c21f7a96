SPECIFICATION P2Spec
CONSTANTS
  NULL = NULL
  SSI = SSI
  nothing = nothing
  SYNCCODE = SYNCCODE
  MAXPROC = 3
  MAXTHREAD = 7
  MAXMSG = 12
  Values <- MCValues
  Requests = {"GET_ERRNO","GET_CPUTIME","GET_MYTHREADID","GET_PROCESSID","GET_PARENTPROCID","CREATE_PROCESS","CREATE_THREAD","TERMINATE_PROCESS","TERMINATE_THREAD","DO_IO","SETPGMMGR","SETTLBMGR","SETSYSMGR"}
  Devices = {"terminal0"}
  Preemptive = TRUE
  InitThreads = 1
  MaxIO = 40
  NGRANDCHILDREN = 1
  Phases <- MCPhaseP5
INVARIANTS AnswerResumes
