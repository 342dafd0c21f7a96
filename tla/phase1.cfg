SPECIFICATION PointersSpec
CONSTANTS
  NULL = NULL
  SSI = SSI
  MAXPROC = 3
  MAXTHREAD = 2
  MAXMSG = 2
  Values = {v}
  QueueNames = {"t_wait4me"}
INVARIANTS OneListEach QueuesUntilStale
PROPERTIES ImplementsDescriptors
VIEW Pointers
CONSTRAINT OneTable
