SPECIFICATION Spec
CONSTANTS
  NTHREAD = 4
  NSEM = 1
  NSTK = 3
  Prio = {1}
  Delays = {}
  Millis = {}
  UINT = 65536
  UserMsgs = {}
  InitCounts <- Counts
  MaxCount = 1
  MaxSignal = 2
  Syscalls <- SemCalls
  KillSleepers = FALSE
  KillOverlap = FALSE
INVARIANTS SemCountIsQueue
PROPERTIES ImplementsSemaphores
