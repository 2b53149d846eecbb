SPECIFICATION Spec
CONSTANTS
  NTHREAD = 3
  NSEM = 0
  NSTK = 2
  Prio = {1}
  Delays = {}
  Millis = {100}
  UINT = 65536
  UserMsgs = {}
  InitCounts = {}
  MaxCount = 0
  MaxSignal = 0
  Syscalls <- KillSleepCalls
  KillSleepers = TRUE
  KillOverlap = FALSE
INVARIANT OneQueue
