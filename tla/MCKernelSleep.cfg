SPECIFICATION Spec
CONSTANTS
  NTHREAD = 4
  NSEM = 0
  NSTK = 3
  Prio = {1, 2}
  Delays = {1, 2, 3}
  Millis = {50, 100, 200, 300}
  UINT = 65536
  UserMsgs = {9}
  InitCounts = {0, 1}
  MaxCount = 1
  MaxSignal = 2
  Syscalls <- SleepCalls
  KillSleepers = FALSE
  KillOverlap = FALSE
INVARIANTS SleepOnTime
PROPERTIES HighestPriorityRuns
