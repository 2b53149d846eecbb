SPECIFICATION FairSpec
CONSTANTS
  NTHREAD = 3
  NSEM = 1
  NSTK = 2
  Prio = {1}
  Delays = {1, 2}
  Millis = {50, 100, 200}
  UINT = 65536
  UserMsgs = {9}
  InitCounts = {0}
  MaxCount = 1
  MaxSignal = 1
  Syscalls <- AllCalls
  KillSleepers = FALSE
  KillOverlap = FALSE
PROPERTIES SleepersWake RoundRobin
