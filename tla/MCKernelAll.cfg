SPECIFICATION Spec
CONSTANTS
  NTHREAD = 3
  NSEM = 1
  NSTK = 2
  Prio = {1, 2}
  Delays = {1}
  Millis = {50, 200}
  UINT = 65536
  UserMsgs = {9}
  InitCounts = {0, 1}
  MaxCount = 1
  MaxSignal = 2
  Syscalls <- AllCalls
  KillSleepers = FALSE
  KillOverlap = FALSE
INVARIANTS TypeOK QueueDiscipline OneRunning MessageWakesReceiver ThreadsAccounted
PROPERTIES MessageKept
