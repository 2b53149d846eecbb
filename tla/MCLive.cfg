SPECIFICATION FairSpec
CONSTANTS
  SYSERR = SYSERR
  GARBAGE = GARBAGE
  NONE = NONE
  NULL = NULL
  Parts = {"mailbox", "pool", "uart", "eth", "ip", "arp"}
CHECK_DEADLOCK FALSE
PROPERTIES ServicesServe DriversServe 
