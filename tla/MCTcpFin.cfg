SPECIFICATION Spec
CONSTANTS
  BADSEM = BADSEM
  NULL = NULL
  Parts = {"tcpfin"}
CHECK_DEADLOCK FALSE
INVARIANT FinNumber
