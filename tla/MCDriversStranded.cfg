SPECIFICATION Spec
CONSTANTS
  BADSEM = BADSEM
  NONE = NONE
  NULL = NULL
  Parts = {"uart3"}
CHECK_DEADLOCK FALSE
INVARIANT NeverStranded
