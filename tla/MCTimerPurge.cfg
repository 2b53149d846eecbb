SPECIFICATION Spec
CONSTANTS
  BADSEM = BADSEM
  NULL = NULL
  Parts = {"timerpurge"}
CHECK_DEADLOCK FALSE
INVARIANT PurgedIsGone
