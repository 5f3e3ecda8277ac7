\* AND(NOT(3), 4): stop() makes solveNOT negate a failure.
SPECIFICATION Spec
CONSTANTS
  Node <- NotNode
  Root = {1}
  Type <- NotType
  Args <- NotArgs
  Threshold <- NotThreshold
  PoolSize = 4
  MayStop = TRUE
  Slow = {}
INVARIANT AnswerRight
CHECK_DEADLOCK FALSE
