\* GT1(LT1(4), OR(5, 6)) and the leaf 7, with stop() at any time.
SPECIFICATION Spec
CONSTANTS
  Node <- GtNode
  Root = {1, 7}
  Type <- GtType
  Args <- GtArgs
  Threshold <- GtThreshold
  PoolSize = 3
  MayStop = TRUE
  Slow = {6}
INVARIANTS AnswerRight FailureOnlyWhenStopped
PROPERTIES StopTerminates
