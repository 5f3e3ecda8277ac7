\* IF(AND(4, 5), NOT(6), 7), never stopped, with workers enough.
SPECIFICATION Spec
CONSTANTS
  Node <- IfNode
  Root = {1}
  Type <- IfType
  Args <- IfArgs
  Threshold <- IfThreshold
  PoolSize = 5
  MayStop = FALSE
  Slow = {4}
INVARIANTS ResultsRight NoOrphans
PROPERTIES LazyAnswer
