\* Three threads on a tree of six calls.
SPECIFICATION Spec
CONSTANTS
  NThreads = 3
  Task <- SixCalls
  Root = 1
  Children <- SixChildren
  Value <- SixValues
  NoTask = NoTask
INVARIANTS NoTaskTwice TaskHasTaker SearchComplete ResultIsBest
PROPERTIES Terminates
