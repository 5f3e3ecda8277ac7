\* Three threads share the value; each may be interrupted, any number of times.
SPECIFICATION ValueSpec
CONSTANT Caller = {t1, t2, t3}
INVARIANTS UndisturbedAnswer OneHandler NoDoubleTake
PROPERTY EveryCallerReturns
