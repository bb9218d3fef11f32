\* The pipeline stops when its work is done; EverythingEnds says that it stops
\* nowhere else.
SPECIFICATION FairSpec
CHECK_DEADLOCK FALSE
CONSTANTS
  w1 = w1
  w2 = w2
  Rows = 9
  BatchRows = 2
  Worker <- TwoWorkers
INVARIANTS
  VerdictHonest
  NothingLeaked
  WindowBound
PROPERTIES
  EverythingEnds
  SucceedsUndisturbed
  ImplementsOrderedSink
