SPECIFICATION FairSpec
CONSTANTS
  Links <- MCLinks
  Lower <- MCLower
  FoldingDisk = TRUE
  Requests <- MCRequests
  Disks <- MCDisks
  Failures = {3}
  Sizes = {1, 2}
  Limit = 2
  MaxLines = 3
CHECK_DEADLOCK FALSE
INVARIANTS
  HoldsTheScreen
  WritersApart
  RefusedTouchesNothing
  ZeroMeansAll
  ExitTells
PROPERTIES
  Exits
