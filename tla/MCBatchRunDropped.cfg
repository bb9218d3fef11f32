SPECIFICATION Spec
CONSTANTS
  NumFiles = 2
  FileWorkers = 2
  SkipUpToDate = FALSE
INVARIANTS
  AllAccounted
