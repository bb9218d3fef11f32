SPECIFICATION FairSpec
CONSTANTS
  NumFiles = 2
  FileWorkers = 2
  SkipUpToDate = TRUE
PROPERTIES
  Returns
  StallEnds
