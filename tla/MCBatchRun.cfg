SPECIFICATION Spec
CONSTANTS
  NumFiles = 3
  FileWorkers = 2
  SkipUpToDate = TRUE
INVARIANTS
  LossIsContained
  ResultTrue
  BooksAgree
PROPERTIES
  OneWriter
