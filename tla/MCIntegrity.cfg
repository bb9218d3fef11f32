\* A conversion that committed, failed or was cancelled has nothing left to do.
CHECK_DEADLOCK FALSE
SPECIFICATION Spec
CONSTANTS
  w1 = w1
  w2 = w2
  Null = Null
  NaN = NaN
  Mantissa = 8
  RelTolerance = 4
  AbsTolerance = 0
  NumTables = 2
  Selected <- SecondOnly
  NumChunks = 2
  Worker <- TwoWorkers
  MaxMisreads = 2
  BatchRows = 3
  RowGroupRows = 1
  Workers = 3
  Contents <- Every
INVARIANTS
  EndToEnd
  BlameIsTrue
  VerdictTrue
