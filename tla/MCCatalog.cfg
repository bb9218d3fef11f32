\* The number of runs is bounded: after the last one nothing is left to do.
SPECIFICATION Spec
CONSTANTS
  a = a
  b = b
  A = A
  Inputs = {a, b}
  Tables = {a, b, A}
  TablesOf <- OwnTables
  ColumnSets = {{"x"}, {"x", "y"}}
  MaxRuns = 3
CHECK_DEADLOCK FALSE
INVARIANTS
  FactsTrue
  Complete
