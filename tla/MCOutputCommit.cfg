SPECIFICATION FairSpec
CONSTANTS
  MaxRuns = 2
INVARIANTS
  OutputSurvives
  ForceOnly
  ReportTrue
PROPERTIES
  OnlyFinishedOutputs
  AlwaysTold
