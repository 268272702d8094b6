SPECIFICATION FairSpec
CONSTANTS
  NumRuns = 3
  Target <- MCTarget
  Size <- MCSize
  AutoMerge = {1}
  MaxExecuting = 2
  BatchSize = 1
  Outcomes = {"completed"}
  MaxFaults = 1
INVARIANTS TypeOK RecordsAreTrue KeeperSurvives
PROPERTIES RowsCatchUp
CHECK_DEADLOCK FALSE
