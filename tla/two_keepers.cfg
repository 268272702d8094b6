SPECIFICATION Spec
CONSTANTS
  NumRuns = 3
  Target <- MCTarget
  Size <- MCSize
  AutoMerge = {1}
  MaxExecuting = 2
  BatchSize = 3
  Outcomes = {"completed"}
  MaxFaults = 0
INVARIANTS OneOpenKeeper
CHECK_DEADLOCK FALSE
