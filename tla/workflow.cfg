SPECIFICATION Spec
CONSTANTS
  Inputs <- MCInputs
  Edits <- MCEdits
  Kinds = {"code_compile_failure", "code_test_failure", "verify_timeout", "tool_missing"}
  Place <- MCPlace
  MaxFaults = 2
INVARIANTS
  TypeOK CompletedIsEarned BlockedHidesNoFailure BundleIsComplete
  PullIsBacked FailureHasACause CoverageAgrees
  RowsMatchDisk  AbortedIsNoResult
ACTION_CONSTRAINT SecondFaultOfFew
CHECK_DEADLOCK FALSE
