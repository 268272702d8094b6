SPECIFICATION FairSpec
CONSTANTS
  Inputs <- MCInputs
  CompileEnds <- MCCompileEnds
  TestEnds <- MCTestEnds
  PatchSizes = {15, 25, 30}
  Budget = 2
INVARIANTS
  TypeOK AnswerIsAllowed VerdictIsOfTheCommit CommitIsNamed StaysWithinPolicy
PROPERTIES NoVerdictOnceStopped VerificationEnds
CHECK_DEADLOCK FALSE
