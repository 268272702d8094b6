SPECIFICATION Spec
CONSTANTS
  Trees <- MCTrees
  Packs <- MCPacks

INVARIANTS TypeOK SecondRunIsNoop PlanCoversApply  StaysInScope TestsResolve
CHECK_DEADLOCK FALSE
