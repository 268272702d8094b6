SPECIFICATION Spec
CONSTANTS
  Trees <- MCTrees
  Packs <- MCPacks

INVARIANTS ChangesAreCommitted
CHECK_DEADLOCK FALSE
