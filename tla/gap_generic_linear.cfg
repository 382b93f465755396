SPECIFICATION Spec
CONSTANTS
  Programs <- MCOwning
  MaxDepth = 5
INVARIANTS
  EveryCallHasItsBody
CHECK_DEADLOCK FALSE
