SPECIFICATION Spec
CONSTANT Universe <- MCUniverse
CHECK_DEADLOCK FALSE
INVARIANTS
  ExitReportsOwed
PROPERTIES
  NoFalseReport
