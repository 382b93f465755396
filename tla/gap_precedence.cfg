CONSTANTS
  Files <- DocFiles
  Changes = {}
SPECIFICATION Spec
INVARIANT TreeAsMeant
CHECK_DEADLOCK FALSE
