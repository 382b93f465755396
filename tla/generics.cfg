SPECIFICATION Spec
CONSTANTS
  Programs <- MCPrograms
  MaxDepth = 5
INVARIANTS
  EveryCallHasItsBody
  CalleesTakeWhatTheyAreGiven
  InstancesAreHygienic
  InferenceIsExact
  FaultsHaveTheirCause
\* The check of a program ends, or dies.
CHECK_DEADLOCK FALSE
