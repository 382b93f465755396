CONSTANTS
 Files <- MCFiles
 Changes <- MCChanges
SPECIFICATION Spec
INVARIANTS ReadBack MeantIsAccepted TreeAsMeant NothingSkippedSilently
PROPERTIES RollbackIsExact FailureIsReported NoncommittedConsumesNothing Terminates
CHECK_DEADLOCK FALSE
