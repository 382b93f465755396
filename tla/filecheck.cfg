CONSTANT Sessions <- MCSessions
SPECIFICATION Spec
INVARIANTS PassIsJustified FailIsJustified UpdatedPasses
CHECK_DEADLOCK FALSE
