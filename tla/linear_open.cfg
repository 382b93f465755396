SPECIFICATION Spec
CONSTANTS
  Vars = {v1, v2, v3}
  Cells = {c1, c2}
  Types = {"ptr", "box"}
  Fields = {"0"}
  Root <- MCRoot
  Star <- MCStar
  Nil = Nil
  NoType = NoType
  MaxDepth = 1
  MaxArms = 3
  Inner <- MCInner
  Layout <- MCLayout
  FieldType <- MCFieldType
  Element <- MCElement
  Tuples <- MCTuples
  Dialects <- MCOpen
  Naming = "unique"
  Lexical = TRUE
CONSTRAINT NotRejected
SYMMETRY Symmetric
CHECK_DEADLOCK FALSE
INVARIANTS
  SafeUnlessDuplicating
  NoLeakUnlessLosing
