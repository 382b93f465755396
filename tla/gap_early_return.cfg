SPECIFICATION Spec
CONSTANTS
  Vars = {v1, v2}
  Cells = {c1, c2}
  Types = {"ptr"}
  Fields = {}
  Root <- MCRoot
  Star <- MCStar
  Nil = Nil
  NoType = NoType
  MaxDepth = 1
  MaxArms = 2
  Inner <- MCInner
  Layout <- MCLayout
  FieldType <- MCFieldType
  Element <- MCElement
  Tuples <- MCTuples
  Dialects <- MCEarly
  Naming = "unique"
  Lexical = TRUE
CONSTRAINT NotRejected
ACTION_CONSTRAINT EndsInBranch
SYMMETRY Symmetric
CHECK_DEADLOCK FALSE
INVARIANTS
  NoLeak
