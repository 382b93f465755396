SPECIFICATION Spec
CONSTANTS
  Vars = {v1, v2, v3}
  Cells = {c1, c2}
  Types = {"ptr"}
  Fields = {}
  Root <- MCRoot
  Star <- MCStar
  Nil = Nil
  NoType = NoType
  MaxDepth = 2
  MaxArms = 2
  Inner <- MCInner
  Layout <- MCLayout
  FieldType <- MCFieldType
  Element <- MCElement
  Tuples <- MCTuples
  Dialects <- MCRaw
  Naming = "unique"
  Lexical = TRUE
CONSTRAINT NotRejected
SYMMETRY Symmetric
CHECK_DEADLOCK FALSE
INVARIANTS
  TypeOK
  NoDangling
  NoLeak
