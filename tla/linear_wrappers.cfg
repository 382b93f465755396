SPECIFICATION Spec
CONSTANTS
  Vars = {v1, v2, v3}
  Cells = {c1, c2}
  Types = {"ptr", "box", "pair", "pptr"}
  Fields = {"0", "1", "*"}
  Root <- MCRoot
  Star <- MCStar
  Nil = Nil
  NoType = NoType
  MaxDepth = 1
  MaxArms = 2
  Inner <- MCInner
  Layout <- MCLayout
  FieldType <- MCFieldType
  Element <- MCElement
  Tuples <- MCTuples
  Dialects <- MCWrapped
  Naming = "unique"
  Lexical = TRUE
CONSTRAINT NotRejected
SYMMETRY Symmetric
CHECK_DEADLOCK FALSE
INVARIANTS
  SafeUnlessDuplicating
  NoLeakUnlessLosing
  OneOwnerUnlessEither
  NoneForgottenUnlessDropped
  WholeInvariant
