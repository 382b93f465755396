SPECIFICATION Spec
CONSTANTS
  p = p
  q = q
  lib = lib
  mid = mid
  base = base
  prog = prog
  Procs = {p, q}
  Stems = {lib, mid, base, prog}
  Runtimes = {mid}
  Programs = {prog}
  Imports <- MCImports
  Scenarios <- MCScenarios
  Exclusive = TRUE
INVARIANTS
  ErrorsStop
  ModuleIsTheProgram
  Delivered
  ArchiveIsClosed
PROPERTIES
  QuietRunsWriteNothing
