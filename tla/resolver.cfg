SPECIFICATION FairSpec
CONSTANTS
  a = a
  b = b
  c = c
  Main = main
  Names = {a, b, c, main}
  Dirs <- MCDirs
  NoDir = ""
  Cwd = "cwd"
  ImportPaths <- MCImportPaths
  SourceDir = "source"
  StdlibDir = "stdlib"
  Extensions <- MCExtensions
  Text <- MCText
  Worlds <- MCWorlds
  StackLimit = 7
CHECK_DEADLOCK FALSE
INVARIANTS
  NoDefinitionTwice
  SourceOrderKept
  TransitiveDoesNotLeak
  RecursionBounded
  OnlyDirectAreLinked
  FirstReachedIsResolved
PROPERTIES
  Terminates
