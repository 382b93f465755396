------------------------------ MODULE Resolver ------------------------------
(***************************************************************************)
(* The `import` stage of the compiler (src/src/compiler/resolver.cpp):     *)
(* Resolve walks the direct imports of the program, import_module recurses *)
(* into the imports of each module it finds, and every module's visible    *)
(* definitions are put in front of the program's own.                      *)
(*                                                                         *)
(* The recursion is an explicit stack of frames: the first is Resolve, the *)
(* others are the active calls of import_module.  A step is one call that  *)
(* returns at once, one that begins to recurse, or the end of a call.      *)
(***************************************************************************)
EXTENDS Naturals, FiniteSets, SequencesExt

CONSTANTS
  Names,        \* what an `import` can name
  Main,         \* the name of the file being compiled, itself importable
  Dirs,         \* the directories
  NoDir,        \* the empty path
  Cwd,          \* where the compiler runs
  ImportPaths,  \* options_.import_paths (-I), in order
  SourceDir,    \* the directory of the file being compiled
  StdlibDir,    \* options_.stdlib_dir, or NoDir when it is empty
  Extensions,   \* of linkable artifacts, the one lib_format prefers first
  Text,         \* the definitions of a module, in source order
  Worlds,       \* what may be on disk
  StackLimit    \* calls that fit on the native stack

Kinds == {"generic", "type", "func", "extern", "class"}

ASSUME TextAssumption == Text \in Seq([kind : Kinds, exported : BOOLEAN])
ASSUME ExtensionsAssumption == Extensions \in Seq(Range(Extensions))
ASSUME NamesAssumption == Main \in Names /\ IsFiniteSet(Names)
ASSUME DirsAssumption ==
  /\ NoDir \notin Dirs
  /\ {Cwd, SourceDir} \subseteq Dirs
  /\ ImportPaths \in Seq(Dirs)
  /\ StdlibDir \in Dirs \cup {NoDir}

Files == Dirs \X Names

WorldType ==
  [files : SUBSET Files, broken : SUBSET Files,
   libs : SUBSET (Dirs \X Names \X Range(Extensions)),
   imports : [Files -> Seq(Names)]]

ASSUME WorldsAssumption == Worlds \subseteq WorldType

VARIABLES
  world,      \* [files, broken, libs: on disk; imports: of each file]
  stack,      \* the calls in progress, outermost first
  imported,   \* imported_modules
  program,    \* the imported part of programAST.DefinitionVec
  artifacts,  \* extra_object_files
  errors      \* queued on the Resolver

vars == <<world, stack, imported, program, artifacts, errors>>

(***************************************************************************)
(* Searching the disk                                                      *)
(***************************************************************************)

\* The directories tried for a module named in a file of directory dir.
SearchPath(dir) ==
  <<Cwd>> \o ImportPaths \o <<dir>> \o
    (IF StdlibDir = NoDir THEN <<>> ELSE <<StdlibDir>>)

\* find_mn: the directory of the first `name.mn` on the path.
find_mn(name, dir) ==
  LET path == SearchPath(dir)
      i == SelectInSeq(path, LAMBDA d : <<d, name>> \in world.files)
  IN  IF i = 0 THEN NoDir ELSE path[i]

\* Mistake: the preferred extension is searched in all directories first.
ArtifactByExtension(name, dir) ==
  LET path == SearchPath(dir)
      Has(d, e) == <<d, name, e>> \in world.libs
      j == SelectInSeq(Extensions, LAMBDA e : \E d \in Range(path) : Has(d, e))
  IN  IF j = 0 THEN <<>>
      ELSE LET i == SelectInSeq(path, LAMBDA d : Has(d, Extensions[j]))
           IN  <<<<path[i], name, Extensions[j]>>>>

\* traceLinkableArtifacts: a directory is left only when no extension exists
\* in it.  The artifact as a sequence of at most one.
LinkableArtifact(name, dir) ==
  LET path == SearchPath(dir)
      Has(d, e) == <<d, name, e>> \in world.libs
      i == SelectInSeq(path, LAMBDA d : \E e \in Range(Extensions) : Has(d, e))
  IN  IF i = 0 THEN <<>>
      ELSE LET j == SelectInSeq(Extensions, LAMBDA e : Has(path[i], e))
           IN  <<<<path[i], name, Extensions[j]>>>>

(***************************************************************************)
(* What an import brings in                                                *)
(***************************************************************************)

\* Structs, enums and aliases are "type"; type class declarations and
\* instances are "class".
Kept(def, transitive) ==
  \/ def.kind = "generic"
  \/ def.kind = "type" /\ def.exported
  \/ def.kind \in {"func", "extern"} /\ def.exported /\ ~transitive
  \/ def.kind = "class" /\ ~transitive

\* The i-th definition of a file as it enters the program: a function that
\* is not generic becomes an extern.
Item(file, i) ==
  [file |-> file, at |-> i,
   kind |-> IF Text[i].kind = "func" THEN "extern" ELSE Text[i].kind]

\* Mistake: the definitions are walked from the first to the last.
InjectForward(file, transitive) ==
  FoldLeft(LAMBDA defs, i :
             IF Kept(Text[i], transitive) THEN <<Item(file, i)>> \o defs ELSE defs,
           program, [i \in DOMAIN Text |-> i])

\* inject_definitions: from the last definition to the first, each inserted
\* at the front; after[n] is the program when n of them were looked at.
inject_definitions(file, transitive) ==
  LET after[n \in 0 .. Len(Text)] ==
        IF n = 0 THEN program
        ELSE LET i == Len(Text) + 1 - n
             IN  (IF Kept(Text[i], transitive) THEN <<Item(file, i)>> ELSE <<>>) \o after[n - 1]
  IN  after[Len(Text)]

(***************************************************************************)
(* The calls                                                               *)
(***************************************************************************)

Top == stack[Len(stack)]
InResolve == Len(stack) = 1

Imports == world.imports[Top.file]

\* The call the loop of the top frame makes next.  Resolve stops making calls
\* once an error is queued; import_module does not look.
Calling ==
  /\ stack # <<>>
  /\ Top.next <= Len(Imports)
  /\ InResolve => errors = {}

Callee == Imports[Top.next]
CalleeDir == find_mn(Callee, Top.file[1])
CalleeFile == <<CalleeDir, Callee>>

\* Mistake: the recursion passes the caller's own flag on.
CalledAsCaller == Top.transitive

CalledTransitively == ~InResolve

Advanced == [stack EXCEPT ![Len(stack)].next = @ + 1]

\* Mistake: the name is not remembered.
MarkedNothing == imported

\* Mistake: only direct imports are remembered.
MarkedDirect == IF InResolve THEN imported \cup {Callee} ELSE imported

\* `imported_modules.insert(name)`, before the file is looked for.
Marked == imported \cup {Callee}

AlreadyImported ==
  /\ Calling
  /\ Callee \in imported
  /\ stack' = Advanced
  /\ UNCHANGED <<world, imported, program, artifacts, errors>>

\* Only a direct import that cannot be found is an error.
ModuleMissing ==
  /\ Calling
  /\ Callee \notin imported
  /\ CalleeDir = NoDir
  /\ imported' = Marked
  /\ errors' = errors \cup
                 {x \in {<<"missing", Callee>>} : ~CalledTransitively}
  /\ stack' = Advanced
  /\ UNCHANGED <<world, program, artifacts>>

\* get_program_from_file: the parser of the module has errors.
ModuleBroken ==
  /\ Calling
  /\ Callee \notin imported
  /\ CalleeFile \in world.broken
  /\ imported' = Marked
  /\ errors' = errors \cup {<<"unparsable", Callee>>}
  /\ stack' = Advanced
  /\ UNCHANGED <<world, program, artifacts>>

\* The module is parsed: its own imports come first.
ModuleEntered ==
  /\ Calling
  /\ Callee \notin imported
  /\ CalleeFile \in world.files \ world.broken
  /\ Len(stack) < StackLimit
  /\ imported' = Marked
  /\ stack' = Append(Advanced, [file |-> CalleeFile,
                                transitive |-> CalledTransitively, next |-> 1])
  /\ UNCHANGED <<world, program, artifacts, errors>>

\* The rest of import_module, once its loop is done.
ModuleDone ==
  /\ stack # <<>>
  /\ ~InResolve
  /\ Top.next > Len(Imports)
  /\ program' = inject_definitions(Top.file, Top.transitive)
  /\ artifacts' = IF Top.transitive THEN artifacts
                  ELSE artifacts \o LinkableArtifact(Top.file[2], SourceDir)
  /\ stack' = Front(stack)
  /\ UNCHANGED <<world, imported, errors>>

ResolveReturns ==
  /\ stack # <<>>
  /\ InResolve
  /\ ~Calling
  /\ stack' = <<>>
  /\ UNCHANGED <<world, imported, program, artifacts, errors>>

\* Resolve is called once, with nothing imported.
Init ==
  /\ world \in Worlds
  /\ stack = <<[file |-> <<SourceDir, Main>>, transitive |-> FALSE, next |-> 1]>>
  /\ imported = {}
  /\ program = <<>>
  /\ artifacts = <<>>
  /\ errors = {}

Next ==
  \/ AlreadyImported \/ ModuleMissing \/ ModuleBroken
  \/ ModuleEntered \/ ModuleDone \/ ResolveReturns

Spec == Init /\ [][Next]_vars

\* One thread runs the stage and nothing in it waits.
FairSpec == Spec /\ WF_vars(Next)

-----------------------------------------------------------------------------
(***************************************************************************)
(* Properties                                                              *)
(***************************************************************************)

FrameType == [file : Files, transitive : BOOLEAN, next : Nat \ {0}]

Done == stack = <<>>
Direct == Range(world.imports[<<SourceDir, Main>>])

\* However the imports form diamonds and cycles, and whichever directories
\* hold files of one name, no definition of a module enters the program
\* twice: it would be declared twice.
NoDefinitionTwice ==
  \A i, j \in DOMAIN program :
    (program[i].file[2] = program[j].file[2] /\ program[i].at = program[j].at)
      => i = j

\* The definitions of one module stay in the order of its source, whatever is
\* imported around them: the visitors of the later stages walk the vector
\* from front to back.
SourceOrderKept ==
  \A i, j \in DOMAIN program :
    (program[i].file = program[j].file /\ i < j) => program[i].at < program[j].at

\* However modules import one another, none is being imported twice at once:
\* the recursion is never deeper than there are names.
RecursionBounded == Len(stack) <= Cardinality(Names) + 1

\* Nothing but a module the program imports by name is handed to the linker.
OnlyDirectAreLinked == \A lib \in Range(artifacts) : lib[2] \in Direct

\* What the program does not import by name reaches it only as generic
\* functions and exported types (knowledge_base/imports.md: "Transitive
\* imports do NOT leak to importers").
TransitiveDoesNotLeak ==
  \A item \in Range(program) :
    item.file[2] \notin Direct => item.kind \in {"generic", "type"}

\* Names the imports of the main file before the i-th lead to.
ReachedBefore(i) ==
  LET Start == {world.imports[<<SourceDir, Main>>][j] : j \in 1..(i - 1)}
      Closed(S) == \A f \in Files : f[2] \in S => Range(world.imports[f]) \subseteq S
  IN  {n \in Names : \A S \in SUBSET Names : (Start \subseteq S /\ Closed(S)) => n \in S}

\* Artifacts of a name on the path, as <<position, extension>>; the linker
\* gets one that no other precedes.
Ranked(n) ==
  {r \in (DOMAIN SearchPath(SourceDir)) \X (DOMAIN Extensions) :
     <<SearchPath(SourceDir)[r[1]], n, Extensions[r[2]]>> \in world.libs}

BestLinked(n) ==
  \A r \in Ranked(n) :
    (\A s \in Ranked(n) : r[1] < s[1] \/ (r[1] = s[1] /\ r[2] <= s[2]))
      => <<SearchPath(SourceDir)[r[1]], n, Extensions[r[2]]>> \in Range(artifacts)

\* Everything a module shows its importer is in the program, from the file
\* the path of the main file leads to, and its artifact is linked.
Resolved(n) ==
  LET dir == find_mn(n, SourceDir)
  IN  /\ dir # NoDir
      /\ \A i \in DOMAIN Text :
           (Text[i].exported \/ Text[i].kind \in {"generic", "class"})
             => Item(<<dir, n>>, i) \in Range(program)
      /\ BestLinked(n)

\* When Resolve ends without an error, every import of the main file that no
\* earlier import leads to is resolved in full.
FirstReachedIsResolved ==
  (Done /\ errors = {}) =>
    \A i \in DOMAIN world.imports[<<SourceDir, Main>>] :
      world.imports[<<SourceDir, Main>>][i] \notin ReachedBefore(i)
        => Resolved(world.imports[<<SourceDir, Main>>][i])

\* Import cycles, with the file being compiled in them too, do not make the
\* stage recurse for ever: it ends, with the native stack it has.
Terminates == <>Done

=============================================================================
