# Verification of the sammine compiler

sammine-lang is a compiler for a small systems language, written in C++23 on
top of MLIR. This directory holds TLA+ modules translated from its source, the
TLC configurations that model-check them, and theorems checked by TLAPS. It is
kept beside the code: every definition that models code names its lines in
`PROJECT.json` ("map"), and a change to those lines should be followed by a
look at the definition.

Contents: 1 inventory, 2 the hard behaviours, 3 modules and code, 4 runs,
5 bounds, 6 fairness, 7 proofs, 8 what is only model-checked, 9 disagreements
between code and documents, 10 what is not modelled, 11 what is left.

## 1. Inventory

A compilation is one call of `Compiler::start` (`src/compiler/Compiler.cpp`): a
fixed list of stages over one `ProgramAST`. A stage that fails sets the error
state and the loop stops. There are no threads; what runs concurrently is
several compiler processes, started by a build system, on one disk.

| Component | State it keeps | Operations | What makes it correct | Modelled |
|---|---|---|---|---|
| Compiler pipeline (`Compiler.cpp`) | state Running / Finished / Error, program, MLIR/LLVM module, artifacts, files on disk | the stages, `should_stop`, `set_error` | an error stops everything after it; a success delivers the file it was asked for, made from the source it read | yes, proved |
| Resolver (`resolver.cpp`) | imported names, the definition vector, artifacts, the native call stack | `Resolve`, `import_module`, `inject_definitions`, `find_mn`, `traceLinkableArtifacts` | ends on cycles; nothing twice; nothing leaks; every direct import complete | yes, proved but for its end |
| LibraryEmitter (`library_emitter.cpp`) | a temporary directory, `.o`, `.a`, `.so` | `emitArchive`, `copy_dep`, `emitShared` | the archive holds the new code and all that the archives of its imports held | yes, proved but for extractions that fail |
| Options (`options.cpp`) | option values, the text of the source | parsing the command line | the text is read once, before any stage | the part that steers the stages |
| Lexer, TokenStream (`Lexer.cpp`, `Token.h`) | position; token list with a cursor, marks and splits | the handlers, `mark_rollback`, `rollback`, `split_and_consume` | no token lost or read twice under rollback | yes, the stream proved |
| Parser (`Parser.cpp`, `Combinators.h`) | the stream, error count, pending dereferences, aliases | recursive descent, speculation on type arguments, recovery, precedence climbing | ends on every input; accepts programs and only passes over text it has complained of; the tree is the one meant | yes |
| BiTypeChecker, Types, UniSubst, Monomorphizer | scopes of types and values, binding of type parameters, keys and copies of instances | three passes, `resolve_type_expr`, `unify`, `substitute`, `clone_*`, `try_instantiate_*` | inference is exact; every call has a body that fits it; instances mean what their definition says | its generics and calls |
| LexicalContext (`LexicalContext.h`) | a stack of scopes | push, pop, register, register at root, look up | a name means what the innermost scope says | as the checker's scopes |
| LinearTypeChecker | stack of maps from names to `VarInfo` trees, snapshots in handlers' locals | one `check_*` handler per statement kind, `snapshot`, `restore`, `check_branch_consistency`, `pop_scope_and_check` | an accepted function frees every owned cell exactly once | all but closures; proved for pointers and structs and tuples of them, and scope exit for all types |
| MLIRGen | symbol table of allocas | one emitter per node | the emitted code does what the checked program says | what it does to heap cells |
| SammineCheck (`tools/filecheck`) | the check list, match position, pending CHECK-NOTs | CHECK, CHECK-NEXT, CHECK-NOT, CHECK-SAME, CHECK-LABEL, `--update` | a test passes only when its lines match as its directives say | yes, proved |
| ScopeGenerator | symbol tables | register, qualify | a name means what its innermost block declared | only which names a statement may use |
| GeneralSemantics | flags of the enclosing function | implicit returns, placement checks | every path of a function returns a value | no |
| JIT, MLIR lowering, kernels | LLVM and MLIR objects | pass pipelines | outside the repository, almost all of it | no |
| Diagnostics, printers | queue of reports | grouping by location, layout | each report shown once | no |

How they interact: the stages call one another through the shared
`ProgramAST`; the resolver calls lexer and parser again for each imported file
and itself for each import of it; the monomorphizer is called back from the
type checker and its output is checked again; the linear checker relies on the
types the type checker has written on the nodes and on nothing later, while
MLIRGen relies on the program having been accepted; two runs of the compiler
meet only on the disk (objects, archives, the temporary directory).

## 2. What is hard here

`PROJECT.json` lists the hazards at their lines. They fall in these groups.

* **Path sensitivity in the linear checker.** The walk visits each arm of a
  branch and each loop body once, with snapshots and restores between, and has
  to be right about every execution. A wrong order of snapshot, restore and
  merge shows only with nested constructs and particular arms.
* **Speculation and recovery in the parser.** A `<` may open type arguments or
  compare; what was tried and given up must leave no trace, not even in tokens
  that were split. `FAILED` and `NONCOMMITTED` are conventions between some
  sixty functions: who has consumed what, who has complained.
* **Type parameters in a stack of scopes.** Copies of generic functions are
  made and checked in the middle of another function, recognised by a key and
  called by a name; both are derived from types in different ways.
* **Depth-first import with a visited set** over cyclic graphs, where how a module
  is met *first* decides what is done with it.
* **Files shared by runs that crash, repeat or overlap.** The archive is built
  in a directory of fixed name from objects that other steps create and remove.
* **Stages that depend on an earlier one having run to its end.**
* **A test tool that must not lie:** CHECK-NOT is decided late, over a range of
  lines that other directives set, and `--update` writes tests that have to
  pass.

These are known too and no property is about them, because the state they need
is abstracted away: modules are told apart by name and not by file
(`resolver.cpp:30`); a module missing for another module is passed over
(`:36`); source and artifact of a module are searched separately (`:198`);
`ar rcs` keeps the members of modules no longer imported
(`library_emitter.cpp:108`); a dependency that exists only as `.so` never gets
into the archive (`:93`); `--llvm-ir diff` uses two fixed temporary files
(`Compiler.cpp:546`); `--update` truncates the test before it writes it
(`SammineCheck.cpp:331`); `std::stoll` throws on a long number
(`Parser.cpp:280`); a store through a two-level pointer in an arm is undone in
the checker's map by the next `restore` (`LinearTypeChecker.cpp:100`); `free` of a
pointer that is not linear reaches code generation
(`BiTypeCheckerSynthesize.cpp:933`).

## 3. Modules and the code they model

```
Lexer -- TokenStream --\
ParserCode -------------+-- Parser -- ParserPoints -- MCParser
Speculation ------------/                  \-- ParserProofs
GenericTypes -- Generics -- MCGenerics
LinearProgram
  |-- LinearTypeChecker --\
  |-- Ownership -----------+-- LinearSoundness -- LinearWhole -- MCLinearSoundness
                                   |            \-- LinearWholeProofs
                                   \-- LinearSoundnessProofs (extended by LinearWholeProofs)
LinearTypes -- LinearVariable -- MCLinearVariable
   |                 \-- LinearVariableProofs
   \-- (instantiated by MCLinearSoundness)
Resolver -- MCResolver
   \-- ResolverProofs
LibraryEmitter -- Compiler -- MCCompiler
                     \-- CompilerProofs
FileCheck -- MCFileCheck
   \-- FileCheckProofs
SequenceLemmas (used by all the proofs but CompilerProofs)
```

### Lexer, TokenStream, Speculation

`Lexer` has one operator per handler of `Lexer.cpp`, in the order in which
`lexNextToken` tries them, and works on real text: the limits of its loops are part
of what is checked. `Lex` is the whole stream. `TokenStream` is the token list with
its cursor, the stack of marks (`mark_rollback`, `rollback`, `commit_rollback`) and the
splits of `>>` and `>=` made since each mark. In the code the lexer delivers tokens
on demand; since it never looks at the parser, having them all from the start is the
same. What the code asserts (a token to give back, a mark to roll back to) are guards: an
assertion that fails ends the process.

`Speculation` is what the parser may rely on: a stream that keeps a whole copy of its tokens and
its position for every mark and puts the copy back. `TokenStream` keeps a number and a position,
and undoes splits. `Parser!RollbackIsExact` says that the one implements the other, with `Saved` (what
the marks on record stand for) for the copies.

### ParserCode, Parser

`ParserCode` gives each parse function of `Parser.cpp` as a short program:
`EXPECT` and `REQUIRE` are the code's macros, `Call` a call with what is done for
each of the three results, `tryParsers`, `comma_separated` and the loops the
combinators, `Build` the making of a node. `Parser` is the machine that runs
these programs: `stack` has one frame per active function, an action runs the first
step of the top frame (`expect`, `Speculate`, `TryParsers`, `Loop`, `SkipAhead`,
`ParseBinaryExpr`, ...). So the model is as long as the grammar and not as the
state space of recursive descent. `nodes` keeps the trees of expressions;
declarations keep their kind only. A dereference of a null pointer is `crashed`.

`ParserPoints` looks at the programs of the parse functions and not at a run of them. `Points[fn]` is
everything `fn` can have left to do at some moment (the control points of the function), `Committed`, `Quiet`,
`Marking` and `Unmarked` are the control points where a token may be gone, where nothing was reported, and inside and outside a mark.
What must be true of these sets is stated as assumptions, and the invariant of the machine in terms of them (section 7).

### GenericTypes, Generics

`GenericTypes` holds types, their two notions of equality (the printed name, and
the identity that leaves linearity out), `unify`, `substitute`, compatibility,
`clone_type_expr` and the key of an instance. `Generics` is the checker that uses
them: an action is one definition of one pass (`RegisterType`, `PreRegister`,
`VisitTemplate`, `EnterFunction`), one statement of a body (`VisitStatement`), the making
or reuse of a copy of a generic function (`MakeCopy`, `ReuseCopy`: the copy is
pushed on `stack` and checked before the caller goes on, as in the code) or the
stack running out (`Overflow`, at `MaxDepth`). The recursion over types and expressions
inside a statement is written with recursive operators that hand on the
checker's state. `checker` holds the scopes (`typename_to_type`, `id_to_type`), the
instances and the errors; `fault` says that the compiler died or ran out of
stack.

### LinearTypeChecker

One action per handler of `LinearTypeChecker.cpp`. `scope` is the open map of
`scope_stack`; `VarInfo` is the state of the variable (slot `Root`) and of its
first-level children, the ones `find_child` can reach. `frames` holds what the
handlers of `if`, `case` and `while` keep in local variables across the recursive
walk: the snapshot before the construct and one snapshot per finished arm.
`BeginBranch`, `NextArm`, `EndBranch`, `BeginLoop` and `EndLoop` are the points of
the handlers between which the recursion happens, so the recursion over the
tree is a stack in the model. `errors` is the set of kinds reported;
`CheckFunc` and `PopScopeAndCheck` are the two ends of a function.

`Consume`, `Restore`, `Mismatch`, `CheckBranchConsistency` and `Forgotten` are the
checker's helpers: `consume` on places it finds, `restore` (which keeps names
the snapshot does not know), the agreement of arms, the merge, and the exit
check on children.

### Ownership

The code MLIRGen emits, as one execution of the function: `env` is what each
alloca holds, `heap` the state of each cell, `content` the pointer stored in a
cell, `faults` the memory errors committed. `path` says for every open
construct whether the arm being walked is the one executed (`now`), not reached
yet (`waiting`), already behind (`passed`) or inside something that is not
executed (`skip`). Which arm runs, and whether a loop runs at all, is not
determined. A loop body is executed once; `RunEndLoop` says what a second
iteration would do to the cells the first one saw at entry.

### LinearSoundness

Composes the two: a step is one statement, the checker's handler and its
execution together. The function is any one the parser and type checker let
through: names declared before use, operands of the right type, constructs
nested. Each function keeps to one of `Dialects`, a set of statement kinds and
types: a run has several dialects, so that statements that break a promise and
statements that do not are explored side by side without being multiplied.
`Naming` says which names a `let` may reuse (`unique`: none; `scoped`: those whose
block has ended; `any`), `Lexical` whether a name ends with its block. `Return` is the return that is
the last statement of the function, `EarlyReturn` one anywhere else. Statements may follow it in its
block, and the model has them: the type checker visits every statement of a block
(`BiTypeChecker.cpp:509`) and the linear checker walks every one (`LinearTypeChecker.cpp:218`), while
`emitBlock` (`MLIRGen.cpp:503`) emits nothing behind a return. So they change the checker's map and, as the call
has returned or the arm is not executed, no memory.

The promises (`NoDangling`, `NoLeak`, `OneOwner`, `NoneForgotten`) do not hold for the whole
language (section 9). `SafeUnlessDuplicating` and its three siblings say for which
functions they do: the sets `Duplicating` and `Losing` name the statements that
break them, and are as small as they can be.

### LinearWhole

The fragment for which the checker keeps its promise, and its inductive invariant. `Whole` says that
the function at hand is of the fragment: its variables are linear pointers, or structs and tuples of
them, every pointer of which the checker registers (`WholeType`); its statements are those that use a variable as a whole
(`WholeOps`: binding, calls, moves, literals, destructuring, `free`, use, field stores, `addr`, discarded
values, returns anywhere, `if`, `case`, loops); its names are declared once and end with their block. What it leaves out is the five
kinds of statement of `Duplicating`, stores through a pointer, and pointers to pointers.
`WholeInvariant` has two parts: `Walk` relates the maps the checker holds, `Run` says which one of them
describes the memory. It is proved (section 7), so the promises hold there for any number of variables, cells, types
and nested constructs.

### LinearTypes and LinearVariable

`LinearTypes` holds the queries on types as trees (`containsLinearTypes`,
`register_inner_linear`, ...) as recursive functions over a constant universe,
with the `VarInfo` tree at full depth. A universe has the parts of its types, and no type is a part
of itself: that is `UniverseAssumption`. `LinearVariable` is the life of one variable
of any type. `MCLinearSoundness` instantiates `LinearTypes` to compute what its
types register, so the two models use one definition of registration.

### Resolver

`stack` is the native stack: frame 1 is `Resolve`, the others are activations of
`import_module`, each with the file it parsed, the flag `transitive` and the next
import of its loop. `AlreadyImported`, `ModuleMissing`, `ModuleBroken` and
`ModuleEntered` are the four ways a call of `import_module` goes, up to the
recursion; `ModuleDone` is the rest of the function after its loop;
`ResolveReturns` ends the stage. `program` is the definition vector, built by
`inject_definitions` back to front as in the code; `world` is the disk, which does
not change while the stage runs.

### LibraryEmitter and Compiler

`Compiler` has one action per stage for each of several runs; `run[p].stage` is
the position in the list of stages, `run[p].emit` the position inside
`LibraryEmitter::Emit`. A file is the version of the source it was made from, so
stale contents can be told from new ones, and an archive maps its members to such
versions. `Crash` ends a run anywhere and leaves the
disk as it is; `Edit` changes a source; `Begin` starts a run when `Options` has
read the source. Stages that check the program choose their verdict. The two
branches of `emitArchive`'s copying are `CopyObject` (the module's own object
first) and `CopyDep` (each dependency, in order, over what is there). `ar x` may fail, and then any
part of the archive's members is extracted; the code throws its status away (`library_emitter.cpp:92`),
so the stage goes on. Two fields of `run[p]` are history that no step reads: `given`, the members of
the archives found for the imports, and `lost`, whether one was not extracted.

`Exclusive` says that no two runs work on one file at once: the build does it
so (CMakeLists.txt:109-121 makes the static build of a library depend on the
shared one). Without it `Delivered` fails: two runs share
`sammine_ar_<stem>` and one removes it while the other is filling it.

### FileCheck

A session is a test file and the commands run on it. `parse_check_line` collects
the directives; `CheckNot`, `CheckNext`, `CheckSame`, `CheckPlain` and `CheckTrailing`
are the branches of the loop of `check`, `update` the whole of `--update`. A line is
the sequence of its pieces: blanks, `|` and `/`, the `.mn` of a file name, the `RUN:` or `CHECK:` of
a directive, a regular expression in braces, any other text. As in the code a pattern matches where its
pieces stand in the line one right after the other; `sanitize_output_line` cuts the directories out
of a line, wherever they are; and what is written of a line is trimmed when it is read back. A piece
`{{..}}` in a pattern does not stand for itself: one such piece means any text and one another text.
`matched` records where each directive was satisfied, for the
properties.

## 4. Runs

| Run | Question | Answer |
|---|---|---|
| `linear_raw` | raw pointers, all constructs nested two deep | `NoDangling` and `NoLeak` hold without exception |
| `linear_wrappers` | structs and tuples of pointers, literals and destructuring, under branches and loops; pointers to pointers | all four promises hold of the functions without the statements known to break them, and so does the invariant behind them |
| `linear_open` | statements that can lose a cell (`return` anywhere, field stores), and statements that can copy a pointer (field reads, values of branches, unwalked expressions) | the first may leak but never free twice or use a freed cell; the second may double free but never lose a cell |
| `linear_variable` | every type nested three deep | scope exit reports exactly the variables that still own something |
| `parser` | programs and near-programs, spaced and unspaced, and all chains of operators | the lexer gives the words back; programs are accepted with the right tree; nothing is skipped without an error; a rollback restores exactly what its mark saw; parsing ends |
| `generics` | generic structs, enums and functions that call each other, inference against all pairs of types | inference is exact, every call has a body that fits it, instances mean what they should, and the checker fails only for the named causes |
| `filecheck` | tests, outputs, and sessions of updates and checks | a pass is justified, a failure too, and a rewritten test passes if what is written of each line still matches it |
| `resolver` | import graphs, search paths | ends; nothing twice, out of order or leaked; first-reached imports are complete |
| `compiler` | runs with all options, crashes, edits, overlaps | an error stops everything, success delivers up-to-date files and leaves no litter, archives hold what their imports' archives held, quiet options write nothing |
| `gap_early_return` | does an accepted function that returns in a branch never leak? | no (section 9) |
| `gap_precedence` | do `\|`, `\|\|`, `&`, `^`, `&&` bind as documented? | no |
| `gap_generic_linear` | has every call of a generic function a body when linear pointers are involved? | no |

The linear runs carry the constraint `NotRejected` (`errors = {}`): every property is about
functions not rejected, `errors` only grows, so what follows the first report
cannot matter. TLC checks invariants on the violating state before it cuts.
`gap_early_return` also asks (`EndsInBranch`) that the execution ends in a branch and at its last statement: else
the shortest counterexample is a `free` behind a return in the same block, which is a leak too but no program anyone writes.
Deadlock is off where a run ends (a function, a parse, a session, a stage); it is
checked for `compiler`, where runs can always begin again.

Each property has a mutant: a plausible mistake in the code (a snapshot not
restored, a flag passed on unchanged, a guard dropped) put in place of the
translated definition makes the property fail. They are the definitions
marked "Slip" or "Mistake".

## 5. Bounds and why they are enough

* Linear runs: three variables, two cells, nesting two for raw pointers and one
  elsewhere, two or three arms. Faults of the checker come from two maps
  disagreeing about one variable, and one other variable is needed to hold the
  other half; a third is there for results and targets. Nesting two lets a
  construct be restored inside a construct being restored; deeper nesting only
  repeats this, which is what the induction over `WholeInvariant` says. The gaps
  in section 9 all show with two or three names. Variables and cells are
  symmetric.
* `linear_variable`: types nested three deep with one or two parts: the code
  recurses on one level at a time, and a child under a child under a root covers root,
  inner and leaf positions.
* `parser`: nine programs that between them use every construct, each with its
  words apart and with every pair of words that may touch touching; each of them
  with every word removed, and with every word replaced by `(` and by `<` (the two
  tokens that open nested parsing and speculation); all chains of two operators,
  and of three from five of the precedence levels. A function's handling of a wrong token
  does not depend on which wrong token it is, except for those that begin something else:
  `(` and `<` are the ones.
* `generics`: 2416 programs, given in `MCGenerics` by construct: pairs of
  patterns against pairs of types for inference; bodies of two generic functions that call
  each other and themselves at the same, at swapped and at bigger types; types
  that contain themselves; four definitions in every order. `MaxDepth` = 5 is
  met only by endless recursion: that is part of what `FaultsHaveTheirCause` checks.
* `filecheck`: up to three directives of five kinds on up to three lines of output with
  two words. Two checks and a CHECK-NOT between, before or after them are three, and
  a line each to match and one between are three. For updates: fourteen kinds of line, one or two of each
  kind the code treats apart (blank, spaces, plain text, echoed directives, regular expressions, and paths first in
  the line, behind a blank, behind other text and with nothing to cut) in outputs of up to three, and then a second
  update over the first one's result.
* `resolver`: three modules and the main file are enough for a diamond, a cycle that
  avoids the main file and a module met both directly and transitively.
  The import lists are a family of seven (five for the main file) and not all
  sequences. `StackLimit` = 7 is above the deepest recursion (four activations
  plus `Resolve`); the mutant that forgets names reaches it and stops there,
  which is how `Terminates` catches it.
* `compiler`: two runs, three libraries, each importing the next, and a program, so that an archive can bring
  members its import got from elsewhere and a runtime object; up to three versions of a source: the
  version read, a later edit, and an older one on disk. The scenarios divide
  the options and the concurrency, since their product is too large.

## 6. Fairness

The resolver and the parser have a liveness property, `Terminates`. Each assumes weak
fairness of its whole next-state relation: the stage is a loop of one thread
that never waits, so it keeps taking steps as long as one is possible. Nothing
is assumed of single actions, and in both machines at most one action is
enabled at a time, so fairness never chooses. The linear checker is a
structural recursion over a finite tree, and `check` a loop over two indices
that only grow; a specification without fairness is right for their safety properties.
The type checker need not end (recursion of generics that grows), which is what
`FaultsHaveTheirCause` is about. Runs of the compiler crash at will, so no
fairness would be justified.

## 7. Proofs

The theorems hold for every value of the constants that satisfies the named
assumptions (`ProgramVocabulary`, `CheckerAssumption`, `OwnershipAssumption`,
`ProgramAssumption`; `NamesAssumption`, `DirsAssumption`, `WorldsAssumption`;
`CompilerAssumption`; `TextAssumption`, `ExtensionsAssumption`, `SessionsAssumption`; `UniverseAssumption`;
`FilesAssumption`), which TLC evaluates in each run of the modules that extend them. The assumptions of
`ParserPoints` have no constant in them: they are facts of the code of the parse functions, finite ones, and TLC's evaluation in `parser` decides them.

* `LinearSoundnessProofs!TypeCorrect`: `Spec => []TypeOK`. `TypeOK` is inductive as it
  stands only because of its third part: `ProgramTypeOK` says that the checker's
  frames, the executed path and the stack of visible names have one length and that
  every visible name has a type. Without the first, `EndBranch` could pop a
  snapshot for which no path is open; without the second, a statement could ask for the
  layout of `NoType`. The argument: lemmas on what each helper returns
  (`ConsumeType`, `RestoreType`, `ConsistencyType`, ...), one lemma per handler of
  the checker and per statement of the execution, three lemmas that put the parts
  together (a plain statement, a binding, a construct opening or closing),
  and one step per action.

* `LinearWholeProofs`: the promises of the linear checker, for any number of variables, cells, types, parts
  of a type, arms and nested constructs. `WholeInvariantHolds` is `Spec => []WholeInvariant`, with no hypothesis; the
  invariant itself speaks of the functions of the fragment (`Whole`). From it:

  | Theorem | Promise | Supposed |
  |---|---|---|
  | `SafeUnlessDuplicatingHolds` | nothing is freed twice, or used when freed or unset | `OthersAreWhole(Duplicating)` |
  | `NoLeakUnlessLosingHolds` | nothing is lost | `OthersAreWhole(Losing)` |
  | `OneOwnerUnlessEitherHolds` | a live cell has one owner | `OthersAreWhole(Duplicating \cup Losing)` |
  | `NoneForgottenUnlessDroppedHolds` | the checker has sight of each live cell | nothing; it is about the functions of the fragment |
  | `NoDanglingHolds`, `NoLeakHolds` | the first two, with no function excepted | `OthersAreWhole({})`, and for leaks no statement that loses a cell |

  `OthersAreWhole(ops)` says that names are declared once and end with their block and that every dialect with none of
  the statements `ops` is of the fragment. The constants of `linear_wrappers` satisfy the first three
  hypotheses, those of `linear_open` the first, those of `linear_raw` all of them. What the hypotheses exclude,
  section 9 has counterexamples for. None of the promises is inductive: which of the maps the checker holds
  is the true one depends on the arm that runs, and the map it holds at
  the moment may be about an arm that does not.
  * `Walk` (`WalkHolds`) is about the checker alone: every snapshot of an open
    construct knows only declared names, no later map takes back what an earlier one
    consumed, names declared inside an arm are unknown to the snapshot before it,
    names whose block has ended have the state they ended with, and the parts of a variable keep the state they
    were registered with (`PartsStay`), since only whole variables are consumed. It is inductive whatever is executed.
    There are three shapes of step: a plain statement changes one map forward
    (`Plain`), a construct opens and is pushed with its snapshot (`Opened`), an arm
    ends and the map goes back to it (`Turned`).
  * `Run` is about a function not rejected so far. It names the map that describes the
    memory (`Owners`): the one held, if all open constructs are executed; else, at the
    outermost one that is not, the snapshot of the arm that ran, or the one before if none
    did. With that map (`Agree`) an unconsumed name that can still be used holds a value with all its pointers set and
    different (`WholeValue`), live cells throughout, and no two names share a cell (`Owns`); without stores into fields every
    live cell is held by one (`Knows`): a store drops the cell it overwrites, and the checker does not see it.
  * A statement that binds or consumes hands cells over: `HandOver` says how owners, cells and heap change, and
    one lemma (`HandedAgree`) carries all of `Agree` across it, for `let`, literals, destructuring, calls and
    `free` alike. `GiveSafe` is where the checker's left-to-right consumption is used:
    arguments it does not report are different names, so no cell is handed over twice.
  * Arms agree when no mismatch is reported (`JoinAgrees`), so after a construct it does not matter
    which one ran. `LoopEntries` and `Keeps` say that a loop body that took something from outside
    differs from its snapshot, which is what the checker reports: a second
    iteration then finds the cells as the first did. `LeaksShow` says that a lost cell
    leaves an unconsumed name whose block has ended, which `EndFunction` reports.

* `ResolverProofs!RecursionIsBounded`: `Spec => []RecursionBounded`. The bound is not
  inductive. The invariant `Calls` says that every activation of `import_module` is
  for a marked module and no two are for one module; a module is marked before
  its activation is pushed, so a marked one is never entered again. The
  activations are then an injection into `Names` and the pigeonhole principle gives the
  bound. It needs `Names` finite and nothing about the imports.

* `ResolverProofs!OnlyDirectLinked`: `Spec => []OnlyDirectAreLinked`, from the same invariant:
  an activation that is not transitive was called by `Resolve`, hence for an
  import of the main file, and only such an activation searches an artifact.
  What `traceLinkableArtifacts` finds is looked at only as far as its name.

* `ResolverProofs!DefinitionsAreUnique`, `OrderIsKept` and `TransitiveStaysInside` are about what
  `inject_definitions` has put into `program`. Nothing is inserted of a file whose activation is
  still open, and a file is entered once: so the invariant `Content` can say of every item that its file is no
  longer active (`ItemsAreOver`), which makes the next insertion disjoint from what is there,
  that items of one file ascend (`OrderedByName`), and that those of a module not imported by name
  are generic or types (`NothingLeaks`). The three properties are its parts.

* `ResolverProofs!FirstReachedAreResolved`: the completeness of the stage. `DirectSettled` says that each import of
  the main file that was handled without an error, and that no earlier import leads to, is in the program in
  full or is being imported now (`InProgress`); `Reached`, that only what the earlier imports lead to is
  marked, which is why such an import is not passed over as already imported. `ReachedBefore`
  is a least fixed point, reasoned about by the property that defines it.

* `ResolverProofs!StepsRunOut`: the part of `Terminates` that is not about fairness. Each step meets a
  name not met before, or closes a call, or uses up an import of the innermost one (`Nearer`, a
  lexicographic order), and the three are counted in natural numbers (`Counted`); so from no state can the
  stage take steps for ever. That it is not stuck before its end is what TLC adds.

* `CompilerProofs!ErrorsAreFinal`, `StagesHaveTheProgram` and `QuietRuns`, from the invariant
  `Inv`: the disk is typed and every run is `Sound`. None of the three is
  inductive. `Sound` says for each stage what must have happened for a run to be
  there: an error has been turned into the verdict everywhere but inside
  `emit_library`, the stages that use the module come after the one that made it and before
  the JIT took it, a run that is asked not to write never reaches a stage that does. Two
  lemmas (`Ends`: a stage ends and the run goes on or stops; `Onward`: a step
  inside `emit_library`) carry it through all stages. No assumption on how
  many runs there are or what they share.

* `CompilerProofs!SuccessDelivers` and `ArchivesAreClosed`: `Spec => []Delivered` and
  `Spec => []ArchiveIsClosed`, under `Exclusive` and `Layered(rank)`, that is, no two runs
  are on one file at once and the imports have no cycle (some `rank` falls along them).
  Both are needed: without the first two runs share a temporary directory; without
  the second the archive of an import can bring back an old copy of the module's own
  object, over the new one. The invariant `Delivery` says: `Alone`, two active
  runs have two stems; `Layers`, everything in an archive or in a temporary directory comes
  from a stem of lower rank than the stem it is for, or is its own; `OwnThere` and
  `Found`, what a run is to link is on the disk; and `Progress`, for each stage,
  which of a run's files are already as it wants them. For `ArchiveIsClosed` it says where the members `given` to a run
  are: in the archives still to be extracted (`Held`), or in the temporary directory, or in the run's archive, unless
  one is `lost`; archives only grow. A frame lemma says that a step of another run,
  a crash and an edit leave a run's own files alone, so each step is looked at for
  the run that takes it.

* `FileCheckProofs!PassingIsJustified`: `Spec => []PassIsJustified`. The invariant says
  that there is one place in `matched` for each directive handled, that the next search
  starts behind the last of them, and that these places follow their directives as far as
  they go. A positive check that is added has to clear the CHECK-NOTs before it over just
  the lines it passes over (`OneMore`); `CheckTrailing` clears the last ones to the end.

* `FileCheckProofs!FailingIsJustified`: a test that fails could not have passed. This is about all
  placements of the checks on the lines, and `OnlyPlacement` is the invariant: a directive leaves its check one
  line, so any placement that follows the directives to the end agrees with what the search has found so
  far. When the search finds nothing, there is none.

* `FileCheckProofs!UpdatingPasses`: a test that `--update` wrote from an output passes on it. `UpdateInv`
  says where the written directives are in the file and of which lines (`Wrote`), and how far the parse and the
  match have come along them (`Retraces`): the k-th check is made of the line it will find, since a
  CHECK-NEXT is written exactly where no line was left out. That the check then matches its line is not so in general:
  it is for the outputs of `Checkable`, by an induction along the pattern. What these leave out, section 9 lists.

* `LinearVariableProofs!ExitReports` and `NothingReportedFalsely`, for types of any depth: what `pop_scope_and_check`
  reports is what is still owned. `OwedIsSeen` says that an owed place is a leaf of the `VarInfo` tree with nothing
  consumed on the way to it, `SeenIsOwed` the converse, and `Shape` that consumption
  does not change the tree. Most of the work is the tree: what `register_inner_linear` registers is read off by
  induction over types. Both theorems suppose a `rank` that falls from a type to its parts
  (`Ranked`): a type is a finite value in the code, built of finished ones.

* `ParserProofs!RollbacksAreExact`: `Spec => RollbackIsExact`, the refinement of `Speculation`, and
  `TokensAreKept`, for any set of files and whatever the parse functions do (`NextOnStream` says all
  that is used of them: a step moves the cursor, splits a token that is not the end of file, or
  marks, rolls back or commits). The invariant `StreamInv` gives the stream a history: `h[k]` is the
  list after the first `k` splits on record, `h[0]` the tokens of the file, and undoing the last split of
  `h[k + 1]` gives `h[k]`. A mark is about one of these lists, and marks nest (`Marked`). A split makes the
  history longer, a rollback cuts it off at its mark, and both leave the lists of the marks that
  remain as they are; so the copies a rollback would need (`Copies`) are all in it.

* `ParserProofs!FailuresAreReported`, `NoncommittedConsumed` and `NothingIsSkipped`: the discipline the parse functions rely on
  in each other, for any files: FAILED means that an error is reported already and the caller need not, NONCOMMITTED that
  the next alternative starts where this one did, and a file accepted without an error was read to its end. The argument has two halves.
  * The functions, one at a time. Each is a short program, so the set of its control points is finite and closed
    under its steps, whatever the functions it calls return. About these sets `ParserPoints` assumes, and TLC evaluates: where a
    token may be gone, no function returns NONCOMMITTED (`CommittedAssumption`); where nothing was reported, none returns
    FAILED or notes an error, and a skip is followed by a report (`QuietAssumption`); a mark is undone or given
    up before the function ends or makes another (`MarkAssumption`); `ParseProgram` ends without an error only on sight of
    the end of file (`EndAssumption`); what a `**` owes is asked for next (`OwedAssumption`).
    Two calls pass on NONCOMMITTED as FAILED without a word, of `ParseIfExpr` after `else` and of
    `ParsePrototype` after `kernel`; `SilentAssumption` says that they are made only where the first token was seen.
  * The machine, for stacks of any depth. `ParserInvariant` says of every frame on the stack, not only the top one, what
    its function can still do after each of the three results of the function it waits for. `OnPoints`: it stays on its control
    points. `CommitsIfTouched`: it is committed, or neither the cursor nor the errors have changed since it began up
    to the call it waits for. `ReportsIfFails`: an error was reported since it began, or it is quiet, and the call it
    waits for cannot come back as NONCOMMITTED where that would matter (`Certain`). `MarksAreKept`: there are
    as many marks on record as frames inside one. `OwedIsAsked`: at most one dereference is owed, and only on the way to its
    operand. `SkipsAreReported` and `EndIsReached`: a skip without an error is about to be reported, and the
    outermost frame is not at its end before the file is. None of the three properties is inductive: each is about the moment a
    function returns, and holds because of what was done by functions that are gone by then.
  * `KernelAlone`, a `kernel` that no name follows, is excepted as in the properties (`ParseKernelDef` fails without an error there).
    A split of `>>` could in principle come between the two words; `NamedHistory` says of every list in the history
    of the stream that it does not.

The provers have no induction over data of their own: the library's theorems take an operator as a parameter,
which none of them can instantiate. `SequenceLemmas` has first-order forms instead. A property of numbers is the set of
the numbers that have it (`NatInductionSet`, from the least element of a set of numbers, `Least`), one of ranked
things a set too (`RankInduction`); the function a recursive definition means is shown to exist from the
function of one step (`Recursion`, `RankedRecursion`), so that what is proved is about that function and no
assumption is made of it. This is enough for folds, for types and for the histories above.

## 8. Only model-checked

* What the promises say of functions outside the fragment: of statements on places below a root (`free_inner`, `deref_move`,
  field reads) and of stores through a pointer in functions that are otherwise safe. `linear_open` checks `NoLeakUnlessLosing` of
  functions that duplicate, and `linear_wrappers` `NoneForgottenUnlessDropped` of functions with pointers to pointers; no theorem does.
* `Generics`. Its statements, expressions and types are evaluated by operators that call each
  other recursively and hand on the state of the checker; tlapm has no SMT backend in a module that
  declares such operators.
* What `Parser` accepts (`MeantIsAccepted`, `TreeAsMeant`): the language the sixty parse functions accept together is
  not regular, and the trees expected are given file by file; and `ReadBack`, on
  the characters of strings, of which the provers know nothing.
* `Terminates`, in both modules: liveness under fairness. `RecursionIsBounded` and `StepsRunOut` are
  the parts of the resolver's that can be proved.

## 9. Disagreements between the code and its documents

Three have a violation run and are findings in `PROJECT.json`, with the quoted
lines: `gap_early_return`, `gap_precedence`, `gap_generic_linear`.

**The linear checker** has more gaps than one run can show. Each of the following
appears as a counterexample when `gap_early_return.cfg`, without its action constraint, is given types and fields
as listed, 2 names and cells (3 where types are nested), `Naming` = "unique" and `Lexical` =
TRUE unless said, and one dialect of these types and the statements listed:

| Gap | Values | Property |
|---|---|---|
| a name reused in a sibling block overwrites the entry of the first | let, free, if; Naming scoped | `NoLeak` |
| shadowing in one block (banned by docs/language-reference.md:76, not rejected for variables) | let, free; Naming any | `NoLeak` |
| a field freed inside a loop: `EndLoop` compares roots only | box, 0; let, free, free_inner, pack, loop | `NoDangling` |
| a field freed after its variable was moved | box, 0; let, move, free_inner, pack | `NoDangling` |
| destructuring a tuple whose element is a struct of pointers: the element is not registered | box, nest, 0 1; let, free, pack, destructure | `NoLeak` |
| calls under unary minus, in `f(x).y`, in the size of `alloc`: not walked | let, free, other | `NoDangling` |
| a variable as the value of a branch is not consumed | let, free, if, value | `NoDangling` |
| a store to a field loses the old content and does not set the field unconsumed | box, 0; let, free, free_inner, pack, store_field | `NoLeak` |
| `let q = *p` copies the pointee without consuming it | pptr, *; let, free, store, free_inner, deref_move | `NoDangling` |
| names used after the block that declares them | let, free, if; Lexical FALSE | `NoDangling` |
| a pointer to a linear pointer that is never freed is not reported: its child starts consumed | the condition `NoPointerToLinear` of `ExitReportsOwed` dropped | `ExitReportsOwed` |

**Lexer and parser.** Errors of the lexer are reported and forgotten: the run goes
on and exits with 0 (`Compiler.cpp:129`). `()` as a value is a node without a location, and
taking its location dereferences null (`Parser.cpp:1527`). `a < (b - 1)` is refused: the
errors of the speculative parse of type arguments stay after the rollback (`:1818`). `kernel`
without a prototype fails without a word (`KernelAlone` is an exception of two
properties). `x |> f<i32>(y)` drops the type arguments. `if x {}` takes `x {}` for a
struct literal, `**-x` is read `*-*x`, `t.0.1` is lexed as `t . 0.1`, and a number that
ends the text is split in two. docs/grammar.md says that comments start with `#`, which the
lexer rejects, and that the type of an array is `[T; N]`, which is `[N]T`;
docs/parsing.md says NONCOMMITTED means a null node. A string that is not closed is read past the end of
the text.

**Generics.** A generic function called further up than it is defined stops the compiler
(`BiTypeCheckerSynthesize.cpp:373`; the comment at `BiTypeChecker.cpp:60` says calls may come before), and so does a
variant of a generic enum that has no instance yet (`:781`, marked TODO there). A generic type
that contains itself, and a function that calls itself at an ever bigger type, recurse until the
stack ends. `unify` compares nominal types by name, so the `T` of `f<T>(b: Box<T>)` can never be
inferred. The placeholder of an instance leaves its parameters in the
scope of the function (`BiTypeChecker.h:328`). Struct literals and variants in generic
bodies make their instance again each time, where `Monomorphizer.h:27` says that callers see to it. A type of the
program with the name of a type parameter is captured by it (the programs have
none). Comparison of types takes any two enums for the same (`Types.cpp:99`).

**Modules and artifacts.** An import that was first met as a missing transitive one is not
reported when it is then imported directly (`resolver.cpp:30`). When libraries import each
other, the rebuilt archive holds the old object again (`library_emitter.cpp:91`), which is why
`Delivered` is stated for imports without a cycle.

**SammineCheck.** The usage text (`SammineCheck.cpp:529`) says that CHECK-NOT forbids a pattern between two
matches; before CHECK-NEXT it forbids the line CHECK-NEXT has to match, and before CHECK-SAME nothing.
CHECK-LABEL is the same as CHECK (`:530` promises more). The same text says that `--update` makes the
CHECK lines `match actual output` (`:521`). It does not for three kinds of line. Of a line of spaces it writes a directive
without a pattern, which the next check refuses. A directory is cut out wherever it stands, but the
pattern must be in the line in one piece: `In /tmp/foo.mn` becomes `CHECK: In foo.mn`, which fails on
the very output it was written from. And a `{{` in the output is read back as a regular expression.
Dropping the condition of `Checkable` for the kind at hand gives the counterexample in `filecheck`.

**Archives.** `library_emitter.cpp:76` says that the members of the imports' archives are extracted `so we produce a flat
archive`. The status of `ar x` is thrown away (`:92`): when it fails, the run succeeds and the archive lacks members.
`ArchiveIsClosed` without `~run[p].lost` fails in `compiler`.

## 10. Not modelled

* MLIR lowering, kernels, GPU code, the JIT's inside: calls into LLVM and MLIR.
  The JIT's outcome is a choice in `Compiler`.
* Printing, formatting and layout of ASTs and diagnostics; locations.
* `ScopeGenerator`: one pass of registrations and lookups in nested tables, without
  an order of events to get wrong; what it lets through is in `MayName` and `Usable`.
* `GeneralSemantics`: one pass of syntactic checks. Its flag for implicit returns
  (`GeneralSemanticsVisitor.cpp:45`) is listed as a hazard: it would need the
  statement trees that `Parser` leaves out.
* In the linear checker: closures and the pointers they capture, arrays
  beyond registration, enum payload patterns, arithmetic.
* In the type checker: operators, control flow, field access, arrays, type
  classes, integer-backed enums, variadics, kernels, the prototype of `main`. They
  synthesise one type from others and keep no state.
* In the emitter: several output directories, `ar rcs` failing half-way, a member that `ar x` leaves truncated. In
  `Compiler`: the `diff` dump's temporary files.
* In FileCheck: what regular expressions match, but for the two above, and the command line.

## 11. What is left

1. Closures in `LinearTypeChecker` (captures, escape checks).
2. An abstract specification of ownership ("every cell has one owner, who passes it on or frees
   it") that `LinearWhole`'s fragment implements; an abstract
   import stage ("the set of reachable definitions") that `Resolver` implements.
3. `ScopeGenerator` and `GeneralSemantics`, over statement trees kept by `Parser`.
4. Pointers to pointers in `WholeInvariant`: `Owners` would have to speak of places and of what a cell
   holds, not of variables alone.
5. `Generics` unifies with RECURSIVE operators, which keeps its theorems out of the prover's reach.
   Written with recursive functions over a bounded set of types, what inference promises
   (`InferenceIsExact`) could be proved as well as checked.
