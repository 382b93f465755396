------------------------------ MODULE Compiler ------------------------------
(***************************************************************************)
(* Runs of the compiler (Compiler::start, src/src/compiler/Compiler.cpp):  *)
(* the stages in their order, how an error or an early finish ends them,   *)
(* and what they leave on the disk they share, with runs that crash and    *)
(* sources that are edited meanwhile.                                      *)
(*                                                                         *)
(* A stage that checks the program is a choice of its verdict; what the    *)
(* checks are is the subject of the other modules.                         *)
(***************************************************************************)
EXTENDS LibraryEmitter

CONSTANTS
  Programs,     \* the stems whose file defines main
  Imports,      \* the modules each file imports, in order
  Scenarios,    \* [procs, stems, options, versions]: who runs what, and how
                \* many versions of a file there will be
  Exclusive     \* no two runs are on one file at once

Options ==
  [format : {"static", "shared"}, check : BOOLEAN, jit : BOOLEAN, mlir_ir : BOOLEAN,
   from_string : BOOLEAN]

ASSUME CompilerAssumption ==
  /\ Stems # {} /\ Programs \subseteq Stems
  /\ Imports \in [Stems -> Seq(Stems)]
  /\ \A s \in Scenarios :
       /\ s.procs \subseteq Procs /\ s.stems \subseteq Stems
       /\ s.options \subseteq Options /\ s.options # {}

VARIABLES
  scenario,
  source,       \* the version of each file
  exes          \* stem.exe: the version linked, 0 when absent

vars == <<objects, shareds, archives, temps, run, scenario, source, exes>>

Stages ==
  <<"lex", "parse", "imports", "definitions", "semantics", "typecheck",
    "linear_check", "dump_ast", "codegen", "optimize", "jit_execute",
    "emit_obj", "emit_library", "link", "return">>

NextStage(s) == Stages[(CHOOSE i \in DOMAIN Stages : Stages[i] = s) + 1]

\* A run that has not started.  The last two are history, for the properties
\* alone: the members of the archives it found for its imports, and whether one
\* of them was not extracted.
Idle(o, s) ==
  [stage |-> "idle", emit |-> "begin", state |-> "Running", stem |-> s,
   options |-> o, version |-> 0, artifacts |-> <<>>, todo |-> <<>>,
   has_main |-> FALSE, module |-> "template",
   failed |-> FALSE, ran |-> FALSE,
   given |-> {}, lost |-> FALSE]

NoRun == Idle(CHOOSE o \in scenario.options : TRUE, CHOOSE s \in Stems : TRUE)

(***************************************************************************)
(* The loop of start                                                       *)
(***************************************************************************)

\* Mistake: only an error stops the loop.
StopsOnError(r) == r.state = "Error"

should_stop(r) == r.state # "Running"

\* The stage of run p ends with the run as r.
StageEnds(p, r) ==
  run' = [run EXCEPT ![p] =
            [r EXCEPT !.stage = IF should_stop(r) THEN "return" ELSE NextStage(@)]]

\* Mistake: the error is reported and no more.
ReportOnly(r) == [r EXCEPT !.failed = TRUE]

SetError(r) == [r EXCEPT !.state = "Error", !.failed = TRUE]

In(p, stage) == run[p].stage = stage
Private == UNCHANGED <<objects, shareds, archives, temps, scenario, source, exes>>

\* Options reads the file whole before any stage.
Begin(p, s, o) ==
  /\ p \in scenario.procs /\ s \in scenario.stems /\ o \in scenario.options
  /\ In(p, "idle")
  /\ Exclusive => \A q \in Procs \ {p} : In(q, "idle") \/ Stem(q) # s
  /\ run' = [run EXCEPT ![p] =
               [Idle(o, s) EXCEPT !.stage = "lex", !.version = source[s]]]
  /\ Private

\* The lexer keeps its errors to itself: invalid tokens never reach the
\* parser, parse reports the lexer without asking it for errors, and the run
\* goes on.
Lex(p) ==
  /\ In(p, "lex")
  /\ StageEnds(p, run[p])
  /\ Private

Parse(p) ==
  /\ In(p, "parse")
  /\ LET r == [run[p] EXCEPT !.has_main = Stem(p) \in Programs]
     IN  StageEnds(p, r) \/ StageEnds(p, SetError(r))
  /\ Private

\* What traceLinkableArtifacts finds for an import in the output directory:
\* the kind that is asked for, the other kind, or nothing.
Artifact(s, format) ==
  LET has_a == archives[s] # NoArchive
      has_so == shareds[s] # 0
  IN  <<s, IF has_a /\ (format = "static" \/ ~has_so) THEN ".a"
           ELSE IF has_so THEN ".so" ELSE "none">>

\* The members of the archives among the artifacts.
MembersIn(artifacts) ==
  UNION {DOMAIN archives[a[1]] : a \in {b \in Range(artifacts) : b[2] = ".a"}}

ResolveImports(p) ==
  /\ In(p, "imports")
  /\ LET imports == Imports[Stem(p)]
         found == [i \in DOMAIN imports |-> Artifact(imports[i], run[p].options.format)]
         r == [run[p] EXCEPT !.artifacts = found, !.given = MembersIn(found)]
     IN  StageEnds(p, r) \/ StageEnds(p, SetError(r))
  /\ Private

\* Stages that change nothing kept here: a definitions.mn that does not parse
\* is only warned about, and a diff that cannot be written ends optimize early.
Pass(p) ==
  /\ run[p].stage \in {"definitions", "dump_ast", "optimize"}
  /\ StageEnds(p, run[p])
  /\ Private

CheckProgram(p) ==
  /\ run[p].stage \in {"semantics", "typecheck", "linear_check"}
  /\ StageEnds(p, run[p]) \/ StageEnds(p, SetError(run[p]))
  /\ Private

Codegen(p) ==
  /\ In(p, "codegen")
  /\ LET r == run[p] IN
     \/ /\ r.options.check \/ r.options.mlir_ir
        /\ StageEnds(p, [r EXCEPT !.state = "Finished"])
     \/ /\ ~r.options.check
        /\ StageEnds(p, SetError(r))
     \/ /\ ~r.options.check /\ ~r.options.mlir_ir
        /\ StageEnds(p, [r EXCEPT !.module = "program"])
  /\ Private

\* The module is given away whether or not the program can be run; an archive
\* among the artifacts is an error.
JitExecute(p) ==
  /\ In(p, "jit_execute")
  /\ LET r == run[p]
         given == [r EXCEPT !.module = "moved"] IN
     IF ~r.options.jit \/ ~r.has_main
     THEN StageEnds(p, r)
     ELSE \/ StageEnds(p, SetError(given))
          \/ /\ \A a \in Range(r.artifacts) : a[2] # ".a"
             /\ StageEnds(p, [given EXCEPT !.state = "Finished", !.ran = TRUE])
  /\ Private

\* Opening the object empties it.
EmitObject(p) ==
  /\ In(p, "emit_obj")
  /\ LET r == run[p] IN
     \/ /\ r.options.from_string
        /\ StageEnds(p, r)
        /\ UNCHANGED objects
     \/ /\ ~r.options.from_string
        /\ StageEnds(p, r)
        /\ objects' = [objects EXCEPT ![r.stem] = r.version]
     \/ /\ ~r.options.from_string
        /\ StageEnds(p, SetError(r))
        /\ objects' \in {objects, [objects EXCEPT ![r.stem] = 0]}
  /\ UNCHANGED <<shareds, archives, temps, scenario, source, exes>>

\* emit_library, before and after the steps of Emit.
SkipLibrary(p) ==
  /\ Emitting(p, "begin")
  /\ run[p].has_main \/ run[p].options.from_string
  /\ StageEnds(p, run[p])
  /\ Private

EmitLibrary(p) ==
  /\ In(p, "emit_library")
  /\ ~run[p].has_main /\ ~run[p].options.from_string
  /\ Emit(p)
  /\ UNCHANGED <<scenario, source, exes>>

LibraryEmitted(p) ==
  /\ Emitting(p, "emitted")
  /\ StageEnds(p, IF run[p].failed THEN SetError(run[p]) ELSE run[p])
  /\ Private

\* Without a linker that succeeds the run aborts.
Link(p) ==
  /\ In(p, "link")
  /\ LET r == run[p] IN
     \/ /\ r.options.from_string \/ ~r.has_main
        /\ StageEnds(p, r)
        /\ UNCHANGED exes
     \/ /\ ~r.options.from_string /\ r.has_main /\ objects[r.stem] # 0
        /\ StageEnds(p, r)
        /\ exes' = [exes EXCEPT ![r.stem] = objects[r.stem]]
     \/ /\ ~r.options.from_string /\ r.has_main
        /\ StageEnds(p, SetError(r))
        /\ UNCHANGED exes
  /\ UNCHANGED <<objects, shareds, archives, temps, scenario, source>>

Return(p) ==
  /\ In(p, "return")
  /\ run' = [run EXCEPT ![p] = NoRun]
  /\ Private

\* A run ends anywhere: killed, or by an exception nothing catches.
Crash(p) ==
  /\ run[p].stage \notin {"idle", "return"}
  /\ run' = [run EXCEPT ![p] = NoRun]
  /\ Private

\* Someone edits a file.
Edit(s) ==
  /\ s \in scenario.stems
  /\ source[s] < scenario.versions
  /\ source' = [source EXCEPT ![s] = @ + 1]
  /\ UNCHANGED <<objects, shareds, archives, temps, run, scenario, exes>>

Step(p) ==
  \/ Lex(p) \/ Parse(p) \/ ResolveImports(p) \/ Pass(p) \/ CheckProgram(p)
  \/ Codegen(p) \/ JitExecute(p) \/ EmitObject(p) \/ SkipLibrary(p)
  \/ EmitLibrary(p) \/ LibraryEmitted(p) \/ Link(p) \/ Return(p)

Init ==
  /\ scenario \in Scenarios
  /\ source = [s \in Stems |-> 1]
  /\ exes = [s \in Stems |-> 0]
  /\ DiskInit
  /\ run = [p \in Procs |-> NoRun]

Next ==
  \/ \E p \in Procs : Step(p) \/ Crash(p)
  \/ \E p \in Procs, s \in Stems, o \in scenario.options : Begin(p, s, o)
  \/ \E s \in Stems : Edit(s)

Spec == Init /\ [][Next]_vars

-----------------------------------------------------------------------------
(***************************************************************************)
(* Properties                                                              *)
(***************************************************************************)

Returned(p) == In(p, "return")
ExitCode(p) == IF run[p].state = "Error" THEN 1 ELSE 0

\* After an error of any stage but the lexer the compiler runs nothing and
\* does not return success.
ErrorsStop ==
  \A p \in Procs : run[p].failed =>
    /\ ~run[p].ran
    /\ Returned(p) => ExitCode(p) = 1

\* The stages after code generation work on the module generated from this
\* source: never on the empty template module, never on one already given to
\* the JIT.
ModuleIsTheProgram ==
  \A p \in Procs :
    run[p].stage \in {"optimize", "jit_execute", "emit_obj"} => run[p].module = "program"

\* A run that went through all its stages has left, up to date with the
\* source it read, the executable of a program or the library it was asked
\* for; beside a library no object file is left, nor the temporary directory
\* of an archive.  Runs crash and files are edited at any time.
Delivered ==
  \A p \in Procs :
    (Returned(p) /\ run[p].state = "Running" /\ ~run[p].options.from_string) =>
      IF run[p].has_main THEN exes[Stem(p)] = run[p].version
      ELSE /\ objects[Stem(p)] = 0
           /\ run[p].options.format = "shared" => shareds[Stem(p)] = run[p].version
           /\ run[p].options.format = "static" =>
                /\ temps[Stem(p)] = <<>>
                /\ Own(p) \in DOMAIN archives[Stem(p)]
                /\ archives[Stem(p)][Own(p)] = run[p].version

\* The archive a run has made is flat and complete: it holds every member that
\* the archives of its imports held when they were found, those that came from
\* their own imports and runtimes too, and the library's runtime.  Only an
\* extraction that failed, which the compiler does not notice, leaves one out.
ArchiveIsClosed ==
  \A p \in Procs :
    (Returned(p) /\ run[p].state = "Running" /\ ~run[p].has_main /\ ~run[p].lost
       /\ run[p].options.format = "static" /\ ~run[p].options.from_string) =>
      /\ run[p].given \subseteq DOMAIN archives[Stem(p)]
      /\ Stem(p) \in Runtimes => <<Stem(p), "runtime">> \in DOMAIN archives[Stem(p)]

\* --check, --mlir-ir, --str and a run under the JIT write no file.
Writes(p) ==
  ~run[p].options.check /\ ~run[p].options.mlir_ir /\ ~run[p].options.from_string
    /\ ~(run[p].options.jit /\ run[p].has_main)
QuietRunsWriteNothing ==
  [][\A p \in Procs : (run[p] # run'[p] /\ ~Writes(p) /\ ~In(p, "idle"))
        => UNCHANGED <<objects, shareds, archives, temps, exes>>]_vars
=============================================================================
