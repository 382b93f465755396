--------------------------- MODULE CompilerProofs ---------------------------
(***************************************************************************)
(* What a run of the compiler promises, for any number of runs at a time,  *)
(* any files, imports and options.                                         *)
(***************************************************************************)
EXTENDS Compiler, SequenceTheorems, TLAPS

(***************************************************************************)
(* What every run holds, at whatever stage it is                           *)
(***************************************************************************)

StageNames ==
  {"lex", "parse", "imports", "definitions", "semantics", "typecheck",
   "linear_check", "dump_ast", "codegen", "optimize", "jit_execute",
   "emit_obj", "emit_library", "link", "return"}

Inputs == Stems \X {".a", ".so", ".o", "none"}

RunType ==
  [stage : StageNames \cup {"idle"},
   emit : {"begin", "copy", "collect", "clean", "remove", "emitted"},
   state : {"Running", "Finished", "Error"}, stem : Stems, options : Options,
   version : Nat, artifacts : Seq(Inputs), todo : Seq(Inputs), has_main : BOOLEAN,
   module : {"template", "program", "moved"}, failed : BOOLEAN, ran : BOOLEAN,
   given : SUBSET Member, lost : BOOLEAN]

OfMembers(files) == \A s \in Stems : DOMAIN files[s] \subseteq Member

TypeInv ==
  /\ scenario \in Scenarios
  /\ source \in [Stems -> Nat]
  /\ exes \in [Stems -> Nat] /\ objects \in [Stems -> Nat] /\ shareds \in [Stems -> Nat]
  /\ DOMAIN archives = Stems /\ DOMAIN temps = Stems
  /\ OfMembers(archives) /\ OfMembers(temps)
  /\ run \in [Procs -> RunType]

\* The verdict and the module agree with the stage: only emit_library goes on
\* with an error queued, and only a run that has a program reaches the stages
\* after code generation.
Sound(r) ==
  /\ r.state # "Running" => r.stage = "return"
  /\ r.failed => (r.stage = "emit_library" /\ r.emit # "begin") \/ r.state = "Error"
  /\ r.ran => r.state = "Finished" /\ ~r.failed
  /\ r.stage \in {"optimize", "jit_execute", "emit_obj"} => r.module = "program"
  /\ r.stage \in {"optimize", "jit_execute", "emit_obj", "emit_library", "link"} =>
       ~r.options.check /\ ~r.options.mlir_ir
  /\ r.stage \in {"emit_obj", "emit_library", "link"} =>
       ~(r.options.jit /\ r.has_main)
  /\ r.emit # "begin" =>
       /\ ~r.has_main /\ ~r.options.from_string
       /\ r.stage \in {"emit_library", "link", "return"}

Inv == TypeInv /\ \A p \in Procs : Sound(run[p])

LEMMA StageOrder ==
  /\ NextStage("lex") = "parse" /\ NextStage("parse") = "imports"
  /\ NextStage("imports") = "definitions" /\ NextStage("definitions") = "semantics"
  /\ NextStage("semantics") = "typecheck" /\ NextStage("typecheck") = "linear_check"
  /\ NextStage("linear_check") = "dump_ast" /\ NextStage("dump_ast") = "codegen"
  /\ NextStage("codegen") = "optimize" /\ NextStage("optimize") = "jit_execute"
  /\ NextStage("jit_execute") = "emit_obj" /\ NextStage("emit_obj") = "emit_library"
  /\ NextStage("emit_library") = "link" /\ NextStage("link") = "return"
BY DEF NextStage, Stages

\* An idle run is sound.
LEMMA IdleRun ==
  ASSUME TypeInv
  PROVE  NoRun \in RunType /\ Sound(NoRun) /\ NoRun.stage = "idle"
<1>1. /\ (CHOOSE o \in scenario.options : TRUE) \in Options
      /\ (CHOOSE s \in Stems : TRUE) \in Stems
  BY CompilerAssumption DEF TypeInv
<1>2. <<>> \in Seq(Inputs)
  OBVIOUS
<1> QED BY <1>1, <1>2 DEF NoRun, Idle, RunType, Sound

\* A stage that ends with a sound run leaves one.
After(r) == [r EXCEPT !.stage = IF should_stop(r) THEN "return" ELSE NextStage(@)]

LEMMA StageEndsRun ==
  ASSUME NEW r \in RunType, r.stage \notin {"idle", "return"},
         r.failed => r.state = "Error",
         r.ran => r.state = "Finished" /\ ~r.failed,
         r.stage \in {"codegen", "optimize", "jit_execute"} /\ r.state = "Running" =>
           /\ r.module = "program"
           /\ ~r.options.check /\ ~r.options.mlir_ir,
         r.stage \in {"emit_obj", "emit_library", "link"} =>
           ~r.options.check /\ ~r.options.mlir_ir,
         r.stage \in {"jit_execute", "emit_obj", "emit_library", "link"} /\ r.state = "Running" =>
           ~(r.options.jit /\ r.has_main),
         r.emit # "begin" =>
           /\ ~r.has_main /\ ~r.options.from_string
           /\ r.stage \in {"emit_library", "link"}
  PROVE  /\ After(r) \in RunType /\ Sound(After(r))
         /\ After(r).stage \notin {"idle", r.stage}
<1>1. CASE r.state # "Running"
  <2>1. After(r) = [r EXCEPT !.stage = "return"]
    BY <1>1 DEF After, should_stop
  <2>2. After(r) \in RunType /\ After(r).stage = "return"
    BY <2>1 DEF RunType, StageNames
  <2>3. Sound(After(r))
    BY <1>1, <2>1, <2>2 DEF Sound, RunType
  <2> QED BY <2>2, <2>3
<1>2. CASE r.state = "Running"
  <2>1. r.stage \in StageNames \ {"return"}
    BY DEF RunType
  <2>2. NextStage(r.stage) \in StageNames \ {r.stage}
    BY <2>1, StageOrder DEF StageNames
  <2>3. After(r) = [r EXCEPT !.stage = NextStage(r.stage)]
    BY <1>2 DEF After, should_stop
  <2>4. After(r) \in RunType /\ After(r).stage = NextStage(r.stage)
    BY <2>2, <2>3 DEF RunType
  <2>5. NextStage(r.stage) \in {"optimize", "jit_execute", "emit_obj"} =>
          r.stage \in {"codegen", "optimize", "jit_execute"}
    BY <2>1, StageOrder DEF StageNames
  <2>6. NextStage(r.stage) \in {"emit_obj", "emit_library", "link"} =>
          r.stage \in {"jit_execute", "emit_obj", "emit_library"}
    BY <2>1, StageOrder DEF StageNames
  <2>7. r.stage \in {"emit_library", "link"} => NextStage(r.stage) \in {"link", "return"}
    BY StageOrder
  <2>8. Sound(After(r))
    BY <1>2, <2>2, <2>3, <2>4, <2>5, <2>6, <2>7 DEF Sound, RunType, StageNames
  <2> QED BY <2>2, <2>4, <2>8 DEF StageNames
<1> QED BY <1>1, <1>2

\* What a stage may have done to its run when it ends.
Ends(before, r) ==
  /\ r.stage = before.stage /\ r.stage \notin {"idle", "return"}
  /\ r.emit = before.emit /\ r.options = before.options
  /\ r.stem = before.stem /\ r.version = before.version
  /\ r.stage = "parse" \/ (r.has_main <=> before.has_main)
  /\ r.stage = "imports" \/ (r.artifacts = before.artifacts /\ r.given = before.given)
  /\ r.failed => r.state = "Error"
  /\ r.ran => r.state = "Finished" /\ ~r.failed
  /\ r.stage \in {"codegen", "optimize", "jit_execute"} /\ r.state = "Running" =>
       r.module = "program"
  /\ r.stage = "codegen" /\ r.state = "Running" => ~r.options.check /\ ~r.options.mlir_ir
  /\ r.stage = "jit_execute" /\ r.state = "Running" => ~(r.options.jit /\ r.has_main)

\* Where a step leads: it keeps what the run was started with, and what the
\* parser and the resolver found.
Onward(before, x) ==
  \/ before.stage = "return" /\ x = NoRun
  \/ /\ x.stem = before.stem /\ x.version = before.version /\ x.options = before.options
     /\ before.stage = "parse" \/ (x.has_main <=> before.has_main)
     /\ before.stage = "imports" \/ (x.artifacts = before.artifacts /\ x.given = before.given)
     /\ before.stage \notin {"idle", "return"}
     /\ \/ x.stage = "return" /\ x.state # "Running"
        \/ x.stage = NextStage(before.stage) /\ x.state = "Running"
        \/ x.stage = before.stage /\ before.stage = "emit_library"

LEMMA StageEndsSound ==
  ASSUME Inv, NEW p \in Procs, NEW r \in RunType, StageEnds(p, r), Ends(run[p], r)
  PROVE  \E x \in RunType : Sound(x) /\ Onward(run[p], x) /\ run' = [run EXCEPT ![p] = x]
<1>1. run' = [run EXCEPT ![p] = After(r)]
  BY DEF StageEnds, After
<1>2. run[p] \in RunType /\ Sound(run[p])
  BY DEF Inv, TypeInv
<1>3. After(r) \in RunType /\ Sound(After(r))
  BY <1>2, StageEndsRun DEF Sound, Ends
<1>4. /\ After(r).stage = IF r.state # "Running" THEN "return" ELSE NextStage(r.stage)
      /\ After(r).state = r.state /\ After(r).stem = r.stem /\ After(r).version = r.version
      /\ After(r).options = r.options /\ After(r).artifacts = r.artifacts
      /\ After(r).given = r.given
      /\ After(r).has_main <=> r.has_main
  BY DEF After, should_stop, RunType
<1>5. Onward(run[p], After(r))
  BY <1>4 DEF Onward, Ends
<1> QED BY <1>1, <1>3, <1>5

LEMMA LinkInputsType ==
  ASSUME NEW p \in Procs, run[p] \in RunType
  PROVE  LinkInputs(p) \in Seq(Inputs)
<1>1. run[p].artifacts \in Seq(Inputs) /\ Stem(p) \in Stems
  BY DEF RunType, Stem
<1>2. <<<<Stem(p), ".o">>>> \in Seq(Inputs) /\ <<>> \in Seq(Inputs)
  BY <1>1 DEF Inputs
<1> QED BY <1>1, <1>2, ConcatProperties DEF LinkInputs

\* The members that the archives f hold of the archives among some inputs.
Held(f, inputs) == UNION {DOMAIN f[a[1]] : a \in {b \in Range(inputs) : b[2] = ".a"}}

LEMMA HeldBy ==
  ASSUME NEW f, NEW inputs, NEW m
  PROVE  m \in Held(f, inputs) <=>
           \E a \in Range(inputs) : a[2] = ".a" /\ m \in DOMAIN f[a[1]]
BY DEF Held

LEMMA MembersType ==
  ASSUME NEW inputs \in Seq(Inputs), OfMembers(archives)
  PROVE  MembersIn(inputs) \subseteq Member
<1>1. \A a \in Range(inputs) : a[1] \in Stems
  BY DEF Range, Inputs
<1> QED BY <1>1 DEF MembersIn, OfMembers

\* What CopyDep leaves of its run.
LEMMA CopyDepRun ==
  ASSUME NEW p \in Procs, run \in [Procs -> RunType], CopyDep(p)
  PROVE  \E b \in BOOLEAN :
           run' = [run EXCEPT ![p] = [run[p] EXCEPT !.todo = Tail(run[p].todo), !.lost = b]]
<1> DEFINE dep == Head(run[p].todo)
<1>1. PICK members \in Brought(dep) :
        run' = [run EXCEPT ![p].todo = Tail(@),
                           ![p].lost = @ \/ (dep[2] = ".a" /\ members # archives[dep[1]])]
  BY DEF CopyDep
<1> DEFINE b == run[p].lost \/ (dep[2] = ".a" /\ members # archives[dep[1]])
<1>2. run' = [run EXCEPT ![p] = [run[p] EXCEPT !.todo = Tail(run[p].todo), !.lost = b]]
  BY <1>1
<1>3. b \in BOOLEAN
  OBVIOUS
<1> QED BY <1>2, <1>3

\* One step per action: the run that takes it stays sound.
LEMMA StepSound ==
  ASSUME Inv, NEW p \in Procs, Step(p)
  PROVE  \E x \in RunType : Sound(x) /\ Onward(run[p], x) /\ run' = [run EXCEPT ![p] = x]
<1> DEFINE Goal ==
      \E x \in RunType : Sound(x) /\ Onward(run[p], x) /\ run' = [run EXCEPT ![p] = x]
<1> DEFINE r == run[p]
<1> SUFFICES Goal
  OBVIOUS
<1>0. r \in RunType /\ Sound(r) /\ TypeInv
  BY DEF Inv, TypeInv
<1>e. SetError(r) \in RunType
  BY <1>0 DEF SetError, RunType
<1>s. ASSUME NEW x \in RunType, StageEnds(p, x), Ends(r, x)
      PROVE  Goal
  BY <1>s, StageEndsSound
<1> HIDE DEF Goal
<1>1. CASE Lex(p)
  <2>1. StageEnds(p, r) /\ Ends(r, r)
    BY <1>0, <1>1 DEF Lex, In, Sound, Ends
  <2> QED BY <1>0, <1>s, <2>1
<1>2. CASE Parse(p)
  <2> DEFINE s == [r EXCEPT !.has_main = Stem(p) \in Programs]
  <2>0. ASSUME NEW b \in BOOLEAN
        PROVE  [r EXCEPT !.has_main = b] \in RunType
    BY <1>0 DEF RunType
  <2>1. s \in RunType /\ SetError(s) \in RunType
    <3>1. (Stem(p) \in Programs) \in BOOLEAN
      OBVIOUS
    <3>2. s \in RunType
      BY <2>0, <3>1
    <3> QED BY <3>2 DEF RunType, SetError
  <2>2. Ends(r, s) /\ Ends(r, SetError(s))
    BY <1>0, <1>2 DEF Parse, In, Sound, Ends, RunType, SetError
  <2>3. StageEnds(p, s) \/ StageEnds(p, SetError(s))
    BY <1>2 DEF Parse
  <2> HIDE DEF s
  <2> QED BY <1>s, <2>1, <2>2, <2>3
<1>3. CASE ResolveImports(p)
  <2> DEFINE imports == Imports[Stem(p)]
             found == [i \in DOMAIN imports |-> Artifact(imports[i], r.options.format)]
             s == [r EXCEPT !.artifacts = found, !.given = MembersIn(found)]
  <2>1. imports \in Seq(Stems)
    BY <1>0, CompilerAssumption DEF Stem, RunType
  <2>2. \A i \in DOMAIN imports : imports[i] \in Stems
    BY <2>1
  <2>3. \A t \in Stems : \A f : Artifact(t, f) \in Inputs
    BY DEF Artifact, Inputs
  <2>4. found \in Seq(Inputs)
    BY <2>1, <2>2, <2>3
  <2>5. StageEnds(p, s) \/ StageEnds(p, SetError(s))
    BY <1>3 DEF ResolveImports
  <2> HIDE DEF found
  <2>6. s \in RunType /\ SetError(s) \in RunType
    <3>1. MembersIn(found) \subseteq Member
      BY <1>0, <2>4, MembersType DEF TypeInv
    <3>2. s \in RunType
      BY <1>0, <2>4, <3>1 DEF RunType
    <3> QED BY <3>2 DEF RunType, SetError
  <2>7. Ends(r, s) /\ Ends(r, SetError(s))
    <3>1. r.stage = "imports"
      BY <1>3 DEF ResolveImports, In
    <3>2. ASSUME NEW g
          PROVE  LET x == [r EXCEPT !.artifacts = found, !.given = g]
                 IN  Ends(r, x) /\ Ends(r, SetError(x))
      BY <1>0, <3>1 DEF Sound, Ends, RunType, SetError
    <3> QED BY <3>2
  <2> HIDE DEF s
  <2> QED BY <1>s, <2>5, <2>6, <2>7
<1>4. CASE Pass(p)
  <2>1. StageEnds(p, r) /\ Ends(r, r)
    BY <1>0, <1>4 DEF Pass, Sound, Ends
  <2> QED BY <1>0, <1>s, <2>1
<1>5. CASE CheckProgram(p)
  <2>1. Ends(r, r) /\ Ends(r, SetError(r))
    BY <1>0, <1>5 DEF CheckProgram, Sound, Ends, RunType, SetError
  <2> QED BY <1>0, <1>e, <1>s, <1>5, <2>1 DEF CheckProgram
<1>6. CASE Codegen(p)
  <2> DEFINE finished == [r EXCEPT !.state = "Finished"]
             generated == [r EXCEPT !.module = "program"]
  <2>1. finished \in RunType /\ generated \in RunType
    BY <1>0 DEF RunType
  <2>2. Ends(r, finished) /\ Ends(r, SetError(r))
    BY <1>0, <1>6 DEF Codegen, In, Sound, Ends, RunType, SetError
  <2>3. ~r.options.check /\ ~r.options.mlir_ir => Ends(r, generated)
    BY <1>0, <1>6 DEF Codegen, In, Sound, Ends, RunType
  <2>4. \/ StageEnds(p, finished) \/ StageEnds(p, SetError(r))
        \/ ~r.options.check /\ ~r.options.mlir_ir /\ StageEnds(p, generated)
    BY <1>6 DEF Codegen
  <2> HIDE DEF finished, generated
  <2> QED BY <1>e, <1>s, <2>1, <2>2, <2>3, <2>4
<1>7. CASE JitExecute(p)
  <2> DEFINE given == [r EXCEPT !.module = "moved"]
             done == [given EXCEPT !.state = "Finished", !.ran = TRUE]
  <2>1. SetError(given) \in RunType /\ done \in RunType
    BY <1>0 DEF RunType, SetError
  <2>2. Ends(r, SetError(given)) /\ Ends(r, done)
    BY <1>0, <1>7 DEF JitExecute, In, Sound, Ends, RunType, SetError
  <2>3. ~r.options.jit \/ ~r.has_main => Ends(r, r)
    BY <1>0, <1>7 DEF JitExecute, In, Sound, Ends
  <2>4. \/ (~r.options.jit \/ ~r.has_main) /\ StageEnds(p, r)
        \/ StageEnds(p, SetError(given)) \/ StageEnds(p, done)
    BY <1>7 DEF JitExecute
  <2> HIDE DEF given, done
  <2> QED BY <1>0, <1>s, <2>1, <2>2, <2>3, <2>4
<1>8. CASE EmitObject(p)
  <2>1. Ends(r, r) /\ Ends(r, SetError(r))
    BY <1>0, <1>8 DEF EmitObject, In, Sound, Ends, RunType, SetError
  <2>2. StageEnds(p, r) \/ StageEnds(p, SetError(r))
    BY <1>8 DEF EmitObject
  <2> QED BY <1>0, <1>e, <1>s, <2>1, <2>2
<1>9. CASE SkipLibrary(p)
  <2>1. StageEnds(p, r)
    BY <1>9 DEF SkipLibrary
  <2>2. r.failed => r.state = "Error"
    BY <1>0, <1>9 DEF SkipLibrary, Emitting, At, Sound
  <2>3. Ends(r, r)
    BY <1>0, <1>9, <2>2 DEF SkipLibrary, Emitting, At, Sound, Ends
  <2> QED BY <1>0, <1>s, <2>1, <2>3
<1>10. CASE EmitLibrary(p)
  <2>0. In(p, "emit_library") /\ ~r.has_main /\ ~r.options.from_string
    BY <1>10 DEF EmitLibrary
  <2> DEFINE at(e) == [r EXCEPT !.emit = e]
             queued(e) == [r EXCEPT !.emit = e, !.failed = TRUE]
  <2>1. ASSUME NEW e \in {"copy", "collect", "clean", "remove", "emitted"}
        PROVE  /\ at(e) \in RunType /\ Sound(at(e)) /\ Onward(r, at(e))
               /\ queued(e) \in RunType /\ Sound(queued(e)) /\ Onward(r, queued(e))
    BY <1>0, <2>0 DEF In, Sound, RunType, Onward
  <2>2. CASE CreateTemp(p)
    <3>1. LinkInputs(p) \in Seq(Inputs)
      BY <1>0, LinkInputsType
    <3>2. [r EXCEPT !.emit = "copy", !.todo = LinkInputs(p)] \in RunType
      BY <1>0, <3>1 DEF RunType
    <3>3. /\ Sound([r EXCEPT !.emit = "copy", !.todo = LinkInputs(p)])
          /\ Onward(r, [r EXCEPT !.emit = "copy", !.todo = LinkInputs(p)])
      BY <1>0, <2>0, <2>2 DEF CreateTemp, Emitting, At, Sound, RunType, In, Onward
    <3> QED BY <2>2, <3>2, <3>3 DEF CreateTemp, Goal
  <2>3. CASE CopyObject(p)
    BY <2>1, <2>3 DEF CopyObject, Goto, Goal
  <2>4. CASE CopyDep(p)
    <3>1. Tail(r.todo) \in Seq(Inputs)
      BY <1>0, <2>4 DEF CopyDep, RunType
    <3>2. ASSUME NEW b \in BOOLEAN
          PROVE  LET x == [r EXCEPT !.todo = Tail(r.todo), !.lost = b]
                 IN  x \in RunType /\ Sound(x) /\ Onward(r, x)
      <4> DEFINE x == [r EXCEPT !.todo = Tail(r.todo), !.lost = b]
      <4>1. x \in RunType
        BY <1>0, <3>1 DEF RunType
      <4> QED BY <1>0, <2>0, <4>1 DEF Sound, RunType, In, Onward
    <3>3. PICK b \in BOOLEAN : run' = [run EXCEPT ![p] = [r EXCEPT !.todo = Tail(r.todo), !.lost = b]]
      BY <1>0, <2>4, CopyDepRun DEF TypeInv
    <3> QED BY <3>2, <3>3 DEF Goal
  <2>5. CASE Archive(p)
    BY <2>1, <2>5 DEF Archive, Goto, Goal
  <2>6. CASE RemoveTemp(p)
    BY <2>1, <2>6 DEF RemoveTemp, Goto, Goal
  <2>7. CASE LinkShared(p)
    BY <2>1, <2>7 DEF LinkShared, Goto, Goal
  <2>8. CASE RemoveObject(p)
    BY <2>1, <2>8 DEF RemoveObject, Goto, Goal
  <2> QED
    BY <1>10, <2>2, <2>3, <2>4, <2>5, <2>6, <2>7, <2>8 DEF EmitLibrary, Emit
<1>11. CASE LibraryEmitted(p)
  <2>1. Ends(r, SetError(r))
    BY <1>0, <1>11 DEF LibraryEmitted, Emitting, At, Sound, Ends, RunType, SetError
  <2>2. ~r.failed => Ends(r, r)
    BY <1>0, <1>11 DEF LibraryEmitted, Emitting, At, Sound, Ends
  <2>3. StageEnds(p, SetError(r)) \/ (~r.failed /\ StageEnds(p, r))
    BY <1>11 DEF LibraryEmitted
  <2> QED BY <1>0, <1>e, <1>s, <2>1, <2>2, <2>3
<1>12. CASE Link(p)
  <2>1. Ends(r, r) /\ Ends(r, SetError(r))
    BY <1>0, <1>12 DEF Link, In, Sound, Ends, RunType, SetError
  <2>2. StageEnds(p, r) \/ StageEnds(p, SetError(r))
    BY <1>12 DEF Link
  <2> QED BY <1>0, <1>e, <1>s, <2>1, <2>2
<1>13. CASE Return(p)
  BY <1>0, <1>13, IdleRun DEF Return, Goal, In, Onward
<1> QED
  BY <1>1, <1>2, <1>3, <1>4, <1>5, <1>6, <1>7, <1>8, <1>9, <1>10, <1>11, <1>12, <1>13
     DEF Step

LEMMA SoundRuns ==
  ASSUME Inv, NEW p \in Procs, NEW x \in RunType, Sound(x), run' = [run EXCEPT ![p] = x]
  PROVE  run' \in [Procs -> RunType] /\ \A q \in Procs : Sound(run'[q])
BY DEF Inv, TypeInv

LEMMA BroughtMembers ==
  ASSUME NEW a \in Inputs, NEW f \in Brought(a),
         OfMembers(archives)
  PROVE  DOMAIN f \subseteq Member
<1>1. a[1] \in Stems
  BY DEF Inputs
<1>2. CASE a[2] = ".a"
  <2>1. PICK some \in SUBSET DOMAIN archives[a[1]] : f = Restrict(archives[a[1]], some)
    BY <1>2 DEF Brought
  <2> QED BY <1>1, <2>1 DEF Restrict, OfMembers
<1>3. CASE a[2] = ".o"
  BY <1>1, <1>3 DEF Brought, Single, Member
<1>4. CASE a[2] \notin {".a", ".o"}
  BY <1>4 DEF Brought
<1> QED BY <1>2, <1>3, <1>4

\* Files put over those of one directory or archive.
LEMMA OverMembers ==
  ASSUME NEW files, DOMAIN files = Stems, OfMembers(files), NEW s \in Stems,
         NEW g, DOMAIN g \subseteq Member
  PROVE  OfMembers([files EXCEPT ![s] = Over(@, g)])
<1>1. DOMAIN Over(files[s], g) \subseteq Member
  BY DEF Over, OfMembers
<1> HIDE DEF Over
<1> QED BY <1>1 DEF OfMembers

\* No action gives a file another kind of content.
LEMMA DiskTypes ==
  ASSUME Inv, [Next]_vars
  PROVE  /\ scenario' \in Scenarios /\ source' \in [Stems -> Nat]
         /\ exes' \in [Stems -> Nat] /\ objects' \in [Stems -> Nat]
         /\ shareds' \in [Stems -> Nat]
         /\ DOMAIN archives' = Stems /\ DOMAIN temps' = Stems
         /\ OfMembers(archives') /\ OfMembers(temps')
<1>0. TypeInv
  BY DEF Inv
<1>1. ASSUME NEW p \in Procs, Step(p) \/ Crash(p) \/ (\E s \in Stems, o \in scenario.options : Begin(p, s, o))
      PROVE  scenario' = scenario /\ source' = source
  BY <1>1 DEF Step, Crash, Begin, Private, Lex, Parse, ResolveImports, Pass, CheckProgram, Codegen,
       JitExecute, EmitObject, SkipLibrary, EmitLibrary, LibraryEmitted, Link, Return
<1>2. ASSUME NEW p \in Procs, Step(p)
      PROVE  exes' \in [Stems -> Nat]
  <2>1. CASE Link(p)
    BY <1>0, <2>1 DEF Link, TypeInv
  <2>2. CASE ~Link(p)
    BY <1>0, <1>2, <2>2 DEF TypeInv, Step, Private, Lex, Parse, ResolveImports, Pass, CheckProgram,
         Codegen, JitExecute, EmitObject, SkipLibrary, EmitLibrary, LibraryEmitted, Return
  <2> QED BY <2>1, <2>2
<1>3. ASSUME NEW p \in Procs, Emit(p)
      PROVE  /\ objects' \in [Stems -> Nat] /\ shareds' \in [Stems -> Nat]
             /\ DOMAIN archives' = Stems /\ DOMAIN temps' = Stems
             /\ OfMembers(archives') /\ OfMembers(temps')
  <2>0. run[p] \in RunType /\ Stem(p) \in Stems /\ Own(p) \in Member
    BY <1>0 DEF TypeInv, RunType, Stem, Own, Member
  <2>1. CASE CreateTemp(p) \/ RemoveTemp(p)
    <3>1. OfMembers([temps EXCEPT ![Stem(p)] = <<>>])
      BY <1>0 DEF TypeInv, OfMembers
    <3> QED BY <1>0, <2>1, <3>1 DEF TypeInv, CreateTemp, RemoveTemp, disk
  <2>2. CASE Archive(p)
    <3>1. DOMAIN temps[Stem(p)] \subseteq Member
      BY <1>0, <2>0 DEF TypeInv, OfMembers
    <3>2. OfMembers([archives EXCEPT ![Stem(p)] = Over(@, temps[Stem(p)])])
      BY <1>0, <2>0, <3>1, OverMembers DEF TypeInv
    <3> QED BY <1>0, <2>2, <3>2 DEF TypeInv, Archive
  <2>3. CASE LinkShared(p)
    BY <1>0, <2>3 DEF TypeInv, LinkShared
  <2>4. CASE RemoveObject(p)
    BY <1>0, <2>4 DEF TypeInv, RemoveObject
  <2>5. CASE CopyObject(p)
    <3>1. DOMAIN Single(Own(p), objects[Stem(p)]) \subseteq Member
      BY <2>0 DEF Single
    <3>2. OfMembers([temps EXCEPT ![Stem(p)] = Over(@, Single(Own(p), objects[Stem(p)]))])
      BY <1>0, <2>0, <3>1, OverMembers DEF TypeInv
    <3> QED BY <1>0, <2>5, <3>2 DEF TypeInv, CopyObject, CopyOver
  <2>6. CASE CopyDep(p)
    <3>1. /\ UNCHANGED <<objects, shareds, archives>>
          /\ \E members \in Brought(Head(run[p].todo)) :
               temps' = [temps EXCEPT ![Stem(p)] = Over(@, members)]
      BY <2>6 DEF CopyDep
    <3>2. Head(run[p].todo) \in Inputs
      BY <2>0, <2>6 DEF CopyDep, RunType
    <3>3. \A members \in Brought(Head(run[p].todo)) : DOMAIN members \subseteq Member
      BY <1>0, <3>2, BroughtMembers DEF TypeInv
    <3>4. PICK members \in Brought(Head(run[p].todo)) :
            temps' = [temps EXCEPT ![Stem(p)] = Over(@, members)]
      BY <3>1
    <3>5. OfMembers([temps EXCEPT ![Stem(p)] = Over(@, members)])
      BY <1>0, <2>0, <3>3, OverMembers DEF TypeInv
    <3> QED BY <1>0, <3>1, <3>4, <3>5 DEF TypeInv
  <2> QED BY <1>3, <2>1, <2>2, <2>3, <2>4, <2>5, <2>6 DEF Emit
<1>4. ASSUME NEW p \in Procs, EmitObject(p)
      PROVE  objects' \in [Stems -> Nat]
  <2>1. run[p].version \in Nat
    BY <1>0 DEF TypeInv, RunType
  <2> QED BY <1>0, <1>4, <2>1 DEF EmitObject, TypeInv
<1>5. ASSUME NEW p \in Procs, Step(p)
      PROVE  /\ objects' \in [Stems -> Nat] /\ shareds' \in [Stems -> Nat]
             /\ DOMAIN archives' = Stems /\ DOMAIN temps' = Stems
             /\ OfMembers(archives') /\ OfMembers(temps')
  <2>1. CASE EmitObject(p)
    BY <1>0, <1>4, <2>1 DEF EmitObject, TypeInv
  <2>2. CASE EmitLibrary(p)
    BY <1>3, <2>2 DEF EmitLibrary
  <2>3. CASE ~EmitObject(p) /\ ~EmitLibrary(p)
    BY <1>0, <1>5, <2>3 DEF TypeInv, Step, Private, Lex, Parse, ResolveImports, Pass, CheckProgram,
         Codegen, JitExecute, SkipLibrary, LibraryEmitted, Link, Return
  <2> QED BY <2>1, <2>2, <2>3
<1>6. ASSUME NEW s \in Stems, Edit(s)
      PROVE  source' \in [Stems -> Nat] /\ UNCHANGED <<objects, shareds, archives, temps, scenario, exes>>
  BY <1>0, <1>6 DEF Edit, TypeInv
<1>7. ASSUME NEW p \in Procs,
             Crash(p) \/ (\E s \in Stems, o \in scenario.options : Begin(p, s, o))
      PROVE  UNCHANGED <<objects, shareds, archives, temps, exes>>
  BY <1>7 DEF Crash, Begin, Private
<1>8. CASE \E p \in Procs : Step(p)
  <2> PICK p \in Procs : Step(p)
    BY <1>8
  <2> QED BY <1>0, <1>1, <1>2, <1>5 DEF TypeInv
<1>9. CASE \E p \in Procs : Crash(p) \/ (\E s \in Stems, o \in scenario.options : Begin(p, s, o))
  BY <1>0, <1>1, <1>7, <1>9 DEF TypeInv
<1>10. CASE \E s \in Stems : Edit(s)
  BY <1>0, <1>6, <1>10 DEF TypeInv
<1>11. CASE UNCHANGED vars
  BY <1>0, <1>11 DEF TypeInv, vars
<1> QED BY <1>8, <1>9, <1>10, <1>11 DEF Next

LEMMA InvInit == Init => Inv
<1> SUFFICES ASSUME Init PROVE Inv
  OBVIOUS
<1>1. /\ scenario \in Scenarios /\ source \in [Stems -> Nat]
      /\ exes \in [Stems -> Nat] /\ objects \in [Stems -> Nat] /\ shareds \in [Stems -> Nat]
      /\ DOMAIN archives = Stems /\ DOMAIN temps = Stems
      /\ OfMembers(archives) /\ OfMembers(temps)
  BY DEF Init, DiskInit, NoArchive, OfMembers
<1>2. /\ (CHOOSE o \in scenario.options : TRUE) \in Options
      /\ (CHOOSE s \in Stems : TRUE) \in Stems
      /\ <<>> \in Seq(Inputs)
  BY <1>1, CompilerAssumption
<1>3. NoRun \in RunType /\ Sound(NoRun)
  BY <1>2 DEF NoRun, Idle, RunType, Sound
<1> QED BY <1>1, <1>3 DEF Inv, TypeInv, Init

\* A run that begins is sound.
LEMMA BeginSound ==
  ASSUME Inv, NEW p \in Procs, NEW s \in Stems, NEW o \in scenario.options, Begin(p, s, o)
  PROVE  \E x \in RunType : Sound(x) /\ run' = [run EXCEPT ![p] = x]
<1> DEFINE x == [Idle(o, s) EXCEPT !.stage = "lex", !.version = source[s]]
<1>1. o \in Options /\ source[s] \in Nat /\ <<>> \in Seq(Inputs)
  BY CompilerAssumption DEF Inv, TypeInv
<1>2. x \in RunType /\ Sound(x)
  BY <1>1 DEF Idle, RunType, StageNames, Sound
<1> QED BY <1>2 DEF Begin

LEMMA InvStep == Inv /\ [Next]_vars => Inv'
<1> SUFFICES ASSUME Inv, [Next]_vars PROVE Inv'
  OBVIOUS
<1>1. run' \in [Procs -> RunType] /\ \A q \in Procs : Sound(run'[q])
  <2>1. CASE \E p \in Procs : Step(p)
    BY <2>1, StepSound, SoundRuns
  <2>2. CASE \E p \in Procs : Crash(p)
    BY <2>2, IdleRun, SoundRuns DEF Crash, Inv
  <2>3. CASE \E p \in Procs, s \in Stems, o \in scenario.options : Begin(p, s, o)
    BY <2>3, BeginSound, SoundRuns
  <2>4. CASE \E s \in Stems : Edit(s)
    BY <2>4 DEF Edit, Inv, TypeInv
  <2>5. CASE UNCHANGED vars
    BY <2>5 DEF vars, Inv, TypeInv
  <2> QED BY <2>1, <2>2, <2>3, <2>4, <2>5 DEF Next
<1> QED BY <1>1, DiskTypes DEF Inv, TypeInv

(***************************************************************************)
(* What a run of the compiler promises                                     *)
(***************************************************************************)

\* In every reachable state the disk and the runs are well typed and the
\* verdict, the module and the options of each run agree with the stage it is
\* at: the order of the stages in Compiler::start.
THEOREM Invariant == Spec => []Inv
BY InvInit, InvStep, PTL DEF Spec

\* Whatever stage reports an error, nothing is run after it and the compiler
\* does not return success: for any number of runs, with any options.
THEOREM ErrorsAreFinal == Spec => []ErrorsStop
<1>1. Inv => ErrorsStop
  BY DEF Inv, Sound, ErrorsStop, Returned, In, ExitCode
<1> QED BY <1>1, Invariant, PTL

\* No stage works on the empty module, or on one given to the JIT.
THEOREM StagesHaveTheProgram == Spec => []ModuleIsTheProgram
<1>1. Inv => ModuleIsTheProgram
  BY DEF Inv, Sound, ModuleIsTheProgram
<1> QED BY <1>1, Invariant, PTL

\* A run that was asked not to write leaves the disk as it is at each of its
\* steps.
THEOREM QuietRuns == Spec => QuietRunsWriteNothing
<1> DEFINE Quiet == \A p \in Procs : (run[p] # run'[p] /\ ~Writes(p) /\ ~In(p, "idle"))
                      => UNCHANGED <<objects, shareds, archives, temps, exes>>
<1>1. ASSUME Inv, [Next]_vars PROVE Quiet
  <2> SUFFICES ASSUME NEW p \in Procs, run[p] # run'[p], ~Writes(p), ~In(p, "idle")
               PROVE  UNCHANGED <<objects, shareds, archives, temps, exes>>
    OBVIOUS
  <2>0. run \in [Procs -> RunType] /\ Sound(run[p])
    BY <1>1 DEF Inv, TypeInv
  <2>1. ASSUME NEW q \in Procs, q # p, \E x : run' = [run EXCEPT ![q] = x]
        PROVE  FALSE
    BY <2>0, <2>1
  <2>2. CASE \E q \in Procs : Step(q)
    <3>1. Step(p)
      BY <1>1, <2>1, <2>2, StepSound
    <3>2. CASE EmitObject(p)
      BY <2>0, <3>2 DEF EmitObject, Sound, Writes, In
    <3>3. CASE EmitLibrary(p)
      BY <2>0, <3>3 DEF EmitLibrary, Sound, Writes, In
    <3>4. CASE Link(p)
      BY <2>0, <3>4 DEF Link, Sound, Writes, In
    <3>5. CASE ~EmitObject(p) /\ ~EmitLibrary(p) /\ ~Link(p)
      BY <3>1, <3>5 DEF Step, Private, Lex, Parse, ResolveImports, Pass, CheckProgram, Codegen,
           JitExecute, SkipLibrary, LibraryEmitted, Return
    <3> QED BY <3>2, <3>3, <3>4, <3>5
  <2>3. CASE \E q \in Procs : Crash(q)
    BY <2>3 DEF Crash, Private
  <2>4. CASE \E q \in Procs, s \in Stems, o \in scenario.options : Begin(q, s, o)
    BY <2>4 DEF Begin, Private
  <2>5. CASE \E s \in Stems : Edit(s)
    BY <2>5 DEF Edit
  <2>6. CASE UNCHANGED vars
    BY <2>6 DEF vars
  <2> QED BY <1>1, <2>2, <2>3, <2>4, <2>5, <2>6 DEF Next
<1>2. Inv /\ [Next]_vars => [Quiet]_vars
  BY <1>1
<1> HIDE DEF Quiet
<1>3. Spec => [][Quiet]_vars
  BY <1>2, Invariant, PTL DEF Spec
<1> QED BY <1>3 DEF QuietRunsWriteNothing, Quiet

(***************************************************************************)
(* A run that succeeds has delivered what it was asked for, made from the  *)
(* source it read: for runs each on a file of its own, that crash and      *)
(* repeat, and any imports without a cycle.                                *)
(***************************************************************************)

\* The imports have no cycle: a file ranks above the files it imports.
Layered(rank) ==
  /\ rank \in [Stems -> Nat]
  /\ \A s \in Stems : \A i \in DOMAIN Imports[s] : rank[Imports[s][i]] < rank[s]

Active(p) == run[p].stage # "idle"

\* No two runs are on one file.
Alone == \A p, q \in Procs : p # q /\ Active(p) /\ Active(q) => Stem(p) # Stem(q)

\* The members of an archive, and the files it is made from, come from its own
\* file or from files below it.
From(rank, s, members) ==
  members \subseteq Member /\ \A m \in members : m[1] = s \/ rank[m[1]] < rank[s]

Layers(rank) ==
  \A s \in Stems : From(rank, s, DOMAIN archives[s]) /\ From(rank, s, DOMAIN temps[s])

\* Every archive holds the object of its own file.
OwnThere == \A s \in Stems : archives[s] # NoArchive => <<s, "module">> \in DOMAIN archives[s]

\* The artifacts of a run are those of files below its own; what was found as
\* an archive is there, and still has the members it was found with.
Below(rank, a, s) ==
  /\ rank[a[1]] < rank[s]
  /\ a[2] = ".a" => archives[a[1]] # NoArchive
Found(rank, p) ==
  /\ \A a \in Range(run[p].artifacts) : Below(rank, a, Stem(p))
  /\ run[p].given \subseteq Held(archives, run[p].artifacts)

\* A runtime object is among the files of a directory or the members of an
\* archive.
Packed(a, members) == a[2] = ".o" => <<a[1], "runtime">> \in members

\* The library asked for is there, up to date and complete.
Made(p) ==
  /\ run[p].options.format = "shared" => shareds[Stem(p)] = run[p].version
  /\ run[p].options.format = "static" =>
       /\ Own(p) \in DOMAIN archives[Stem(p)]
       /\ archives[Stem(p)][Own(p)] = run[p].version
       /\ \A a \in Range(LinkInputs(p)) : Packed(a, DOMAIN archives[Stem(p)])
       /\ run[p].lost \/ run[p].given \subseteq DOMAIN archives[Stem(p)]

Clean(p) == run[p].options.format = "static" => temps[Stem(p)] = <<>>

\* How far a run that writes has come, stage by stage.  While it collects, what
\* it was given is in its directory or in an archive it has still to extract,
\* unless an extraction failed.
Compiled(p) ==
  (Emitting(p, "begin") \/ Emitting(p, "copy") \/ (In(p, "link") /\ run[p].has_main)) =>
    objects[Stem(p)] = run[p].version
Copying(p) ==
  Emitting(p, "copy") => run[p].options.format = "static" /\ run[p].todo = LinkInputs(p)
Collecting(p) ==
  Emitting(p, "collect") =>
    /\ run[p].options.format = "static"
    /\ Own(p) \in DOMAIN temps[Stem(p)]
    /\ temps[Stem(p)][Own(p)] = run[p].version
    /\ \A a \in Range(LinkInputs(p)) :
         a \in Range(run[p].todo) \/ Packed(a, DOMAIN temps[Stem(p)])
    /\ Range(run[p].todo) \subseteq Range(LinkInputs(p))
    /\ \/ run[p].lost
       \/ run[p].given \subseteq DOMAIN temps[Stem(p)] \cup Held(archives, run[p].todo)
Packing(p) ==
  /\ Emitting(p, "clean") => run[p].options.format = "static"
  /\ Emitting(p, "clean") \/ Emitting(p, "remove") \/ Emitting(p, "emitted") =>
       run[p].failed \/ Made(p)
  /\ Emitting(p, "remove") \/ Emitting(p, "emitted") => Clean(p)
  /\ Emitting(p, "emitted") => objects[Stem(p)] = 0
Packaged(p) ==
  In(p, "link") \/ (In(p, "return") /\ run[p].state = "Running") =>
    /\ ~run[p].has_main => Made(p) /\ Clean(p) /\ objects[Stem(p)] = 0
    /\ run[p].has_main /\ In(p, "return") => exes[Stem(p)] = run[p].version

Progress(p) ==
  ~run[p].options.from_string =>
    Compiled(p) /\ Copying(p) /\ Collecting(p) /\ Packing(p) /\ Packaged(p)

Delivery(rank) ==
  /\ Inv /\ Alone /\ Layers(rank) /\ OwnThere
  /\ \A p \in Procs : Active(p) => Found(rank, p) /\ Progress(p)

\* What a run leaves alone: the files of other stems; and an archive that is
\* there stays there, with its members.
Frame(s) ==
  /\ \A t \in Stems \ {s} :
       /\ objects'[t] = objects[t] /\ shareds'[t] = shareds[t]
       /\ archives'[t] = archives[t] /\ temps'[t] = temps[t] /\ exes'[t] = exes[t]
  /\ \A t \in Stems : archives[t] # NoArchive => archives'[t] # NoArchive
  /\ \A t \in Stems : DOMAIN archives[t] \subseteq DOMAIN archives'[t]

LEMMA OverProperties ==
  ASSUME NEW f, NEW g
  PROVE  /\ DOMAIN Over(f, g) = DOMAIN f \cup DOMAIN g
         /\ \A m \in DOMAIN g : Over(f, g)[m] = g[m]
         /\ \A m \in DOMAIN f \ DOMAIN g : Over(f, g)[m] = f[m]
BY DEF Over

\* Archives that grow hold what they held.
LEMMA HeldGrows ==
  ASSUME NEW f, NEW g, NEW inputs \in Seq(Inputs),
         \A t \in Stems : DOMAIN f[t] \subseteq DOMAIN g[t]
  PROVE  Held(f, inputs) \subseteq Held(g, inputs)
<1>1. \A a \in Range(inputs) : a[1] \in Stems
  BY DEF Range, Inputs
<1> QED BY <1>1, HeldBy

LEMMA EmptyArchive == DOMAIN NoArchive = {}
BY DEF NoArchive

LEMMA StepFrame ==
  ASSUME Inv, NEW p \in Procs, Step(p), Alone,
         Emitting(p, "collect") => Own(p) \in DOMAIN temps[Stem(p)]
  PROVE  Frame(Stem(p))
<1>0. TypeInv /\ Stem(p) \in Stems
  BY DEF Inv, TypeInv, RunType, Stem
<1>1. CASE EmitObject(p)
  BY <1>0, <1>1 DEF EmitObject, TypeInv, Frame, Stem
<1>2. CASE EmitLibrary(p)
  <2>1. CASE Archive(p)
    <3>1. \A t \in Stems \ {Stem(p)} : archives'[t] = archives[t]
      BY <1>0, <2>1 DEF Archive, TypeInv
    <3>2. Own(p) \in DOMAIN temps[Stem(p)]
      BY <2>1 DEF Archive
    <3>3. CASE archives' = [archives EXCEPT ![Stem(p)] = Over(@, temps[Stem(p)])]
      <4>1. archives'[Stem(p)] = Over(archives[Stem(p)], temps[Stem(p)])
        BY <1>0, <3>3 DEF TypeInv
      <4>2. Own(p) \in DOMAIN archives'[Stem(p)]
        BY <3>2, <4>1 DEF Over
      <4>3. archives'[Stem(p)] # NoArchive
        BY <4>2, EmptyArchive
      <4>4. DOMAIN archives[Stem(p)] \subseteq DOMAIN archives'[Stem(p)]
        BY <4>1 DEF Over
      <4> QED BY <1>2, <2>1, <3>1, <4>3, <4>4 DEF Archive, EmitLibrary, Frame
    <3>4. CASE UNCHANGED archives
      BY <1>2, <2>1, <3>4 DEF Archive, EmitLibrary, Frame
    <3> QED BY <2>1, <3>3, <3>4 DEF Archive
  <2>2. CASE CreateTemp(p) \/ CopyObject(p) \/ CopyDep(p) \/ RemoveTemp(p)
    BY <1>0, <1>2, <2>2 DEF CreateTemp, CopyObject, CopyDep, RemoveTemp, EmitLibrary, disk,
         TypeInv, Frame
  <2>3. CASE LinkShared(p) \/ RemoveObject(p)
    BY <1>0, <1>2, <2>3 DEF LinkShared, RemoveObject, EmitLibrary, TypeInv, Frame
  <2> QED BY <1>2, <2>1, <2>2, <2>3 DEF EmitLibrary, Emit
<1>3. CASE Link(p)
  BY <1>0, <1>3 DEF Link, TypeInv, Frame, Stem
<1>4. CASE ~EmitObject(p) /\ ~EmitLibrary(p) /\ ~Link(p)
  BY <1>4 DEF Step, Private, Lex, Parse, ResolveImports, Pass, CheckProgram, Codegen,
       JitExecute, SkipLibrary, LibraryEmitted, Return, Frame
<1> QED BY <1>1, <1>2, <1>3, <1>4

\* What the step of a run keeps of it, and that it is not idle.
LEMMA StepKeeps ==
  ASSUME Inv, NEW p \in Procs, Step(p), run[p].stage # "return"
  PROVE  /\ run'[p] \in RunType /\ Sound(run'[p]) /\ Onward(run[p], run'[p])
         /\ Stem(p)' = Stem(p) /\ Stem(p) \in Stems /\ Own(p)' = Own(p)
         /\ run'[p].version = run[p].version /\ run'[p].options = run[p].options
         /\ run[p].stage # "imports" =>
              LinkInputs(p)' = LinkInputs(p) /\ run'[p].given = run[p].given
         /\ Active(p) /\ run'[p].stage # "idle"
         /\ \A q \in Procs \ {p} : run'[q] = run[q]
<1>1. run[p] \in RunType /\ run \in [Procs -> RunType]
  BY DEF Inv, TypeInv
<1>2. PICK x \in RunType : Sound(x) /\ Onward(run[p], x) /\ run' = [run EXCEPT ![p] = x]
  BY StepSound
<1>3. run'[p] = x /\ \A q \in Procs \ {p} : run'[q] = run[q]
  BY <1>1, <1>2
<1>4. /\ x.stem = run[p].stem /\ x.version = run[p].version /\ x.options = run[p].options
      /\ run[p].stage = "imports" \/ (x.artifacts = run[p].artifacts /\ x.given = run[p].given)
      /\ run[p].stage # "idle"
  BY <1>2 DEF Onward
<1>5. x.stage # "idle"
  <2>1. run[p].stage \in StageNames \ {"return"} => NextStage(run[p].stage) # "idle"
    BY StageOrder DEF StageNames
  <2> QED BY <1>1, <1>2, <1>4, <2>1 DEF Onward, RunType
<1> QED BY <1>1, <1>2, <1>3, <1>4, <1>5 DEF Stem, Own, LinkInputs, Active, RunType

\* What a stage leaves of its run when it ends.
LEMMA EndedAt ==
  ASSUME Inv, NEW p \in Procs, NEW r \in RunType, StageEnds(p, r)
  PROVE  /\ run'[p].stage = IF r.state # "Running" THEN "return" ELSE NextStage(r.stage)
         /\ run'[p].state = r.state /\ run'[p].emit = r.emit /\ run'[p].failed = r.failed
         /\ run'[p].has_main <=> r.has_main
         /\ run'[p].lost <=> r.lost
<1>1. run'[p] = [r EXCEPT !.stage = IF should_stop(r) THEN "return" ELSE NextStage(@)]
  BY DEF StageEnds, Inv, TypeInv
<1> QED BY <1>1 DEF RunType, should_stop

LEMMA SetErrorType ==
  ASSUME NEW r \in RunType
  PROVE  /\ SetError(r) \in RunType /\ SetError(r).state = "Error"
         /\ SetError(r).stage = r.stage /\ SetError(r).emit = r.emit
         /\ SetError(r).has_main <=> r.has_main
BY DEF SetError, RunType

\* Until it has an object file a run promises nothing of the disk.
LEMMA EarlyStages ==
  ASSUME Inv, NEW p \in Procs, Step(p),
         run[p].stage \notin {"emit_obj", "emit_library", "link", "return"}
  PROVE  Progress(p)'
<1>1. Onward(run[p], run'[p]) /\ run[p] \in RunType /\ run[p].stage # "idle"
  BY StepKeeps DEF Inv, TypeInv, Active
<1>2. NextStage(run[p].stage) \notin {"emit_library", "link", "return"}
  BY <1>1, StageOrder DEF RunType, StageNames
<1>3. /\ run'[p].stage \notin {"emit_library", "link"}
      /\ run'[p].stage = "return" => run'[p].state # "Running"
  BY <1>1, <1>2 DEF Onward
<1> QED BY <1>3 DEF Progress, Compiled, Copying, Collecting, Packing, Packaged, Emitting, At, In

LEMMA EmitObjectKeeps ==
  ASSUME NEW rank, Delivery(rank), NEW p \in Procs, EmitObject(p)
  PROVE  Progress(p)'
<1>0. Inv /\ Step(p) /\ run[p].stage = "emit_obj" /\ run[p].emit = "begin" /\ TypeInv
      /\ run[p] \in RunType
  BY DEF Delivery, Step, EmitObject, In, Inv, Sound, TypeInv
<1>1. /\ run'[p].version = run[p].version /\ run'[p].options = run[p].options
      /\ Stem(p)' = Stem(p) /\ Stem(p) \in Stems
  BY <1>0, StepKeeps
<1>2. /\ run'[p].emit = "begin"
      /\ \/ run'[p].stage = "emit_library"
         \/ run'[p].stage = "return" /\ run'[p].state # "Running"
  <2>1. StageEnds(p, run[p]) \/ StageEnds(p, SetError(run[p]))
    BY DEF EmitObject
  <2>2. NextStage("emit_obj") = "emit_library"
    BY StageOrder
  <2>3. run[p].state = "Running"
    BY <1>0 DEF Inv, Sound
  <2>4. CASE StageEnds(p, run[p])
    <3>1. run'[p].stage = NextStage(run[p].stage) /\ run'[p].emit = run[p].emit
      BY <1>0, <2>3, <2>4, EndedAt
    <3> QED BY <1>0, <2>2, <3>1
  <2>5. CASE StageEnds(p, SetError(run[p]))
    BY <1>0, <2>5, EndedAt, SetErrorType
  <2> QED BY <2>1, <2>4, <2>5
<1>3. CASE run'[p].stage = "return"
  BY <1>2, <1>3 DEF Progress, Compiled, Copying, Collecting, Packing, Packaged, Emitting, At, In
<1>4. CASE run'[p].stage = "emit_library"
  <2>1. run[p].options.from_string \/ objects' = [objects EXCEPT ![run[p].stem] = run[p].version]
    <3>1. ~StageEnds(p, SetError(run[p]))
      BY <1>0, <1>4, EndedAt, SetErrorType
    <3> QED BY <3>1 DEF EmitObject
  <2>2. ~run[p].options.from_string => objects'[Stem(p)] = run[p].version
    BY <1>0, <1>1, <2>1 DEF TypeInv, Stem
  <2> QED
    BY <1>1, <1>2, <1>4, <2>2
       DEF Progress, Compiled, Copying, Collecting, Packing, Packaged, Emitting, At, In
<1> QED BY <1>2, <1>3, <1>4

\* The run after one step of Emit.
LEMMA EmitRun ==
  ASSUME NEW rank, Delivery(rank), NEW p \in Procs, EmitLibrary(p)
  PROVE  /\ Inv /\ Step(p) /\ TypeInv /\ Emit(p)
         /\ run[p] \in RunType /\ run[p].stage = "emit_library" /\ Stem(p) \in Stems
         /\ Stem(p)' = Stem(p) /\ Own(p)' = Own(p) /\ LinkInputs(p)' = LinkInputs(p)
         /\ run'[p].version = run[p].version /\ run'[p].options = run[p].options
         /\ run'[p].given = run[p].given /\ (CopyDep(p) \/ run'[p].lost = run[p].lost)
         /\ run'[p].stage = "emit_library"
         /\ ~run[p].options.from_string => Progress(p)
<1>1. /\ Inv /\ Step(p) /\ TypeInv /\ Emit(p) /\ run[p].stage = "emit_library"
      /\ run[p] \in RunType /\ run \in [Procs -> RunType]
  BY DEF Delivery, Step, EmitLibrary, In, Inv, TypeInv
<1>2. run'[p].stage = "emit_library"
  BY <1>1 DEF Emit, CreateTemp, CopyObject, CopyDep, Archive, RemoveTemp, LinkShared,
       RemoveObject, Goto, RunType
<1>3. Progress(p)
  BY <1>1 DEF Delivery, Active
<1>4. CopyDep(p) \/ run'[p].lost = run[p].lost
  BY <1>1 DEF Emit, CreateTemp, CopyObject, Archive, RemoveTemp, LinkShared, RemoveObject,
       Goto, RunType
<1> QED BY <1>1, <1>2, <1>3, <1>4, StepKeeps

LEMMA HeadAndTail ==
  ASSUME NEW S, NEW s \in Seq(S), s # <<>>
  PROVE  Range(s) = Range(Tail(s)) \cup {Head(s)}
<1>1. Len(s) \in Nat \ {0} /\ Tail(s) \in Seq(S) /\ Len(Tail(s)) = Len(s) - 1 /\ Head(s) = s[1]
  OBVIOUS
<1>2. \A i \in 1 .. Len(s) - 1 : Tail(s)[i] = s[i + 1]
  OBVIOUS
<1>3. ASSUME NEW x \in Range(s)
      PROVE  x = Head(s) \/ x \in Range(Tail(s))
  <2>1. PICK i \in 1 .. Len(s) : x = s[i]
    BY DEF Range
  <2>2. CASE i # 1
    <3>1. i - 1 \in 1 .. Len(Tail(s)) /\ (i - 1) + 1 = i
      BY <1>1, <2>2
    <3>2. x = Tail(s)[i - 1]
      BY <1>1, <1>2, <2>1, <3>1
    <3>3. i - 1 \in DOMAIN Tail(s)
      BY <1>1, <3>1
    <3> QED BY <3>2, <3>3 DEF Range
  <2> QED BY <1>1, <2>1, <2>2
<1>4. ASSUME NEW x \in Range(Tail(s))
      PROVE  x \in Range(s)
  <2>1. PICK i \in 1 .. Len(Tail(s)) : x = Tail(s)[i]
    BY <1>1 DEF Range
  <2>2. i + 1 \in 1 .. Len(s) /\ x = s[i + 1]
    BY <1>1, <1>2, <2>1
  <2> QED BY <2>2 DEF Range
<1>5. Head(s) \in Range(s)
  BY <1>1 DEF Range
<1> QED BY <1>3, <1>4, <1>5

LEMMA LinkInputsOf ==
  ASSUME Inv, NEW p \in Procs, NEW a \in Range(LinkInputs(p))
  PROVE  a \in Inputs /\ (a \in Range(run[p].artifacts) \/ a = <<Stem(p), ".o">>)
<1> DEFINE arts == run[p].artifacts
<1>1. arts \in Seq(Inputs) /\ LinkInputs(p) \in Seq(Inputs) /\ Stem(p) \in Stems
  BY LinkInputsType DEF Inv, TypeInv, RunType, Stem
<1>2. PICK i \in 1 .. Len(LinkInputs(p)) : a = LinkInputs(p)[i]
  BY <1>1 DEF Range
<1>3. a \in Inputs
  BY <1>1, <1>2
<1>4. CASE Stem(p) \notin Runtimes
  <2>1. LinkInputs(p) = arts
    BY <1>1, <1>4 DEF LinkInputs
  <2> QED BY <1>3, <2>1
<1>5. CASE Stem(p) \in Runtimes
  <2> DEFINE own == <<<<Stem(p), ".o">>>>
  <2>1. LinkInputs(p) = arts \o own /\ own \in Seq(Inputs) /\ Len(own) = 1
    BY <1>1, <1>5 DEF LinkInputs, Inputs
  <2>2. CASE i <= Len(arts)
    <3>1. i \in 1 .. Len(arts) /\ a = arts[i]
      BY <1>1, <1>2, <2>1, <2>2, ConcatProperties
    <3> QED BY <1>1, <1>3, <3>1 DEF Range
  <2>3. CASE ~(i <= Len(arts))
    <3>1. Len(LinkInputs(p)) = Len(arts) + 1 /\ Len(arts) \in Nat
      BY <1>1, <2>1, ConcatProperties
    <3>2. i = Len(arts) + 1
      BY <1>2, <2>3, <3>1
    <3>3. a = own[1]
      BY <1>1, <1>2, <2>1, <3>1, <3>2, ConcatProperties
    <3> QED BY <1>3, <3>3
  <2> QED BY <1>1, <2>2, <2>3
<1> QED BY <1>4, <1>5

\* The artifacts of a run and its runtime object are among its inputs.
LEMMA LinkInputsHold ==
  ASSUME Inv, NEW p \in Procs
  PROVE  /\ Range(run[p].artifacts) \subseteq Range(LinkInputs(p))
         /\ Stem(p) \in Runtimes => <<Stem(p), ".o">> \in Range(LinkInputs(p))
<1> DEFINE arts == run[p].artifacts
           own == <<<<Stem(p), ".o">>>>
<1>1. /\ arts \in Seq(Inputs) /\ Stem(p) \in Stems /\ own \in Seq(Inputs) /\ Len(own) = 1
      /\ own[1] = <<Stem(p), ".o">> /\ Len(arts) \in Nat
  BY DEF Inv, TypeInv, RunType, Stem, Inputs
<1>2. CASE Stem(p) \notin Runtimes
  <2>1. LinkInputs(p) = arts
    BY <1>1, <1>2 DEF LinkInputs
  <2> QED BY <1>2, <2>1
<1>3. CASE Stem(p) \in Runtimes
  <2>1. LinkInputs(p) = arts \o own
    BY <1>3 DEF LinkInputs
  <2>2. /\ LinkInputs(p) \in Seq(Inputs) /\ Len(LinkInputs(p)) = Len(arts) + 1
        /\ \A i \in 1 .. Len(arts) + 1 :
             LinkInputs(p)[i] = IF i <= Len(arts) THEN arts[i] ELSE own[i - Len(arts)]
    BY <1>1, <2>1, ConcatProperties
  <2>3. DOMAIN LinkInputs(p) = 1 .. Len(arts) + 1 /\ DOMAIN arts = 1 .. Len(arts)
    BY <1>1, <2>2
  <2>4. ASSUME NEW i \in DOMAIN arts
        PROVE  arts[i] \in Range(LinkInputs(p))
    <3>1. i \in DOMAIN LinkInputs(p) /\ LinkInputs(p)[i] = arts[i]
      BY <1>1, <2>2, <2>3
    <3> QED BY <3>1 DEF Range
  <2>5. LinkInputs(p)[Len(arts) + 1] = own[1] /\ Len(arts) + 1 \in DOMAIN LinkInputs(p)
    BY <1>1, <2>2, <2>3
  <2> QED BY <1>1, <2>4, <2>5 DEF Range
<1> QED BY <1>2, <1>3

\* What an input of a run brings into its directory.
LEMMA BroughtOf ==
  ASSUME NEW rank, Layered(rank), Delivery(rank), NEW p \in Procs, Active(p),
         NEW a \in Range(LinkInputs(p)), NEW f \in Brought(a)
  PROVE  /\ Own(p) \notin DOMAIN f
         /\ Packed(a, DOMAIN f)
         /\ From(rank, Stem(p), DOMAIN f)
<1>0. Inv /\ Stem(p) \in Stems /\ Found(rank, p) /\ Layers(rank)
  BY DEF Delivery, Inv, TypeInv, RunType, Stem
<1>1. a \in Inputs /\ (a \in Range(run[p].artifacts) \/ a = <<Stem(p), ".o">>)
  BY <1>0, LinkInputsOf
<1>2. a[1] \in Stems /\ rank \in [Stems -> Nat]
  BY <1>1 DEF Inputs, Layered
<1>3. CASE a[2] = ".a"
  <2>1. rank[a[1]] < rank[Stem(p)]
    BY <1>0, <1>1, <1>3 DEF Found, Below
  <2>2. DOMAIN f \subseteq DOMAIN archives[a[1]]
    BY <1>3 DEF Brought, Restrict
  <2>3. From(rank, a[1], DOMAIN archives[a[1]])
    BY <1>0, <1>2 DEF Layers
  <2>4. \A m \in DOMAIN f :
          m \in Member /\ m[1] \in Stems /\ (m[1] = a[1] \/ rank[m[1]] < rank[a[1]])
    BY <2>2, <2>3 DEF From, Member
  <2>5. \A m \in DOMAIN f : m[1] # Stem(p) /\ rank[m[1]] < rank[Stem(p)]
    BY <1>0, <1>2, <2>1, <2>4
  <2>6. Own(p)[1] = Stem(p)
    BY DEF Own
  <2> QED BY <1>3, <2>4, <2>5, <2>6 DEF Packed, From
<1>4. CASE a[2] = ".o"
  <2>1. DOMAIN f = {<<a[1], "runtime">>}
    BY <1>4 DEF Brought, Single
  <2>2. a[1] = Stem(p) \/ rank[a[1]] < rank[Stem(p)]
    BY <1>0, <1>1 DEF Found, Below
  <2> QED BY <1>2, <1>4, <2>1, <2>2 DEF Packed, From, Own, Member
<1>5. CASE a[2] # ".a" /\ a[2] # ".o"
  <2>1. DOMAIN f = {}
    BY <1>5 DEF Brought
  <2> QED BY <1>5, <2>1 DEF Packed, From
<1> QED BY <1>3, <1>4, <1>5

\* The steps of Emit, one by one.
LEMMA EmitKeeps ==
  ASSUME NEW rank, Layered(rank), Delivery(rank), NEW p \in Procs, EmitLibrary(p)
  PROVE  Progress(p)'
<1>0. /\ TypeInv /\ Emit(p)
      /\ run[p] \in RunType /\ run \in [Procs -> RunType]
      /\ run[p].stage = "emit_library" /\ Stem(p) \in Stems
      /\ Stem(p)' = Stem(p) /\ Own(p)' = Own(p) /\ LinkInputs(p)' = LinkInputs(p)
      /\ run'[p].version = run[p].version /\ run'[p].options = run[p].options
      /\ run'[p].given = run[p].given /\ (CopyDep(p) \/ run'[p].lost = run[p].lost)
      /\ run'[p].stage = "emit_library"
  BY EmitRun DEF TypeInv
<1> SUFFICES ASSUME ~run[p].options.from_string
             PROVE  Compiled(p)' /\ Copying(p)' /\ Collecting(p)' /\ Packing(p)' /\ Packaged(p)'
  BY <1>0 DEF Progress
<1>p. Compiled(p) /\ Copying(p) /\ Collecting(p) /\ Packing(p)
  BY EmitRun DEF Progress
<1>q. Packaged(p)'
  BY <1>0 DEF Packaged, In
<1>1. CASE CreateTemp(p)
  <2>1. run'[p].emit = "copy" /\ run'[p].todo = LinkInputs(p)
    BY <1>0, <1>1 DEF CreateTemp, RunType
  <2>2. run[p].options.format = "static" /\ run[p].emit = "begin" /\ objects' = objects
    BY <1>1 DEF CreateTemp, Emitting, At, disk
  <2>3. Compiled(p)'
    BY <1>0, <1>p, <2>1, <2>2 DEF Compiled, Emitting, At, In
  <2> QED
    BY <1>0, <1>q, <2>1, <2>2, <2>3 DEF Copying, Collecting, Packing, Emitting, At
<1>2. CASE CopyObject(p)
  <2>1. run'[p].emit = "collect" /\ run'[p].todo = run[p].todo
    BY <1>0, <1>2 DEF CopyObject, Goto, RunType
  <2>2. /\ run[p].emit = "copy" /\ objects[Stem(p)] = run[p].version
        /\ run[p].options.format = "static" /\ run[p].todo = LinkInputs(p)
    BY <1>0, <1>2, <1>p DEF CopyObject, Emitting, At, Compiled, Copying
  <2>3. temps'[Stem(p)] = Over(temps[Stem(p)], Single(Own(p), objects[Stem(p)]))
    BY <1>0, <1>2 DEF CopyObject, CopyOver, TypeInv
  <2>4. Own(p) \in DOMAIN temps'[Stem(p)] /\ temps'[Stem(p)][Own(p)] = run[p].version
    BY <2>2, <2>3 DEF Over, Single
  <2>5. run[p].given \subseteq Held(archives, run[p].todo) /\ archives' = archives
    <3>1. Inv /\ run[p].given \subseteq Held(archives, run[p].artifacts)
      BY <1>0 DEF Delivery, Found, Active
    <3>2. Range(run[p].artifacts) \subseteq Range(run[p].todo)
      BY <2>2, <3>1, LinkInputsHold
    <3> QED BY <1>2, <3>1, <3>2, HeldBy DEF CopyObject
  <2>6. Collecting(p)'
    BY <1>0, <2>1, <2>2, <2>4, <2>5 DEF Collecting
  <2> QED
    BY <1>0, <1>q, <2>1, <2>6 DEF Compiled, Copying, Packing, Emitting, At, In
<1>3. CASE CopyDep(p)
  <2> DEFINE a == Head(run[p].todo)
  <2>0. PICK f \in Brought(a) :
          /\ temps' = [temps EXCEPT ![Stem(p)] = Over(@, f)]
          /\ run' = [run EXCEPT ![p].todo = Tail(@),
                                ![p].lost = @ \/ (a[2] = ".a" /\ f # archives[a[1]])]
    BY <1>3 DEF CopyDep
  <2>1. /\ run[p].emit = "collect" /\ run[p].todo # <<>> /\ run[p].todo \in Seq(Inputs)
        /\ run'[p].emit = "collect" /\ run'[p].todo = Tail(run[p].todo)
        /\ temps'[Stem(p)] = Over(temps[Stem(p)], f) /\ archives' = archives
    BY <1>0, <1>3, <2>0 DEF CopyDep, Emitting, At, RunType, TypeInv
  <2>2. Range(run[p].todo) = Range(Tail(run[p].todo)) \cup {a}
    BY <2>1, HeadAndTail
  <2>3. /\ run[p].options.format = "static"
        /\ Own(p) \in DOMAIN temps[Stem(p)] /\ temps[Stem(p)][Own(p)] = run[p].version
        /\ Range(run[p].todo) \subseteq Range(LinkInputs(p))
        /\ \A b \in Range(LinkInputs(p)) :
             b \in Range(run[p].todo) \/ Packed(b, DOMAIN temps[Stem(p)])
        /\ \/ run[p].lost
           \/ run[p].given \subseteq DOMAIN temps[Stem(p)] \cup Held(archives, run[p].todo)
    BY <1>0, <1>p, <2>1 DEF Collecting, Emitting, At
  <2>4. Own(p) \notin DOMAIN f /\ Packed(a, DOMAIN f)
    BY <1>0, <2>2, <2>3, BroughtOf DEF Active
  <2>5. /\ Own(p) \in DOMAIN temps'[Stem(p)] /\ temps'[Stem(p)][Own(p)] = run[p].version
    BY <2>1, <2>3, <2>4 DEF Over
  <2>6. DOMAIN temps'[Stem(p)] = DOMAIN temps[Stem(p)] \cup DOMAIN f
    BY <2>1 DEF Over
  <2>7. ASSUME NEW b \in Range(LinkInputs(p)), b \notin Range(Tail(run[p].todo))
        PROVE  Packed(b, DOMAIN temps'[Stem(p)])
    <3>1. b = a \/ Packed(b, DOMAIN temps[Stem(p)])
      BY <2>2, <2>3, <2>7
    <3> QED BY <2>4, <2>6, <3>1 DEF Packed
  <2>8. ASSUME ~run'[p].lost
        PROVE  run[p].given \subseteq DOMAIN temps'[Stem(p)] \cup Held(archives, Tail(run[p].todo))
    <3>1. ~run[p].lost /\ (a[2] = ".a" => f = archives[a[1]])
      BY <1>0, <2>0, <2>8 DEF RunType
    <3>2. ASSUME NEW m \in Held(archives, run[p].todo)
          PROVE  m \in DOMAIN f \cup Held(archives, Tail(run[p].todo))
      <4>1. PICK b \in Range(run[p].todo) : b[2] = ".a" /\ m \in DOMAIN archives[b[1]]
        BY <3>2, HeldBy
      <4>2. CASE b = a
        BY <3>1, <4>1, <4>2
      <4>3. CASE b \in Range(Tail(run[p].todo))
        BY <4>1, <4>3, HeldBy
      <4> QED BY <2>2, <4>1, <4>2, <4>3
    <3> QED BY <2>3, <2>6, <3>1, <3>2
  <2>9. Collecting(p)'
    BY <1>0, <2>1, <2>2, <2>3, <2>5, <2>7, <2>8 DEF Collecting
  <2> QED
    BY <1>0, <1>q, <2>1, <2>9 DEF Compiled, Copying, Packing, Emitting, At, In
<1>4. CASE Archive(p)
  <2>1. /\ run[p].emit = "collect" /\ run[p].todo = <<>> /\ run'[p].emit = "clean"
        /\ run[p].options.format = "static"
    BY <1>0, <1>4, <1>p DEF Archive, Emitting, At, Goto, RunType, Collecting
  <2>2. CASE archives' = [archives EXCEPT ![Stem(p)] = Over(@, temps[Stem(p)])]
    <3>1. archives'[Stem(p)] = Over(archives[Stem(p)], temps[Stem(p)])
      BY <1>0, <2>2 DEF TypeInv
    <3>2. /\ Own(p) \in DOMAIN temps[Stem(p)] /\ temps[Stem(p)][Own(p)] = run[p].version
          /\ \A a \in Range(LinkInputs(p)) :
               a \in Range(run[p].todo) \/ Packed(a, DOMAIN temps[Stem(p)])
          /\ \/ run[p].lost
             \/ run[p].given \subseteq DOMAIN temps[Stem(p)] \cup Held(archives, run[p].todo)
      BY <1>0, <1>p, <2>1 DEF Collecting, Emitting, At
    <3>3. Range(run[p].todo) = {}
      BY <2>1 DEF Range
    <3>4. /\ Own(p) \in DOMAIN archives'[Stem(p)]
          /\ archives'[Stem(p)][Own(p)] = run[p].version
      BY <3>1, <3>2 DEF Over
    <3>5. DOMAIN temps[Stem(p)] \subseteq DOMAIN archives'[Stem(p)]
      BY <3>1 DEF Over
    <3>6. \A a \in Range(LinkInputs(p)) : Packed(a, DOMAIN archives'[Stem(p)])
      BY <3>2, <3>3, <3>5 DEF Packed
    <3>7. run[p].lost \/ run[p].given \subseteq DOMAIN archives'[Stem(p)]
      BY <3>2, <3>3, <3>5, HeldBy
    <3>8. run'[p].lost = run[p].lost
      BY <1>0, <1>4, <2>1 DEF Archive, Goto, RunType
    <3>9. Made(p)'
      BY <1>0, <2>1, <3>4, <3>6, <3>7, <3>8 DEF Made
    <3> QED
      BY <1>0, <1>q, <2>1, <3>9 DEF Compiled, Copying, Collecting, Packing, Emitting, At, In
  <2>3. CASE run' = [run EXCEPT ![p].emit = "clean", ![p].failed = TRUE]
    <3>1. run'[p].failed
      BY <1>0, <2>3 DEF RunType
    <3> QED
      BY <1>0, <1>q, <2>1, <3>1 DEF Compiled, Copying, Collecting, Packing, Emitting, At, In
  <2> QED BY <1>4, <2>2, <2>3 DEF Archive
<1>5. CASE RemoveTemp(p)
  <2>1. /\ run[p].emit = "clean" /\ run'[p].emit = "remove" /\ run'[p].failed = run[p].failed
        /\ run'[p].lost = run[p].lost
        /\ archives' = archives /\ shareds' = shareds
        /\ temps' = [temps EXCEPT ![Stem(p)] = <<>>]
    BY <1>0, <1>5 DEF RemoveTemp, Emitting, At, Goto, RunType
  <2>2. run[p].failed \/ Made(p)
    BY <1>0, <1>p, <2>1 DEF Packing, Emitting, At
  <2>3. Made(p) => Made(p)'
    BY <1>0, <2>1 DEF Made
  <2>4. Clean(p)'
    BY <1>0, <2>1 DEF Clean, TypeInv
  <2> QED
    BY <1>0, <1>q, <2>1, <2>2, <2>3, <2>4
       DEF Compiled, Copying, Collecting, Packing, Emitting, At, In
<1>6. CASE LinkShared(p)
  <2>1. /\ run[p].emit = "begin" /\ run'[p].emit = "remove" /\ run[p].options.format = "shared"
        /\ objects[Stem(p)] = run[p].version
    BY <1>0, <1>6, <1>p DEF LinkShared, Emitting, At, Goto, RunType, Compiled
  <2>2. run'[p].failed \/ shareds'[Stem(p)] = run[p].version
    BY <1>0, <1>6, <2>1 DEF LinkShared, TypeInv, RunType
  <2>3. Clean(p)' /\ (run'[p].failed \/ Made(p)')
    BY <1>0, <2>1, <2>2 DEF Clean, Made
  <2> QED
    BY <1>0, <1>q, <2>1, <2>3 DEF Compiled, Copying, Collecting, Packing, Emitting, At, In
<1>7. CASE RemoveObject(p)
  <2>1. /\ run[p].emit = "remove" /\ run'[p].emit = "emitted" /\ run'[p].failed = run[p].failed
        /\ run'[p].lost = run[p].lost
        /\ archives' = archives /\ shareds' = shareds /\ temps' = temps
        /\ objects' = [objects EXCEPT ![Stem(p)] = 0]
    BY <1>0, <1>7 DEF RemoveObject, Emitting, At, Goto, RunType
  <2>2. (run[p].failed \/ Made(p)) /\ Clean(p)
    BY <1>0, <1>p, <2>1 DEF Packing, Emitting, At
  <2>3. (Made(p) => Made(p)') /\ (Clean(p) => Clean(p)')
    BY <1>0, <2>1 DEF Made, Clean
  <2>4. objects'[Stem(p)] = 0
    BY <1>0, <2>1 DEF TypeInv
  <2> QED
    BY <1>0, <1>q, <2>1, <2>2, <2>3, <2>4
       DEF Compiled, Copying, Collecting, Packing, Emitting, At, In
<1> QED BY <1>0, <1>1, <1>2, <1>3, <1>4, <1>5, <1>6, <1>7 DEF Emit

\* The library stage's end, the stage that it skips and the linker.
LEMMA LateStages ==
  ASSUME NEW rank, Delivery(rank), NEW p \in Procs, SkipLibrary(p) \/ LibraryEmitted(p) \/ Link(p)
  PROVE  Progress(p)'
<1>0. /\ Inv /\ Step(p) /\ TypeInv /\ run[p] \in RunType
      /\ run[p].stage \in {"emit_library", "link"} /\ run[p].state = "Running"
  BY DEF Delivery, Step, SkipLibrary, LibraryEmitted, Link, Emitting, At, In, Inv, Sound, TypeInv
<1>1. /\ Stem(p)' = Stem(p) /\ Stem(p) \in Stems /\ Own(p)' = Own(p)
      /\ LinkInputs(p)' = LinkInputs(p)
      /\ run'[p].version = run[p].version /\ run'[p].options = run[p].options
      /\ run'[p].given = run[p].given /\ Active(p)
  BY <1>0, StepKeeps
<1> SUFFICES ASSUME ~run[p].options.from_string
             PROVE  Compiled(p)' /\ Copying(p)' /\ Collecting(p)' /\ Packing(p)' /\ Packaged(p)'
  BY <1>1 DEF Progress
<1>2. Compiled(p) /\ Packing(p) /\ Packaged(p)
  BY <1>1 DEF Delivery, Progress
<1>3. \/ StageEnds(p, run[p]) /\ (LibraryEmitted(p) => ~run[p].failed)
      \/ StageEnds(p, SetError(run[p]))
  BY DEF SkipLibrary, LibraryEmitted, Link
<1>4. CASE StageEnds(p, SetError(run[p]))
  <2>1. run'[p].stage = "return" /\ run'[p].state # "Running"
    BY <1>0, <1>4, EndedAt, SetErrorType
  <2> QED BY <2>1 DEF Compiled, Copying, Collecting, Packing, Packaged, Emitting, At, In
<1>5. CASE StageEnds(p, run[p]) /\ (LibraryEmitted(p) => ~run[p].failed)
  <2>1. /\ run'[p].stage = NextStage(run[p].stage) /\ run'[p].state = run[p].state
        /\ run'[p].has_main <=> run[p].has_main
        /\ run'[p].lost <=> run[p].lost
    BY <1>0, <1>5, EndedAt
  <2>2. NextStage("emit_library") = "link" /\ NextStage("link") = "return"
    BY StageOrder
  <2>3. /\ archives' = archives /\ shareds' = shareds /\ temps' = temps /\ objects' = objects
    BY DEF SkipLibrary, LibraryEmitted, Link, Private
  <2>4. (Made(p) => Made(p)') /\ (Clean(p) => Clean(p)')
    BY <1>1, <2>1, <2>3 DEF Made, Clean
  <2>5. CASE SkipLibrary(p)
    <3>1. run[p].has_main /\ run'[p].stage = "link" /\ objects[Stem(p)] = run[p].version
      BY <1>0, <1>2, <2>1, <2>2, <2>5 DEF SkipLibrary, Emitting, At, Compiled
    <3> QED
      BY <1>1, <2>1, <2>3, <3>1
         DEF Compiled, Copying, Collecting, Packing, Packaged, Emitting, At, In
  <2>6. CASE LibraryEmitted(p)
    <3>1. run'[p].stage = "link" /\ run[p].emit = "emitted" /\ ~run[p].has_main
      BY <1>0, <2>1, <2>2, <2>6 DEF LibraryEmitted, Emitting, At, Inv, Sound
    <3>2. Made(p) /\ Clean(p) /\ objects[Stem(p)] = 0
      BY <1>0, <1>2, <1>5, <2>6, <3>1 DEF Packing, LibraryEmitted
    <3> QED
      BY <1>1, <2>1, <2>3, <2>4, <3>1, <3>2
         DEF Compiled, Copying, Collecting, Packing, Packaged, Emitting, At, In
  <2>7. CASE Link(p)
    <3>1. run[p].stage = "link" /\ run'[p].stage = "return"
      BY <2>1, <2>2, <2>7 DEF Link, In
    <3>2. ~run[p].has_main => Made(p) /\ Clean(p) /\ objects[Stem(p)] = 0
      BY <1>2, <3>1 DEF Packaged, In
    <3>3. run[p].has_main => objects[Stem(p)] = run[p].version
      BY <1>2, <3>1 DEF Compiled, In
    <3>4. run[p].has_main => exes' = [exes EXCEPT ![run[p].stem] = objects[run[p].stem]]
      <4>1. ~StageEnds(p, SetError(run[p]))
        BY <1>0, <2>1, EndedAt, SetErrorType
      <4> QED BY <2>7, <4>1 DEF Link
    <3>5. run[p].has_main => exes'[Stem(p)] = run[p].version
      BY <1>0, <1>1, <3>3, <3>4 DEF TypeInv, Stem
    <3> QED
      BY <1>1, <2>1, <2>3, <2>4, <3>1, <3>2, <3>5
         DEF Compiled, Copying, Collecting, Packing, Packaged, Emitting, At, In
  <2> QED BY <2>5, <2>6, <2>7
<1> QED BY <1>3, <1>4, <1>5

\* What the archives and the directories hold.
LEMMA DiskKeeps ==
  ASSUME NEW rank, Layered(rank), Delivery(rank), NEW p \in Procs, Step(p)
  PROVE  Layers(rank)' /\ OwnThere'
<1>0. Inv /\ TypeInv /\ Layers(rank) /\ OwnThere
  BY DEF Delivery, Inv
<1>1. CASE ~EmitLibrary(p)
  <2>1. archives' = archives /\ temps' = temps
    BY <1>1 DEF Step, Private, Lex, Parse, ResolveImports, Pass, CheckProgram, Codegen,
         JitExecute, EmitObject, SkipLibrary, LibraryEmitted, Link, Return
  <2> QED BY <1>0, <2>1 DEF Layers, OwnThere
<1>2. CASE EmitLibrary(p)
  <2>0. /\ Emit(p) /\ run[p] \in RunType /\ Stem(p) \in Stems /\ Active(p)
        /\ run[p].stage = "emit_library" /\ ~run[p].options.from_string /\ Progress(p)
        /\ Own(p) \in Member /\ Own(p)[1] = Stem(p)
    BY <1>0, <1>2 DEF EmitLibrary, TypeInv, RunType, Stem, Active, In, Delivery, Own, Member
  <2>1. CASE CreateTemp(p) \/ LinkShared(p) \/ RemoveObject(p)
    BY <1>0, <2>1 DEF CreateTemp, LinkShared, RemoveObject, disk, Layers, OwnThere
  <2>2. CASE CopyObject(p)
    <3>1. /\ archives' = archives
          /\ \A t \in Stems \ {Stem(p)} : temps'[t] = temps[t]
          /\ temps'[Stem(p)] = Over(temps[Stem(p)], Single(Own(p), objects[Stem(p)]))
      BY <1>0, <2>0, <2>2 DEF CopyObject, CopyOver, TypeInv
    <3>2. DOMAIN temps'[Stem(p)] = DOMAIN temps[Stem(p)] \cup {Own(p)}
      BY <3>1 DEF Over, Single
    <3>3. From(rank, Stem(p), DOMAIN temps'[Stem(p)])
      BY <1>0, <2>0, <3>2 DEF Layers, From
    <3> QED BY <1>0, <3>1, <3>3 DEF Layers, OwnThere
  <2>3. CASE CopyDep(p)
    <3> DEFINE a == Head(run[p].todo)
    <3>0. PICK f \in Brought(a) : temps' = [temps EXCEPT ![Stem(p)] = Over(@, f)]
      BY <2>3 DEF CopyDep
    <3>1. /\ archives' = archives
          /\ \A t \in Stems \ {Stem(p)} : temps'[t] = temps[t]
          /\ temps'[Stem(p)] = Over(temps[Stem(p)], f)
          /\ run[p].todo # <<>> /\ run[p].todo \in Seq(Inputs)
      BY <1>0, <2>0, <2>3, <3>0 DEF CopyDep, TypeInv, RunType
    <3>2. DOMAIN temps'[Stem(p)] = DOMAIN temps[Stem(p)] \cup DOMAIN f
      BY <3>1 DEF Over
    <3>3. a \in Range(LinkInputs(p))
      <4>1. Range(run[p].todo) \subseteq Range(LinkInputs(p))
        BY <2>0, <2>3 DEF CopyDep, Progress, Collecting
      <4> QED BY <3>1, <4>1, HeadAndTail
    <3>4. From(rank, Stem(p), DOMAIN f)
      BY <2>0, <3>3, BroughtOf
    <3>5. From(rank, Stem(p), DOMAIN temps'[Stem(p)])
      BY <1>0, <2>0, <3>2, <3>4 DEF Layers, From
    <3> QED BY <1>0, <3>1, <3>5 DEF Layers, OwnThere
  <2>4. CASE Archive(p)
    <3>1. temps' = temps /\ Own(p) \in DOMAIN temps[Stem(p)]
      BY <2>0, <2>4 DEF Archive, Progress, Collecting
    <3>2. CASE archives' = [archives EXCEPT ![Stem(p)] = Over(@, temps[Stem(p)])]
      <4>1. /\ \A t \in Stems \ {Stem(p)} : archives'[t] = archives[t]
            /\ archives'[Stem(p)] = Over(archives[Stem(p)], temps[Stem(p)])
        BY <1>0, <2>0, <3>2 DEF TypeInv
      <4>2. DOMAIN archives'[Stem(p)] = DOMAIN archives[Stem(p)] \cup DOMAIN temps[Stem(p)]
        BY <4>1 DEF Over
      <4>3. From(rank, Stem(p), DOMAIN archives'[Stem(p)])
        BY <1>0, <2>0, <4>2 DEF Layers, From
      <4>4. <<Stem(p), "module">> \in DOMAIN archives'[Stem(p)]
        BY <3>1, <4>2 DEF Own
      <4> QED BY <1>0, <3>1, <4>1, <4>3, <4>4 DEF Layers, OwnThere
    <3>3. CASE UNCHANGED archives
      BY <1>0, <3>1, <3>3 DEF Layers, OwnThere
    <3> QED BY <2>4, <3>2, <3>3 DEF Archive
  <2>5. CASE RemoveTemp(p)
    <3>1. /\ archives' = archives
          /\ \A t \in Stems \ {Stem(p)} : temps'[t] = temps[t]
          /\ temps'[Stem(p)] = <<>>
      BY <1>0, <2>0, <2>5 DEF RemoveTemp, TypeInv
    <3>2. From(rank, Stem(p), DOMAIN temps'[Stem(p)])
      BY <3>1 DEF From
    <3> QED BY <1>0, <3>1, <3>2 DEF Layers, OwnThere
  <2> QED BY <2>0, <2>1, <2>2, <2>3, <2>4, <2>5 DEF Emit
<1> QED BY <1>1, <1>2

\* The artifacts of a run stay those of files below its own.
LEMMA FoundKeeps ==
  ASSUME NEW rank, Layered(rank), Delivery(rank), NEW p \in Procs, Step(p),
         run[p].stage # "return", Frame(Stem(p))
  PROVE  Found(rank, p)'
<1>0. /\ Inv /\ TypeInv /\ run[p] \in RunType /\ run \in [Procs -> RunType] /\ Stem(p) \in Stems
      /\ Active(p) /\ Found(rank, p) /\ Stem(p)' = Stem(p)
  BY StepKeeps DEF Delivery, Inv, TypeInv
<1>1. CASE run[p].stage # "imports"
  <2>1. run'[p].artifacts = run[p].artifacts /\ run'[p].given = run[p].given
    BY <1>0, <1>1, StepKeeps DEF Onward
  <2>2. \A a \in Range(run[p].artifacts) : a[1] \in Stems
    BY <1>0 DEF RunType, Range, Inputs
  <2>3. ASSUME NEW a \in Range(run[p].artifacts)
        PROVE  Below(rank, a, Stem(p))'
    BY <1>0, <2>2 DEF Found, Below, Frame
  <2>4. Held(archives, run[p].artifacts) \subseteq Held(archives', run[p].artifacts)
    <3>1. run[p].artifacts \in Seq(Inputs)
      BY <1>0 DEF RunType
    <3>2. \A t \in Stems : DOMAIN archives[t] \subseteq DOMAIN archives'[t]
      BY DEF Frame
    <3> QED BY <3>1, <3>2, HeldGrows
  <2> QED BY <1>0, <2>1, <2>3, <2>4 DEF Found
<1>2. CASE run[p].stage = "imports"
  <2>0. ResolveImports(p) /\ archives' = archives
    BY <1>2 DEF Step, Private, Lex, Parse, ResolveImports, Pass, CheckProgram, Codegen,
         JitExecute, EmitObject, SkipLibrary, EmitLibrary, LibraryEmitted, Link, Return, In,
         Emitting, At
  <2> DEFINE imports == Imports[Stem(p)]
             found == [i \in DOMAIN imports |-> Artifact(imports[i], run[p].options.format)]
  <2>1. run'[p].artifacts = found /\ run'[p].given = Held(archives, found)
    <3>0. \A s : MembersIn(s) = Held(archives, s)
      BY DEF MembersIn, Held
    <3>1. \/ StageEnds(p, [run[p] EXCEPT !.artifacts = found, !.given = MembersIn(found)])
          \/ StageEnds(p, SetError([run[p] EXCEPT !.artifacts = found, !.given = MembersIn(found)]))
      BY <2>0 DEF ResolveImports
    <3> HIDE DEF found
    <3>2. run'[p].artifacts = found /\ run'[p].given = MembersIn(found)
      BY <1>0, <3>1, ZenonT(30) DEF StageEnds, SetError, RunType
    <3> QED BY <3>0, <3>2
  <2>2. \A i \in DOMAIN imports : imports[i] \in Stems /\ rank[imports[i]] < rank[Stem(p)]
    BY <1>0, CompilerAssumption DEF Layered
  <2>3. ASSUME NEW i \in DOMAIN imports
        PROVE  Below(rank, found[i], Stem(p))
    <3>1. found[i] = Artifact(imports[i], run[p].options.format) /\ imports[i] \in Stems
      BY <2>2
    <3>2. found[i][1] = imports[i] /\ (found[i][2] = ".a" => archives[imports[i]] # NoArchive)
      BY <3>1 DEF Artifact
    <3> QED BY <2>2, <3>2 DEF Below
  <2>4. \A a \in Range(found) : Below(rank, a, Stem(p))
    BY <2>3 DEF Range
  <2> HIDE DEF found
  <2>5. \A a \in Range(found) : Below(rank, a, Stem(p))'
    BY <1>0, <2>0, <2>4 DEF Below
  <2>6. Held(archives', found) = Held(archives, found)
    BY <2>0
  <2> QED BY <1>0, <2>1, <2>5, <2>6 DEF Found
<1> QED BY <1>1, <1>2

\* A run on another file sees nothing of the step.
LEMMA OthersKeep ==
  ASSUME NEW rank, Delivery(rank), NEW p \in Procs, Active(p), NEW q \in Procs \ {p}, Active(q),
         run'[q] = run[q], Frame(Stem(p))
  PROVE  Found(rank, q)' /\ Progress(q)'
<1>0. /\ TypeInv /\ run[q] \in RunType /\ Stem(q) \in Stems \ {Stem(p)}
      /\ Found(rank, q) /\ Progress(q)
  BY DEF Delivery, Inv, TypeInv, RunType, Stem, Alone
<1>1. /\ objects'[Stem(q)] = objects[Stem(q)] /\ shareds'[Stem(q)] = shareds[Stem(q)]
      /\ archives'[Stem(q)] = archives[Stem(q)] /\ temps'[Stem(q)] = temps[Stem(q)]
      /\ exes'[Stem(q)] = exes[Stem(q)]
      /\ Stem(q)' = Stem(q) /\ Own(q)' = Own(q) /\ LinkInputs(q)' = LinkInputs(q)
  BY <1>0 DEF Frame, Stem, Own, LinkInputs
<1>2. Found(rank, q)'
  <2>1. \A a \in Range(run[q].artifacts) : a[1] \in Stems
    BY <1>0 DEF RunType, Range, Inputs
  <2>2. ASSUME NEW a \in Range(run[q].artifacts)
        PROVE  Below(rank, a, Stem(q))'
    BY <1>0, <1>1, <2>1 DEF Found, Below, Frame
  <2>3. Held(archives, run[q].artifacts) \subseteq Held(archives', run[q].artifacts)
    <3>1. run[q].artifacts \in Seq(Inputs)
      BY <1>0 DEF RunType
    <3>2. \A t \in Stems : DOMAIN archives[t] \subseteq DOMAIN archives'[t]
      BY DEF Frame
    <3> QED BY <3>1, <3>2, HeldGrows
  <2> QED BY <1>0, <1>1, <2>2, <2>3 DEF Found
<1>3. (Made(q)' <=> Made(q)) /\ (Clean(q)' <=> Clean(q))
  BY <1>1 DEF Made, Clean
<1>4. /\ \A e : Emitting(q, e)' <=> Emitting(q, e)
      /\ \A s : In(q, s)' <=> In(q, s)
  BY DEF Emitting, At, In
<1>5. (Compiled(q)' <=> Compiled(q)) /\ (Copying(q)' <=> Copying(q)) /\ (Collecting(q) => Collecting(q)')
  <2>1. Held(archives, run[q].todo) \subseteq Held(archives', run[q].todo)
    <3>1. run[q].todo \in Seq(Inputs)
      BY <1>0 DEF RunType
    <3>2. \A t \in Stems : DOMAIN archives[t] \subseteq DOMAIN archives'[t]
      BY DEF Frame
    <3> QED BY <3>1, <3>2, HeldGrows
  <2> QED BY <1>1, <1>4, <2>1 DEF Compiled, Copying, Collecting
<1>6. (Packing(q)' <=> Packing(q)) /\ (Packaged(q)' <=> Packaged(q))
  BY <1>1, <1>3, <1>4 DEF Packing, Packaged
<1> QED BY <1>0, <1>2, <1>5, <1>6 DEF Progress

\* A run of which nothing changes.
LEMMA StillSo ==
  ASSUME NEW rank, Delivery(rank), NEW q \in Procs, Active(q), run'[q] = run[q],
         UNCHANGED <<objects, shareds, archives, temps, exes>>
  PROVE  Found(rank, q)' /\ Progress(q)'
<1>0. Found(rank, q) /\ Progress(q)
  BY DEF Delivery
<1>1. Stem(q)' = Stem(q) /\ Own(q)' = Own(q) /\ LinkInputs(q)' = LinkInputs(q)
  BY DEF Stem, Own, LinkInputs
<1>2. Found(rank, q)'
  BY <1>0, <1>1 DEF Found, Below
<1>3. (Made(q)' <=> Made(q)) /\ (Clean(q)' <=> Clean(q))
  BY <1>1 DEF Made, Clean
<1>4. /\ \A e : Emitting(q, e)' <=> Emitting(q, e)
      /\ \A s : In(q, s)' <=> In(q, s)
  BY DEF Emitting, At, In
<1>5. (Compiled(q)' <=> Compiled(q)) /\ (Copying(q)' <=> Copying(q)) /\ (Collecting(q)' <=> Collecting(q))
  BY <1>1, <1>4 DEF Compiled, Copying, Collecting
<1>6. (Packing(q)' <=> Packing(q)) /\ (Packaged(q)' <=> Packaged(q))
  BY <1>1, <1>3, <1>4 DEF Packing, Packaged
<1> QED BY <1>0, <1>2, <1>5, <1>6 DEF Progress

\* A step of a run that goes on.
LEMMA DeliveryStep ==
  ASSUME NEW rank, Layered(rank), Delivery(rank), NEW p \in Procs, Step(p), Inv',
         run[p].stage # "return"
  PROVE  Delivery(rank)'
<1>1. /\ Inv /\ Active(p) /\ Stem(p)' = Stem(p) /\ run'[p].stage # "idle"
      /\ \A q \in Procs \ {p} : run'[q] = run[q]
  BY StepKeeps DEF Delivery
<1>2. Found(rank, p) /\ Progress(p) /\ Alone
  BY <1>1 DEF Delivery
<1>3. Frame(Stem(p))
  <2>1. Emitting(p, "collect") => Own(p) \in DOMAIN temps[Stem(p)]
    <3>1. Emitting(p, "collect") => ~run[p].options.from_string
      BY <1>1 DEF Inv, Sound, Emitting, At
    <3> QED BY <1>2, <3>1 DEF Progress, Collecting
  <2> QED BY <1>1, <1>2, <2>1, StepFrame
<1>4. Alone'
  BY <1>1, <1>2 DEF Alone, Active, Stem
<1>5. Found(rank, p)'
  BY <1>3, FoundKeeps
<1>6. Progress(p)'
  <2>1. CASE run[p].stage \notin {"emit_obj", "emit_library", "link"}
    BY <1>1, <2>1, EarlyStages
  <2>2. CASE run[p].stage = "emit_obj"
    <3>1. EmitObject(p)
      BY <2>2 DEF Step, Lex, Parse, ResolveImports, Pass, CheckProgram, Codegen, JitExecute,
           SkipLibrary, EmitLibrary, LibraryEmitted, Link, Return, In, Emitting, At
    <3> QED BY <3>1, EmitObjectKeeps
  <2>3. CASE run[p].stage \in {"emit_library", "link"}
    <3>1. EmitLibrary(p) \/ SkipLibrary(p) \/ LibraryEmitted(p) \/ Link(p)
      BY <2>3 DEF Step, Lex, Parse, ResolveImports, Pass, CheckProgram, Codegen, JitExecute,
           EmitObject, Return, In
    <3> QED BY <3>1, EmitKeeps, LateStages
  <2> QED BY <2>1, <2>2, <2>3
<1>7. ASSUME NEW q \in Procs, Active(q)'
      PROVE  Found(rank, q)' /\ Progress(q)'
  <2>1. CASE q = p
    BY <1>5, <1>6, <2>1
  <2>2. CASE q # p
    <3>1. Active(q)
      BY <1>1, <1>7, <2>2 DEF Active
    <3> QED BY <1>1, <1>3, <2>2, <3>1, OthersKeep
  <2> QED BY <2>1, <2>2
<1> QED BY <1>4, <1>7, DiskKeeps DEF Delivery

\* A run that ends, or is killed, leaves the others and the disk alone.
LEMMA EndKeeps ==
  ASSUME NEW rank, Delivery(rank), NEW p \in Procs, Return(p) \/ Crash(p), Inv'
  PROVE  Delivery(rank)'
<1>1. /\ Inv /\ TypeInv /\ Private /\ run' = [run EXCEPT ![p] = NoRun]
      /\ run \in [Procs -> RunType] /\ NoRun.stage = "idle" /\ Active(p)
  BY IdleRun DEF Delivery, Inv, TypeInv, Return, Crash, Active, In
<1>2. ~Active(p)' /\ \A q \in Procs \ {p} : run'[q] = run[q]
  BY <1>1 DEF Active
<1>3. Frame(Stem(p))
  BY <1>1 DEF Private, Frame
<1>4. \A q \in Procs : Active(q)' => q # p /\ Active(q) /\ Stem(q)' = Stem(q)
  BY <1>2 DEF Active, Stem
<1>5. Alone'
  BY <1>4 DEF Delivery, Alone
<1>6. \A q \in Procs : Active(q)' => Found(rank, q)' /\ Progress(q)'
  BY <1>1, <1>2, <1>3, <1>4, OthersKeep
<1>7. Layers(rank)' /\ OwnThere'
  BY <1>1 DEF Delivery, Private, Layers, OwnThere
<1> QED BY <1>5, <1>6, <1>7 DEF Delivery

\* Begin makes sure that no other run is on the file.
LEMMA BeginKeeps ==
  ASSUME Exclusive, NEW rank, Delivery(rank), Inv', NEW p \in Procs, NEW s \in Stems,
         NEW o \in scenario.options, Begin(p, s, o)
  PROVE  Delivery(rank)'
<1> DEFINE x == [Idle(o, s) EXCEPT !.stage = "lex", !.version = source[s]]
<1>1. /\ Inv /\ TypeInv /\ Private /\ run' = [run EXCEPT ![p] = x]
      /\ run \in [Procs -> RunType] /\ run[p].stage = "idle"
      /\ \A q \in Procs \ {p} : Active(q) => Stem(q) # s
  BY DEF Delivery, Inv, TypeInv, Begin, In, Active
<1>2. x.stage = "lex" /\ x.stem = s /\ x.artifacts = <<>> /\ x.given = {}
  BY DEF Idle
<1> HIDE DEF x
<1>3. /\ run'[p] = x /\ Stem(p)' = s /\ \A q \in Procs \ {p} : run'[q] = run[q]
  BY <1>1, <1>2 DEF Stem
<1>4. \A q \in Procs \ {p} : (Active(q)' <=> Active(q)) /\ Stem(q)' = Stem(q)
  BY <1>3 DEF Active, Stem
<1>5. Alone'
  BY <1>1, <1>3, <1>4 DEF Delivery, Alone
<1>6. Found(rank, p)' /\ Progress(p)'
  BY <1>2, <1>3 DEF Found, Range, Progress, Compiled, Copying, Collecting, Packing, Packaged,
       Emitting, At, In
<1>7. ASSUME NEW q \in Procs \ {p}, Active(q)
      PROVE  Found(rank, q)' /\ Progress(q)'
  BY <1>1, <1>3, <1>7, StillSo DEF Private
<1>8. Layers(rank)' /\ OwnThere'
  BY <1>1 DEF Delivery, Private, Layers, OwnThere
<1> QED BY <1>4, <1>5, <1>6, <1>7, <1>8 DEF Delivery

LEMMA DeliveryInit ==
  ASSUME NEW rank, Init
  PROVE  Delivery(rank)
<1>1. Inv
  BY InvInit
<1>2. \A p \in Procs : ~Active(p)
  BY <1>1, IdleRun DEF Init, Active, Inv
<1>3. \A s \in Stems : archives[s] = NoArchive /\ DOMAIN archives[s] = {} /\ DOMAIN temps[s] = {}
  BY EmptyArchive DEF Init, DiskInit
<1>4. Layers(rank) /\ OwnThere
  BY <1>3 DEF Layers, From, OwnThere
<1> QED BY <1>1, <1>2, <1>4 DEF Delivery, Alone

\* One step per kind of action of Next.
LEMMA DeliveryKeeps ==
  ASSUME Exclusive, NEW rank, Layered(rank), Delivery(rank), [Next]_vars
  PROVE  Delivery(rank)'
<1>1. Inv /\ Inv'
  BY InvStep DEF Delivery
<1>2. ASSUME NEW p \in Procs, Step(p)
      PROVE  Delivery(rank)'
  <2>1. CASE run[p].stage = "return"
    <3>1. Return(p)
      BY <1>2, <2>1 DEF Step, Lex, Parse, ResolveImports, Pass, CheckProgram, Codegen, JitExecute,
           EmitObject, SkipLibrary, EmitLibrary, LibraryEmitted, Link, In, Emitting, At
    <3> QED BY <1>1, <3>1, EndKeeps
  <2>2. CASE run[p].stage # "return"
    BY <1>1, <1>2, <2>2, DeliveryStep
  <2> QED BY <2>1, <2>2
<1>3. ASSUME NEW p \in Procs, Crash(p)
      PROVE  Delivery(rank)'
  BY <1>1, <1>3, EndKeeps
<1>4. ASSUME NEW p \in Procs, NEW s \in Stems, NEW o \in scenario.options, Begin(p, s, o)
      PROVE  Delivery(rank)'
  BY <1>1, <1>4, BeginKeeps
<1>5. CASE UNCHANGED <<objects, shareds, archives, temps, run, exes>>
  <2>1. \A p \in Procs : (Active(p)' <=> Active(p)) /\ Stem(p)' = Stem(p)
    BY <1>5 DEF Active, Stem
  <2>2. Layers(rank)' /\ OwnThere' /\ Alone'
    BY <1>5, <2>1 DEF Delivery, Layers, OwnThere, Alone
  <2>3. \A p \in Procs : Active(p) => Found(rank, p)' /\ Progress(p)'
    BY <1>5, StillSo
  <2> QED BY <1>1, <2>1, <2>2, <2>3 DEF Delivery
<1>6. CASE \E s \in Stems : Edit(s)
  BY <1>5, <1>6 DEF Edit
<1>7. CASE UNCHANGED vars
  BY <1>5, <1>7 DEF vars
<1> QED BY <1>2, <1>3, <1>4, <1>6, <1>7 DEF Next

\* A success has delivered the executable or the library, up to date with the
\* source that was read, and cleaned up: for any number of runs, files, crashes
\* and edits, when no two runs are on one file and the imports have no cycle.
THEOREM SuccessDelivers ==
  ASSUME Exclusive, NEW CONSTANT rank, Layered(rank)
  PROVE  Spec => []Delivered
<1>1. Init => Delivery(rank)
  BY DeliveryInit
<1>2. Delivery(rank) /\ [Next]_vars => Delivery(rank)'
  BY DeliveryKeeps
<1>3. Delivery(rank) => Delivered
  <2> SUFFICES ASSUME Delivery(rank), NEW p \in Procs, Returned(p), run[p].state = "Running",
                      ~run[p].options.from_string
               PROVE  IF run[p].has_main THEN exes[Stem(p)] = run[p].version
                      ELSE /\ objects[Stem(p)] = 0 /\ Made(p) /\ Clean(p)
    BY DEF Delivered, Made, Clean
  <2>1. Packaged(p) /\ In(p, "return")
    BY DEF Delivery, Active, Returned, In, Progress
  <2> QED BY <2>1 DEF Packaged
<1> QED BY <1>1, <1>2, <1>3, PTL DEF Spec

\* An archive that a run has made is closed: it holds every member of the
\* archives that were found for its imports, and its runtime, in the same
\* circumstances, unless an extraction failed.
THEOREM ArchivesAreClosed ==
  ASSUME Exclusive, NEW CONSTANT rank, Layered(rank)
  PROVE  Spec => []ArchiveIsClosed
<1>1. Init => Delivery(rank)
  BY DeliveryInit
<1>2. Delivery(rank) /\ [Next]_vars => Delivery(rank)'
  BY DeliveryKeeps
<1>3. Delivery(rank) => ArchiveIsClosed
  <2> SUFFICES ASSUME Delivery(rank), NEW p \in Procs, Returned(p), run[p].state = "Running",
                      ~run[p].options.from_string, ~run[p].has_main, ~run[p].lost,
                      run[p].options.format = "static"
               PROVE  /\ run[p].given \subseteq DOMAIN archives[Stem(p)]
                      /\ Stem(p) \in Runtimes =>
                           <<Stem(p), "runtime">> \in DOMAIN archives[Stem(p)]
    BY DEF ArchiveIsClosed
  <2>1. Packaged(p) /\ In(p, "return") /\ Inv
    BY DEF Delivery, Active, Returned, In, Progress
  <2>2. Made(p)
    BY <2>1 DEF Packaged
  <2>3. \A a \in Range(LinkInputs(p)) : Packed(a, DOMAIN archives[Stem(p)])
    BY <2>2 DEF Made
  <2> QED BY <2>1, <2>2, <2>3, LinkInputsHold DEF Packed, Made
<1> QED BY <1>1, <1>2, <1>3, PTL DEF Spec
=============================================================================
