--------------------------- MODULE LibraryEmitter ---------------------------
(***************************************************************************)
(* The stage that packages the object file of a library into an archive or *)
(* a shared library (src/src/compiler/library_emitter.cpp), on the disk it *)
(* shares with the other runs of the compiler.                             *)
(*                                                                         *)
(* A file is what it was made from: an object is the version of the source *)
(* it was compiled from, an archive maps its members to such versions.  A  *)
(* member is <<stem, "module">> for stem.o and <<stem, "runtime">> for     *)
(* stem_runtime.o.  One output directory is modelled.                      *)
(***************************************************************************)
EXTENDS Naturals, FiniteSets, SequencesExt

CONSTANTS
  Procs,      \* runs of the compiler that may be active together
  Stems,      \* file names without their extension
  Runtimes    \* those with a stem_runtime.o beside them

ASSUME RuntimesAssumption == Runtimes \subseteq Stems

VARIABLES
  objects,    \* stem.o: 0 when absent
  shareds,    \* stem.so: likewise
  archives,   \* stem.a: NoArchive or its members
  temps,      \* sammine_ar_<stem> in the system's temporary directory
  run         \* what each active run of the compiler holds

disk == <<objects, shareds, archives, temps>>

Member == Stems \X {"module", "runtime"}
NoArchive == <<>>

\* A directory or an archive with the files of g over those of f.
Over(f, g) == [m \in DOMAIN f \cup DOMAIN g |-> IF m \in DOMAIN g THEN g[m] ELSE f[m]]
Single(m, content) == [x \in {m} |-> content]

Stem(p) == run[p].stem
Own(p) == <<Stem(p), "module">>

At(p, stage, step) == run[p].stage = stage /\ run[p].emit = step
Emitting(p, step) == At(p, "emit_library", step)
Goto(p, step) == run' = [run EXCEPT ![p].emit = step]

\* Mistake: the runtime object alone, as for a shared library.
LinkInputsShared(p) == IF Stem(p) \in Runtimes THEN <<<<Stem(p), ".o">>>> ELSE <<>>

\* extra_object_files, then what autoDetectRuntimeObject finds.
LinkInputs(p) ==
  run[p].artifacts \o
    (IF Stem(p) \in Runtimes THEN <<<<Stem(p), ".o">>>> ELSE <<>>)

\* create_directories finds a directory that is already there as good as new.
CreateTemp(p) ==
  /\ Emitting(p, "begin")
  /\ run[p].options.format = "static"
  /\ run' = [run EXCEPT ![p].emit = "copy", ![p].todo = LinkInputs(p)]
  /\ UNCHANGED disk

\* Mistake: a file that is there already is kept.
SkipExisting(f, g) == Over(g, f)

CopyOver(f, g) == Over(f, g)

\* The module's own object goes in first; copy_file throws when it is gone.
CopyObject(p) ==
  /\ Emitting(p, "copy")
  /\ objects[Stem(p)] # 0
  /\ temps' = [temps EXCEPT ![Stem(p)] = CopyOver(@, Single(Own(p), objects[Stem(p)]))]
  /\ Goto(p, "collect")
  /\ UNCHANGED <<objects, shareds, archives>>

\* What copy_dep may bring: the members of an archive, all of them or, when
\* `ar x` fails, any of them; an object file; or a shared library, which the
\* archive will not hold.
Brought(dep) ==
  CASE dep[2] = ".a" -> LET held == archives[dep[1]]
                        IN {Restrict(held, some) : some \in SUBSET DOMAIN held}
    [] dep[2] = ".o" -> {Single(<<dep[1], "runtime">>, 1)}
    [] OTHER -> {<<>>}

\* Each dependency in order, over what is there.  Nobody asks whether `ar x`
\* succeeded: the stage goes on with what came.
CopyDep(p) ==
  /\ Emitting(p, "collect")
  /\ run[p].todo # <<>>
  /\ LET dep == Head(run[p].todo) IN
     \E members \in Brought(dep) :
       /\ temps' = [temps EXCEPT ![Stem(p)] = Over(@, members)]
       /\ run' = [run EXCEPT ![p].todo = Tail(@),
                             ![p].lost = @ \/ (dep[2] = ".a" /\ members # archives[dep[1]])]
  /\ UNCHANGED <<objects, shareds, archives>>

\* `ar rcs` replaces the members of an archive that is there and keeps its
\* others; when it fails the stage goes on with an error queued.
Archive(p) ==
  /\ Emitting(p, "collect")
  /\ run[p].todo = <<>>
  /\ \/ /\ archives' = [archives EXCEPT ![Stem(p)] = Over(@, temps[Stem(p)])]
        /\ Goto(p, "clean")
     \/ /\ run' = [run EXCEPT ![p].emit = "clean", ![p].failed = TRUE]
        /\ UNCHANGED archives
  /\ UNCHANGED <<objects, shareds, temps>>

\* remove_all.
RemoveTemp(p) ==
  /\ Emitting(p, "clean")
  /\ temps' = [temps EXCEPT ![Stem(p)] = <<>>]
  /\ Goto(p, "remove")
  /\ UNCHANGED <<objects, shareds, archives>>

\* emitShared: the runtime object is linked in, the imports are not.
LinkShared(p) ==
  /\ Emitting(p, "begin")
  /\ run[p].options.format = "shared"
  /\ \/ /\ objects[Stem(p)] # 0
        /\ shareds' = [shareds EXCEPT ![Stem(p)] = objects[Stem(p)]]
        /\ Goto(p, "remove")
     \/ /\ run' = [run EXCEPT ![p].emit = "remove", ![p].failed = TRUE]
        /\ UNCHANGED shareds
  /\ UNCHANGED <<objects, archives, temps>>

\* The end of Emit: the intermediate object goes, whatever happened.
RemoveObject(p) ==
  /\ Emitting(p, "remove")
  /\ objects' = [objects EXCEPT ![Stem(p)] = 0]
  /\ Goto(p, "emitted")
  /\ UNCHANGED <<shareds, archives, temps>>

\* The steps of Emit.
Emit(p) ==
  \/ CreateTemp(p) \/ CopyObject(p) \/ CopyDep(p) \/ Archive(p)
  \/ RemoveTemp(p) \/ LinkShared(p) \/ RemoveObject(p)

DiskInit ==
  /\ objects = [s \in Stems |-> 0]
  /\ shareds = [s \in Stems |-> 0]
  /\ archives = [s \in Stems |-> NoArchive]
  /\ temps = [s \in Stems |-> <<>>]
=============================================================================
