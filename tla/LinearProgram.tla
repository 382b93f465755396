---------------------------- MODULE LinearProgram ----------------------------
(***************************************************************************)
(* The vocabulary the linear checker and the generated code share: names,  *)
(* types, and the slots of a variable.  Slot Root is the variable itself;  *)
(* the other slots are its first-level parts, keyed like VarInfo::children *)
(* by field name, element number, or Star for what a pointer points to.    *)
(***************************************************************************)
EXTENDS Naturals, Sequences, SequencesExt

CONSTANTS Vars, Types, Root, Fields, Star,
          MaxDepth,  \* bound: nesting of ifs, cases and loops
          MaxArms    \* bound: arms of one case

Slots  == {Root} \cup Fields
Places == Vars \X Slots

ASSUME ProgramVocabulary == /\ Root \notin Fields /\ Root # Star
                            /\ MaxDepth \in Nat
                            /\ MaxArms \in Nat \ {0, 1}
=============================================================================
