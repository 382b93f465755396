----------------------------- MODULE LinearTypes -----------------------------
(***************************************************************************)
(* Types as trees, and what the linear checker derives from them: whether  *)
(* a type contains linear types, and the tree of VarInfo records that is   *)
(* registered for a variable of it.                                        *)
(*                                                                         *)
(* A type is a record: its kind, whether it is linear ('ptr), and the      *)
(* types nested in it (the pointee, the element, the fields, the payloads  *)
(* of all variants, or the parameters followed by the result).             *)
(***************************************************************************)
EXTENDS Naturals, Sequences, SequencesExt

CONSTANT Universe   \* a set of types closed under nesting

Kinds == {"scalar", "pointer", "array", "struct", "tuple", "enum", "function"}

ASSUME UniverseAssumption ==
  \A t \in Universe : /\ t.kind \in Kinds
                      /\ t.linear \in BOOLEAN
                      /\ t.linear => t.kind = "pointer"
                      /\ t.inner \in Seq(Universe)
                      /\ t.kind = "scalar" => t.inner = <<>>
                      /\ t.kind = "pointer" => Len(t.inner) = 1

-----------------------------------------------------------------------------
(* Queries of Types.h *)

containsLinearTypes[t \in Universe] ==
  t.linear \/ \E i \in DOMAIN t.inner : containsLinearTypes[t.inner[i]]

containsNonLinearPtr[t \in Universe] ==
  \/ t.kind = "pointer" /\ ~t.linear
  \/ \E i \in DOMAIN t.inner : containsNonLinearPtr[t.inner[i]]

\* Whether the search for a non-linear pointer finds one; it stops at 'ptr.
find_nonlinear_pointer_path[t \in Universe] ==
  IF t.kind = "pointer" THEN ~t.linear
  ELSE \E i \in DOMAIN t.inner : find_nonlinear_pointer_path[t.inner[i]]

-----------------------------------------------------------------------------
(* register_inner_linear: the children of a VarInfo as a set of pairs of a *)
(* path and the state the child at that path starts in.                    *)

Below(i, pairs) == {<<<<i>> \o p[1], p[2]>> : p \in pairs}

register_inner_linear[t \in Universe] ==
  IF t.kind \in {"scalar", "function"} THEN {}
  ELSE UNION {{<<<<i>>, IF t.kind = "pointer" THEN "Consumed" ELSE "Unconsumed">>}
                \cup (IF t.inner[i].linear THEN {}
                      ELSE Below(i, register_inner_linear[t.inner[i]])) :
              i \in {j \in DOMAIN t.inner : containsLinearTypes[t.inner[j]]}}

\* The VarInfo tree as a function from paths; <<>> is the variable itself.
register_if_linear(t) ==
  IF ~containsLinearTypes[t] THEN <<>>
  ELSE LET kids == register_inner_linear[t]
       IN [p \in {<<>>} \cup {k[1] : k \in kids} |->
             IF p = <<>> THEN "Unconsumed" ELSE (CHOOSE k \in kids : k[1] = p)[2]]

\* The pointers a fresh value owns; what a new cell holds is not set yet.
Owned[t \in Universe] ==
  IF t.linear THEN {<<>>}
  ELSE IF t.kind \in {"pointer", "function"} THEN {}
  ELSE UNION {{<<i>> \o p : p \in Owned[t.inner[i]]} : i \in DOMAIN t.inner}
=============================================================================
