--------------------------- MODULE LinearVariable ---------------------------
(***************************************************************************)
(* The life of one variable of any type, with its VarInfo tree in full     *)
(* depth (LinearTypeChecker keeps the first level of it): how the tree     *)
(* follows what the variable owns, and what the exit of its scope reports. *)
(***************************************************************************)
EXTENDS LinearTypes

VARIABLES ty,       \* its type
          info,     \* its VarInfo tree; empty when it is not tracked
          owed,     \* paths of the pointers it owns at run time
          wrong,    \* an error was reported
          open      \* its scope is open

vars == <<ty, info, owed, wrong, open>>

Init == /\ ty \in Universe
        /\ info = register_if_linear(ty)
        /\ owed = Owned[ty]
        /\ wrong = FALSE
        /\ open = TRUE

Under(path) == {p \in owed : IsPrefix(path, p)}

\* A child counts when it and the children above it are unconsumed, and it
\* has no children of its own.
ChildrenConsumed(path) ==
  ~ \E p \in DOMAIN info :
      /\ IsStrictPrefix(path, p)
      /\ \A q \in DOMAIN info : IsPrefix(q, p) /\ IsStrictPrefix(path, q)
                                  => info[q] = "Unconsumed"
      /\ ~ \E q \in DOMAIN info : IsStrictPrefix(p, q)

HasChildren(path) == \E p \in DOMAIN info : IsStrictPrefix(path, p)

\* The variable (path <<>>) or one of its fields is moved, passed or returned.
ConsumePlace(path) ==
  /\ open /\ path \in DOMAIN info /\ Len(path) <= 1
  /\ IF info[path] = "Consumed" THEN wrong' = TRUE /\ UNCHANGED info
     ELSE info' = [info EXCEPT ![path] = "Consumed"] /\ UNCHANGED wrong
  /\ owed' = owed \ Under(path)
  /\ UNCHANGED <<ty, open>>

\* free(x): what x points to must have been consumed before.
FreeVariable ==
  /\ open /\ <<>> \in DOMAIN info /\ ty.linear
  /\ wrong' = (wrong \/ ~ChildrenConsumed(<<>>) \/ info[<<>>] = "Consumed")
  /\ info' = [info EXCEPT ![<<>>] = "Consumed"]
  /\ owed' = owed \ {<<>>}
  /\ UNCHANGED <<ty, open>>

\* *x = e with e of the type x points to.
StoreThrough ==
  /\ open /\ ty.kind = "pointer" /\ <<1>> \in DOMAIN info
  /\ info[<<>>] = "Unconsumed"
  /\ IF info[<<1>>] = "Unconsumed" /\ ty.inner[1].linear
     THEN wrong' = TRUE /\ UNCHANGED info
     ELSE info' = [info EXCEPT ![<<1>>] = "Unconsumed"] /\ UNCHANGED wrong
  /\ owed' = owed \cup {<<1>> \o p : p \in Owned[ty.inner[1]]}
  /\ UNCHANGED <<ty, open>>

\* Slip: the exit of the scope does not look into wrappers.
PopVariablesOnly ==
  /\ open
  /\ open' = FALSE
  /\ wrong' = \/ wrong
              \/ /\ <<>> \in DOMAIN info /\ info[<<>>] = "Unconsumed"
                 /\ ~HasChildren(<<>>)
  /\ UNCHANGED <<ty, info, owed>>

\* Slip: a wrapper is reported although its parts were consumed.
PopIgnoresChildren ==
  /\ open
  /\ open' = FALSE
  /\ wrong' = (wrong \/ (<<>> \in DOMAIN info /\ info[<<>>] = "Unconsumed"))
  /\ UNCHANGED <<ty, info, owed>>

pop_scope_and_check ==
  /\ open
  /\ open' = FALSE
  /\ wrong' = \/ wrong
              \/ /\ <<>> \in DOMAIN info /\ info[<<>>] = "Unconsumed"
                 /\ HasChildren(<<>>) => ~ChildrenConsumed(<<>>)
  /\ UNCHANGED <<ty, info, owed>>

Next == \/ \E p \in DOMAIN info : ConsumePlace(p)
        \/ FreeVariable
        \/ StoreThrough
        \/ pop_scope_and_check

Spec == Init /\ [][Next]_vars

-----------------------------------------------------------------------------
(* Properties *)

\* Nowhere in the type does a pointer lead to something linear.
NoPointerToLinear[t \in Universe] ==
  \A i \in DOMAIN t.inner : /\ t.kind = "pointer" => ~containsLinearTypes[t.inner[i]]
                            /\ NoPointerToLinear[t.inner[i]]

NoLinearFunction[t \in Universe] ==
  /\ t.kind = "function" => ~containsLinearTypes[t]
  /\ \A i \in DOMAIN t.inner : NoLinearFunction[t.inner[i]]

\* A variable leaves its scope unreported only when it owns nothing any more,
\* however deep the pointers sit in structs, tuples, enums and arrays.
\* (pop_scope_and_check looks at the children only, so this needs types
\* without pointers to linear values: a pointer to a pointer that is never
\* freed is not reported, the child it is registered with starts consumed.)
ExitReportsOwed ==
  NoPointerToLinear[ty] /\ ~open /\ ~wrong => owed = {}

\* A variable that is used once at most and owns nothing at the end of its
\* scope is not reported (types of functions with linear parameters aside).
NoFalseReport ==
  [][pop_scope_and_check /\ NoLinearFunction[ty] /\ ~wrong /\ wrong'
       => owed # {}]_vars
=============================================================================
