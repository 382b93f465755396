---- MODULE GenericTypes ----
(***************************************************************************)
(* The types of the bidirectional checker (Types.h, Types.cpp), the        *)
(* binding of type parameters (UniSubst.cpp) and the copying of a type     *)
(* expression under a binding (Monomorphizer.cpp).                         *)
(*                                                                         *)
(* A printed name is a tree, [base, args]: `Box<ptr<i32>>` is "Box" over   *)
(* "ptr" over "i32", so two names are equal iff the code's strings are.    *)
(* A type is [kind, name, args, linear].  The args of a function type are  *)
(* its parameters and its result, those of a struct its fields, those of   *)
(* an enum one pseudo type of kind "Variant" per variant, over the         *)
(* payloads.                                                               *)
(*                                                                         *)
(* A type expression is a record of the same fields whose kind is "name",  *)
(* "app" (a generic type applied), "ptr", "tuple", "array" or "fn"; a type *)
(* stands as an expression for itself, which is the resolved_type that a   *)
(* copied expression carries.                                              *)
(***************************************************************************)
EXTENDS Integers, SequencesExt

Tree(base, args) == [base |-> base, args |-> args]
Plain(n) == Tree(n, <<>>)

Node(kind, name, args) == [kind |-> kind, name |-> name, args |-> args, linear |-> FALSE]
Scalar(kind) == Node(kind, Plain(""), <<>>)
Pointer(t) == Node("Pointer", Plain(""), <<t>>)
TypeParam(n) == Node("TypeParam", n, <<>>)
Integer == Scalar("Integer")
Poisoned == Scalar("Poisoned")
NonExistent == Scalar("NonExistent")

ScalarKinds == {"i32", "i64", "bool", "unit"}
Expressions == {"name", "app", "ptr", "tuple", "array", "fn"}
TypeOf == [name |-> "TypeParam", app |-> "Struct", ptr |-> "Pointer",
           tuple |-> "Tuple", array |-> "Array", fn |-> "Function"]
Nominal == {"Struct", "Enum"}

RECURSIVE to_string(_)
to_string(t) ==
  IF t.kind \in Nominal \cup {"TypeParam"} THEN t.name
  ELSE Tree(IF t.linear THEN "'ptr" ELSE t.kind \o t.name.base,
            [i \in DOMAIN t.args |-> to_string(t.args[i])])

\* What operator== and the hash look at: of a struct or an enum the name, of
\* everything else the structure, of nothing the linearity.
RECURSIVE Identity(_)
Identity(t) ==
  IF t.kind \in Nominal THEN [t EXCEPT !.args = <<>>]
  ELSE [t EXCEPT !.linear = FALSE, !.args = [i \in DOMAIN @ |-> Identity(@[i])]]
Same(t, u) == Identity(t) = Identity(u)

RECURSIVE containsTypeParam(_)
containsTypeParam(t) ==
  t.kind = "TypeParam" \/ \E i \in DOMAIN t.args : containsTypeParam(t.args[i])

RECURSIVE contains_type_param(_, _)
contains_type_param(t, n) ==
  IF t.kind = "TypeParam" THEN t.name = n
  ELSE \E i \in DOMAIN t.args : contains_type_param(t.args[i], n)

\* A type is rebuilt from its parts, which drops the linearity of a pointer;
\* a struct or an enum none of whose parts changed is left alone, and one that
\* did change keeps its name.
RECURSIVE substitute(_, _)
substitute(t, bindings) ==
  LET parts == [i \in DOMAIN t.args |-> substitute(t.args[i], bindings)]
      unchanged == \A i \in DOMAIN parts : Same(parts[i], t.args[i])
  IN CASE t.kind = "TypeParam" -> IF t.name \in DOMAIN bindings THEN bindings[t.name] ELSE t
       [] t.kind \in Nominal /\ unchanged -> t
       [] OTHER -> Node(t.kind, t.name, parts)

RECURSIVE unify(_, _, _)
UnifyNext(so_far, pattern, concrete) ==
  IF so_far.ok THEN unify(pattern, concrete, so_far.bindings) ELSE so_far
UnifyAll(patterns, concretes, bindings) ==
  FoldLeft(LAMBDA so_far, i : UnifyNext(so_far, patterns[i], concretes[i]),
           [ok |-> TRUE, bindings |-> bindings], [i \in DOMAIN patterns |-> i])

\* Slip: a parameter that is bound already is bound again.
BindParamSlip(n, concrete, bindings) == [ok |-> TRUE, bindings |-> (n :> concrete) @@ bindings]
BindParam(n, concrete, bindings) ==
  CASE contains_type_param(concrete, n) -> [ok |-> FALSE, bindings |-> bindings]
    [] n \in DOMAIN bindings -> [ok |-> Same(bindings[n], concrete), bindings |-> bindings]
    [] OTHER -> [ok |-> TRUE, bindings |-> (n :> concrete) @@ bindings]

unify(pattern, concrete, bindings) ==
  CASE pattern.kind = "TypeParam" -> BindParam(pattern.name, concrete, bindings)
    [] \/ pattern.kind # concrete.kind
       \/ pattern.name # concrete.name
       \/ Len(pattern.args) # Len(concrete.args) -> [ok |-> FALSE, bindings |-> bindings]
    [] OTHER -> UnifyAll(pattern.args, concrete.args, bindings)

\* The lattice: each integer type's parent is the type of an integer literal.
populate == [kind \in {"i32", "i64"} |-> Integer]
visit_ancestor(t) == {t} \cup IF t.kind \in DOMAIN populate THEN {populate[t.kind]} ELSE {}

qualifier_compatible(to, from) ==
  to.kind = "Pointer" /\ from.kind = "Pointer" => to.linear = from.linear

RECURSIVE compatible_to_from(_, _)
structurally_compatible(to, from) ==
  CASE from = Integer -> Integer \in visit_ancestor(to)
    [] to.kind = from.kind /\ to.kind \in {"Array", "Tuple"} ->
         /\ to.name = from.name /\ Len(to.args) = Len(from.args)
         /\ \A i \in DOMAIN to.args : compatible_to_from(to.args[i], from.args[i])
    [] OTHER -> Same(to, from)
compatible_to_from(to, from) == qualifier_compatible(to, from) /\ structurally_compatible(to, from)

\* An integer literal that nothing decides is an i32, in an array or a tuple too.
RECURSIVE default_polymorphic_type(_)
default_polymorphic_type(t) ==
  CASE t = Integer -> Scalar("i32")
    [] t.kind \in {"Array", "Tuple"} ->
         [t EXCEPT !.args = [i \in DOMAIN @ |-> default_polymorphic_type(@[i])]]
    [] OTHER -> t

\* A literal takes the type it is used at.
RECURSIVE resolve_literal_type(_, _)
resolve_literal_type(t, target) ==
  CASE t = Integer -> target
    [] t.kind \in {"Array", "Tuple"} /\ target.kind = t.kind ->
         [t EXCEPT !.args = [i \in DOMAIN @ |-> resolve_literal_type(@[i], target.args[i])]]
    [] OTHER -> t

\* Slip: every bound name is replaced by one and the same type.
BoundSlip(n, bindings) == bindings[CHOOSE m \in DOMAIN bindings : TRUE]
Bound(n, bindings) == bindings[n]

RECURSIVE clone_type_expr(_, _)
clone_type_expr(expr, bindings) ==
  CASE expr.kind = "name" -> IF expr.name \in DOMAIN bindings THEN Bound(expr.name, bindings) ELSE expr
    [] expr.kind \in Expressions ->
         [expr EXCEPT !.args = [i \in DOMAIN @ |-> clone_type_expr(@[i], bindings)]]
    [] OTHER -> expr

\* The name of an instance of a generic, and the key it is remembered by: the
\* name prints the linearity of a pointer, the key does not see it.
to_generic_name(base, type_args) ==
  Tree(base.base, [i \in DOMAIN type_args |-> to_string(type_args[i])])
\* Slip: the key tells type arguments apart by their kind only.
MonomorphizedKeySlip(base, type_args) ==
  [name |-> base, type_args |-> [i \in DOMAIN type_args |-> type_args[i].kind]]
MonomorphizedKey(base, type_args) ==
  [name |-> base, type_args |-> [i \in DOMAIN type_args |-> Identity(type_args[i])]]
====
