---- MODULE Generics ----
(***************************************************************************)
(* The type checker's three passes over a program with generics            *)
(* (BiTypeChecker.cpp, BiTypeCheckerSynthesize.cpp) and the monomorphizer  *)
(* it drives: the types are registered, then the signatures, then every    *)
(* body is checked, and a call of a generic function makes a copy of the   *)
(* function, which is checked on the spot, inside the function that calls  *)
(* it.  A definition is [kind, name, params, parts, ret, body]: the parts  *)
(* of a struct are its fields, of an enum its variants, of a function its  *)
(* parameters, each [name, types].  A statement is [kind, name, ann,       *)
(* value], an expression [kind, name, of, targs, args].                    *)
(*                                                                         *)
(* The calls of the checker's own recursion that resolve types are         *)
(* operators: each takes the checker and returns [c, val].  The checking   *)
(* of a copy within a copy is an explicit stack.                           *)
(***************************************************************************)
EXTENDS GenericTypes, FiniteSetsExt

CONSTANTS Programs,  \* the programs, each a sequence of definitions
          MaxDepth   \* the native stack: how deep copies may nest

ASSUME DepthAssumption == MaxDepth \in Nat \ {0}

VARIABLES program,      \* the program, chosen at the start
          pass,         \* "types", "functions", "bodies" or "done"
          at,           \* the definition the pass is at
          checker,      \* what BiTypeCheckerVisitor and its registries hold
          stack,        \* the functions being checked, [ret, todo, pending]
          instantiated_functions, \* the keys of the copies made
          monomorphized_defs,     \* the copies, [name, params, ret]
          calls         \* the resolved calls of generic functions
vars == <<program, pass, at, checker, stack, instantiated_functions, monomorphized_defs, calls>>

Params(type) == Front(type.args)
Unresolved(types) == \E i \in DOMAIN types : types[i] = Poisoned
Give(c, val) == [c |-> c, val |-> val]
Error(c, what) == Give([c EXCEPT !.errors = @ \cup {what}], Poisoned)

-----------------------------------------------------------------------------
(* Scopes: a sequence of maps, the root first; names are found from the    *)
(* innermost outwards.                                                     *)

recursive_try_get(scopes, n) ==
  LET found == {i \in DOMAIN scopes : n \in DOMAIN scopes[i]}
  IN IF found = {} THEN NonExistent ELSE scopes[Max(found)][n]
registerNameT(scopes, n, t) == [scopes EXCEPT ![Len(scopes)] = (n :> t) @@ @]
registerNameTAtRoot(scopes, n, t) == [scopes EXCEPT ![1] = (n :> t) @@ @]

get_typename_type(c, n) == recursive_try_get(c.typename_to_type, n)
RegisterTypes(c, bindings) ==
  [c EXCEPT !.typename_to_type[Len(c.typename_to_type)] = bindings @@ @]
Guard(c, bindings) == [c EXCEPT !.typename_to_type = Append(@, bindings)]
Unguard(c) == [c EXCEPT !.typename_to_type = Front(@)]

enter_new_scope(c) == [Guard(c, <<>>) EXCEPT !.id_to_type = Append(@, <<>>)]
exit_new_scope(c) == [Unguard(c) EXCEPT !.id_to_type = Front(@)]

-----------------------------------------------------------------------------
(* Type expressions.                                                       *)

RECURSIVE resolve_type_expr(_, _)

\* One after the other; with `stop` nothing after the first that fails.
Before(val, rest) == Give(rest.c, <<val>> \o rest.val)
RECURSIVE Resolve(_, _, _)
ResolveRest(first, exprs, stop) ==
  IF stop /\ first.val = Poisoned THEN Give(first.c, <<Poisoned>>)
  ELSE Before(first.val, Resolve(first.c, exprs, stop))
Resolve(c, exprs, stop) ==
  IF exprs = <<>> THEN Give(c, <<>>)
  ELSE ResolveRest(resolve_type_expr(c, Head(exprs)), Tail(exprs), stop)

RECURSIVE ResolveParts(_, _, _)
RestOfParts(first, parts, stop) ==
  IF stop /\ Unresolved(first.val) THEN Give(first.c, <<first.val>>)
  ELSE Before(first.val, ResolveParts(first.c, parts, stop))
ResolveParts(c, parts, stop) ==
  IF parts = <<>> THEN Give(c, <<>>)
  ELSE RestOfParts(Resolve(c, Head(parts).types, stop), Tail(parts), stop)

\* The struct or enum of the name with these field or payload types.
Built(d, name, types) ==
  IF d.kind = "struct" THEN Node("Struct", name, FlattenSeq(types))
  ELSE Node("Enum", name, [i \in DOMAIN types |-> Node("Variant", Plain(d.parts[i].name), types[i])])

\* The constructors of an enum are found by its own name and, for an instance
\* of a generic, by the generic's: the last instance visited answers to it.
Constructors(name, enum) ==
  [key \in {<<n, enum.args[i].name>> : n \in {name, Plain(name.base)}, i \in DOMAIN enum.args} |-> enum]
WithConstructors(c, name, type) ==
  IF type.kind = "Enum" THEN [c EXCEPT !.variant_constructors = Constructors(name, type) @@ @] ELSE c

\* visit(StructDefAST) and visit(EnumDefAST) of a definition without type
\* parameters: the name is registered, at the root, after the parts resolved.
RegisterDef(c, name, type) ==
  WithConstructors([c EXCEPT !.typename_to_type = registerNameTAtRoot(@, name, type)], name, type)
DefOf(d, parts) ==
  IF \E i \in DOMAIN parts.val : Unresolved(parts.val[i]) THEN parts.c
  ELSE RegisterDef(parts.c, d.name, Built(d, d.name, parts.val))
VisitTypeDef(c, d) == DefOf(d, ResolveParts(c, d.parts, TRUE))

Deeper(c) ==
  IF c.depth = MaxDepth THEN [c EXCEPT !.fault = "overflow"] ELSE [c EXCEPT !.depth = @ + 1]
BackFrom(deeper, c) == [deeper EXCEPT !.depth = c.depth]

\* Slip: the parts are taken over as they are written.
ClonePartSlip(part, bindings) == part
ClonePart(part, bindings) ==
  [part EXCEPT !.types = [i \in DOMAIN @ |-> clone_type_expr(@[i], bindings)]]
CloneTypeDef(d, name, bindings) ==
  [d EXCEPT !.name = name, !.params = <<>>,
            !.parts = [i \in DOMAIN @ |-> ClonePart(@[i], bindings)]]

\* instantiate_struct and instantiate_enum, and the visit of the copy.
Made(c, d, type_args) ==
  [Deeper(c) EXCEPT !.instances = @ \cup {[def |-> d, type_args |-> type_args]}]
Instantiate(c, d, type_args, bindings) ==
  BackFrom(VisitTypeDef(Made(c, d, type_args),
                        CloneTypeDef(d, to_generic_name(d.name, type_args), bindings)), c)
Instance(c, name) ==
  Give(c, IF get_typename_type(c, name) = NonExistent THEN Poisoned ELSE get_typename_type(c, name))

\* Within the prototype of a generic function: a stand-in over the type
\* parameters, for which the parameters of the generic type are registered in
\* the scope at hand and left there.
StandIn(parts, type, name, c) ==
  Give(BackFrom([parts.c EXCEPT !.typename_to_type = registerNameT(@, name, type)], c), type)
PlaceholderOf(parts, d, name, c) == StandIn(parts, Built(d, name, parts.val), name, c)
Placeholder(c, d, name, bindings) ==
  PlaceholderOf(ResolveParts(RegisterTypes(Deeper(c), bindings), d.parts, FALSE), d, name, c)

Binding(params, type_args) ==
  [n \in ToSet(params) |-> type_args[CHOOSE i \in DOMAIN params : params[i] = n]]

ApplyNamed(c, d, type_args, name) ==
  CASE get_typename_type(c, name) # NonExistent -> Give(c, get_typename_type(c, name))
    [] \E i \in DOMAIN type_args : containsTypeParam(type_args[i]) ->
         Placeholder(c, d, name, Binding(d.params, type_args))
    [] OTHER -> Instance(Instantiate(c, d, type_args, Binding(d.params, type_args)), name)
ApplyTo(targs, d) ==
  IF Unresolved(targs.val) THEN Give(targs.c, Poisoned)
  ELSE ApplyNamed(targs.c, d, targs.val, to_generic_name(d.name, targs.val))
ResolveApplied(c, expr) ==
  CASE expr.name \notin DOMAIN c.generic_types -> Error(c, "not a generic type")
    [] Len(expr.args) # Len(c.generic_types[expr.name].params) -> Error(c, "type arguments")
    [] OTHER -> ApplyTo(Resolve(c, expr.args, TRUE), c.generic_types[expr.name])

ResolveNamed(c, type) == IF type = NonExistent THEN Error(c, "type not found") ELSE Give(c, type)

BuiltOf(expr, parts) ==
  Give(parts.c, IF Unresolved(parts.val) THEN Poisoned
                ELSE [Node(TypeOf[expr.kind], expr.name, parts.val) EXCEPT !.linear = expr.linear])

resolve_type_expr(c, expr) ==
  CASE c.fault # "none" -> Give(c, Poisoned)
    [] expr.kind \notin Expressions -> Give(c, expr)
    [] expr.kind = "name" -> ResolveNamed(c, get_typename_type(c, expr.name))
    [] expr.kind = "app" -> ResolveApplied(c, expr)
    [] OTHER -> BuiltOf(expr, Resolve(c, expr.args, TRUE))

AliasOf(type, name) ==
  IF type.val = Poisoned THEN Error(type.c, "type alias").c
  ELSE WithConstructors([type.c EXCEPT !.typename_to_type = registerNameT(@, name, type.val)],
                        name, type.val)
visit_TypeAliasDefAST(c, d) == AliasOf(resolve_type_expr(c, d.parts[1].types[1]), d.name)

-----------------------------------------------------------------------------
(* Expressions.  A result holds besides the type the calls of generic      *)
(* functions in it, arguments before the call, each to be visited next.    *)

Typed(c, val, pending) == [c |-> c, val |-> val, pending |-> pending]
Rejected(c, pending, what) == Typed(Error(c, what).c, Poisoned, pending)

RECURSIVE synthesize(_, _)
RECURSIVE SynthesizeAll(_, _)
Joined(first, rest) == Typed(rest.c, <<first.val>> \o rest.val, first.pending \o rest.pending)
SynthesizeRest(first, xs) == Joined(first, SynthesizeAll(first.c, xs))
SynthesizeAll(c, xs) ==
  IF xs = <<>> THEN Typed(c, <<>>, <<>>) ELSE SynthesizeRest(synthesize(c, Head(xs)), Tail(xs))

\* The arguments against the types of a variant's payload or of the fields.
Checked(args, expected, type, what) ==
  IF /\ Len(args.val) = Len(expected)
     /\ \A i \in DOMAIN expected : compatible_to_from(expected[i], args.val[i])
  THEN Typed(args.c, type, args.pending) ELSE Rejected(args.c, args.pending, what)

\* The instance named by explicit type arguments, made anew each time.
InstanceOf(targs, d) ==
  IF Unresolved(targs.val) THEN Give(targs.c, NonExistent)
  ELSE Instance(Instantiate(targs.c, d, targs.val, Binding(d.params, targs.val)),
                to_generic_name(d.name, targs.val))

\* The type that is found or, if it is not, the instance the expression stands
\* for; `base` is the name without type arguments.
FoundOrMade(c, x, base, kind) ==
  IF /\ get_typename_type(c, x.name) = NonExistent /\ x.targs # <<>>
     /\ base \in DOMAIN c.generic_types /\ c.generic_types[base].kind = kind
     /\ Len(x.targs) = Len(c.generic_types[base].params)
  THEN InstanceOf(Resolve(c, x.targs, TRUE), c.generic_types[base])
  ELSE Give(c, get_typename_type(c, x.name))

LiteralOf(args, type) ==
  IF type.val.kind # "Struct" THEN Rejected(type.c, args.pending, "struct type")
  ELSE Checked([args EXCEPT !.c = type.c], type.val.args, type.val, "field")
LiteralWith(args, x) == LiteralOf(args, FoundOrMade(args.c, x, x.name, "struct"))

\* A constructor E::V(...) or E<...>::V(...); the qualifier is looked up as it
\* is written, with the names of type parameters in it.
EnumNamed(named, key) ==
  IF named.val = NonExistent /\ key \in DOMAIN named.c.variant_constructors
  THEN Give(named.c, named.c.variant_constructors[key]) ELSE named
ConstructorOf(type, x) ==
  LET variants == SelectSeq(type.val.args, LAMBDA v : v.name = Plain(x.of))
  IN CASE type.val.kind # "Enum" -> Rejected(type.c, <<>>, "function not found")
       [] variants = <<>> -> Rejected(type.c, <<>>, "no variant")
       [] OTHER -> Checked(SynthesizeAll(type.c, x.args), variants[1].args, type.val, "payload")
synthesize_Constructor(c, x) ==
  ConstructorOf(EnumNamed(FoundOrMade(c, x, Plain(x.name.base), "enum"), <<x.name, Plain(x.of)>>), x)

\* The call resolves to the copy of this name; its type is the result type of
\* the generic function, read again with the parameters bound.
Resolved(ret, d, bindings, type_args, args) ==
  Typed(Unguard(ret.c), ret.val,
        Append(args.pending, [def |-> d, bindings |-> bindings, given |-> args.val, ret |-> ret.val,
                              name |-> to_generic_name(d.name, type_args),
                              key |-> MonomorphizedKey(d.name, type_args)]))
ResolvedCall(args, d, bindings) ==
  Resolved(resolve_type_expr(Guard(args.c, bindings), d.ret), d, bindings,
           [i \in DOMAIN d.params |-> bindings[d.params[i]]], args)

\* With explicit type arguments the parameters are bound in a scope, in which
\* the arguments are looked at, each against its parameter's type read there.
RECURSIVE ExplicitArgs(_, _, _)
Fitted(arg, expected) ==
  IF compatible_to_from(expected.val, arg.val)
  THEN Typed(expected.c, resolve_literal_type(arg.val, expected.val), arg.pending)
  ELSE Rejected(expected.c, arg.pending, "argument")
ExplicitArg(arg, part) == Fitted(arg, resolve_type_expr(arg.c, part.types[1]))
ExplicitRest(first, xs, parts) == Joined(first, ExplicitArgs(first.c, xs, parts))
ExplicitArgs(c, xs, parts) ==
  IF xs = <<>> THEN Typed(c, <<>>, <<>>)
  ELSE ExplicitRest(ExplicitArg(synthesize(c, Head(xs)), Head(parts)), Tail(xs), Tail(parts))

ExplicitCall(args, d, bindings) ==
  IF Unresolved(args.val) THEN Typed(args.c, Poisoned, args.pending)
  ELSE ResolvedCall(args, d, bindings)
Outside(args) == [args EXCEPT !.c = Unguard(@)]
ExplicitWith(targs, d, x) ==
  IF Unresolved(targs.val) THEN Typed(targs.c, Poisoned, <<>>)
  ELSE ExplicitCall(Outside(ExplicitArgs(Guard(targs.c, Binding(d.params, targs.val)), x.args, d.parts)),
                    d, Binding(d.params, targs.val))

\* Without them the types of the arguments, literals at their defaults, decide.
Tried(args, patterns, unified) ==
  [args EXCEPT !.c.inferences = @ \cup
     {[patterns |-> patterns, given |-> args.val, unified |-> unified]}]
InferredCall(args, d, unified) ==
  CASE ~unified.ok -> Rejected(args.c, args.pending, "argument")
    [] ToSet(d.params) \ DOMAIN unified.bindings # {} -> Rejected(args.c, args.pending, "not inferred")
    [] OTHER -> ResolvedCall(args, d, unified.bindings)
InferredFrom(args, d, patterns, unified) == InferredCall(Tried(args, patterns, unified), d, unified)
Inferred(args, d, patterns) ==
  IF Unresolved(args.val) THEN Typed(args.c, Poisoned, args.pending)
  ELSE InferredFrom(args, d, patterns, UnifyAll(patterns, args.val, <<>>))
Defaulted(args) == [args EXCEPT !.val = [i \in DOMAIN @ |-> default_polymorphic_type(@[i])]]

\* A generic function whose definition has not been visited has no type yet,
\* and std::get of its absent function type throws.
synthesize_generic_call(c, x, d) ==
  CASE x.name \notin DOMAIN c.templates -> Typed([c EXCEPT !.fault = "abort"], Poisoned, <<>>)
    [] Len(x.args) # Len(d.parts) -> Rejected(c, <<>>, "arguments")
    [] x.targs = <<>> -> Inferred(Defaulted(SynthesizeAll(c, x.args)), d, Params(c.templates[x.name]))
    [] Len(x.targs) # Len(d.params) -> Rejected(c, <<>>, "type arguments")
    [] OTHER -> ExplicitWith(Resolve(c, x.targs, TRUE), d, x)

\* Fewer arguments than parameters make a partial application.
Partial(type, n) == Node("Function", Plain(""), SubSeq(type.args, n + 1, Len(type.args)))
NormalCall(args, type, n) ==
  CASE type.kind # "Function" -> Rejected(args.c, args.pending, "not a function")
    [] n >= Len(type.args) -> Rejected(args.c, args.pending, "arguments")
    [] \E i \in 1 .. n : ~compatible_to_from(type.args[i], args.val[i]) ->
         Typed(Error(args.c, "argument").c, Last(type.args), args.pending)
    [] OTHER -> Typed(args.c, IF n = Len(type.args) - 1 THEN Last(type.args) ELSE Partial(type, n),
                      args.pending)

\* A variable, or a variant without payload, written without parentheses.
UnitVariant(c, key) ==
  key \in DOMAIN c.variant_constructors /\
  \E v \in ToSet(c.variant_constructors[key].args) : v.name = key[2] /\ v.args = <<>>
VariableOf(c, type, key) ==
  CASE type # NonExistent -> Typed(c, type, <<>>)
    [] UnitVariant(c, key) -> Typed(c, c.variant_constructors[key], <<>>)
    [] OTHER -> Typed([c EXCEPT !.fault = "abort"], Poisoned, <<>>)
AddrOf(arg) == [arg EXCEPT !.val = Pointer(@)]
TupleFrom(args) ==
  [args EXCEPT !.val = IF Unresolved(@) THEN Poisoned ELSE Node("Tuple", Plain(""), @)]

synthesize(c, x) ==
  CASE c.fault # "none" -> Typed(c, Poisoned, <<>>)
    [] x.kind = "number" -> Typed(c, Integer, <<>>)
    [] x.kind = "variable" -> VariableOf(c, recursive_try_get(c.id_to_type, x.name), <<x.name, Plain(x.of)>>)
    [] x.kind = "addr" -> AddrOf(synthesize(c, x.args[1]))
    [] x.kind = "tuple" -> TupleFrom(SynthesizeAll(c, x.args))
    [] x.kind = "struct" -> LiteralWith(SynthesizeAll(c, x.args), x)
    [] x.kind = "constructor" -> synthesize_Constructor(c, x)
    [] x.kind = "call" /\ x.name \in DOMAIN c.generic_funcs ->
         synthesize_generic_call(c, x, c.generic_funcs[x.name])
    [] OTHER -> NormalCall(SynthesizeAll(c, x.args), recursive_try_get(c.id_to_type, x.name), Len(x.args))

-----------------------------------------------------------------------------
(* Statements, prototypes and copies.                                      *)

\* The annotation is resolved before the value, and again for the variable.
Declared(value, name, to) ==
  [value EXCEPT !.c = [@ EXCEPT !.id_to_type = registerNameT(@, Plain(name), to),
     !.errors = @ \cup IF Poisoned \in {to, value.val} \/ compatible_to_from(to, value.val)
                       THEN {} ELSE {"declared type"}]]
Annotated(value, annotated, name) == Declared([value EXCEPT !.c = annotated.c], name, annotated.val[1])
VarOf(value, s) ==
  IF s.ann = <<>> THEN Declared(value, s.name, default_polymorphic_type(value.val))
  ELSE Annotated(value, Resolve(value.c, s.ann, FALSE), s.name)

ReturnOf(value, ret) ==
  IF compatible_to_from(ret, value.val) THEN value ELSE [value EXCEPT !.c = Error(@, "returned type").c]

StatementOf(value, s, ret) == IF s.kind = "let" THEN VarOf(value, s) ELSE ReturnOf(value, ret)
visit_Statement(c, s, ret) == StatementOf(synthesize(Resolve(c, s.ann, FALSE).c, s.value), s, ret)

\* Into the scope of a function: its type parameters, its parameters, and in
\* the scope around it its name.
TypesOf(parts) == [i \in DOMAIN parts |-> parts[i].types[1]]
FunctionType(params, ret) == Give(ret.c, Node("Function", Plain(""), Append(params.val, ret.val)))
Signature(params, ret) == FunctionType(params, resolve_type_expr(params.c, ret))
SignatureOf(c, d) == Signature(Resolve(c, TypesOf(d.parts), FALSE), d.ret)

Locals(parts, type) ==
  [n \in {Plain(part.name) : part \in ToSet(parts)} |->
     type.args[CHOOSE i \in DOMAIN parts : Plain(parts[i].name) = n]]
Entered(proto, d) ==
  Give([proto.c EXCEPT !.id_to_type = Append(registerNameT(Front(@), d.name, proto.val),
                                             Locals(d.parts, proto.val))], proto.val)
visit_PrototypeAST(c, d) ==
  Entered(SignatureOf(RegisterTypes(enter_new_scope(c), [n \in ToSet(d.params) |-> TypeParam(n)]), d), d)

Registered(c, d, type) == [c EXCEPT !.id_to_type = registerNameT(@, d.name, type)]
pre_register_function(proto, d) == Registered(proto.c, d, proto.val)

RECURSIVE clone_expr(_, _)
clone_expr(x, bindings) ==
  [x EXCEPT !.targs = [i \in DOMAIN @ |-> clone_type_expr(@[i], bindings)],
            !.args = [i \in DOMAIN @ |-> clone_expr(@[i], bindings)]]
clone_block(body, bindings) ==
  [i \in DOMAIN body |->
     [body[i] EXCEPT !.ann = [j \in DOMAIN @ |-> clone_type_expr(@[j], bindings)],
                     !.value = clone_expr(@, bindings)]]
clone_func(d, name, bindings) ==
  [CloneTypeDef(d, name, bindings) EXCEPT !.ret = clone_type_expr(@, bindings),
                                          !.body = clone_block(@, bindings)]

-----------------------------------------------------------------------------
(* The passes.                                                             *)

Init ==
  /\ program \in Programs
  /\ pass = "types" /\ at = 1
  /\ checker = [typename_to_type |-> <<[n \in {Plain(k) : k \in ScalarKinds} |-> Scalar(n.base)]>>,
                id_to_type |-> << <<>> >>,
                variant_constructors |-> <<>>,
                generic_types |-> <<>>, generic_funcs |-> <<>>,
                templates |-> <<>>,   \* the types of the generic functions visited
                instances |-> {},     \* monomorphized_struct_defs, _enum_defs
                inferences |-> {},    \* what unify was asked, and said
                depth |-> 0, errors |-> {}, fault |-> "none"]
  /\ stack = <<>> /\ instantiated_functions = {}
  /\ monomorphized_defs = <<>> /\ calls = <<>>

Definition == program[at]
IsGeneric(d) == d.params # <<>>
Now(which) == pass = which /\ at <= Len(program) /\ stack = <<>> /\ checker.fault = "none"
Onwards == at' = at + 1 /\ UNCHANGED <<program, pass>>
NothingCopied == UNCHANGED <<stack, instantiated_functions, monomorphized_defs, calls>>

RegisterType ==
  /\ Now("types") /\ Onwards /\ NothingCopied
  /\ LET d == Definition
     IN checker' = CASE d.kind = "func" -> checker
                     [] d.kind = "alias" -> visit_TypeAliasDefAST(checker, d)
                     [] IsGeneric(d) -> [checker EXCEPT !.generic_types = (d.name :> d) @@ @]
                     [] OTHER -> VisitTypeDef(checker, d)

PreRegister ==
  /\ Now("functions") /\ Onwards /\ NothingCopied
  /\ LET d == Definition
     IN checker' = CASE d.kind # "func" -> checker
                     [] IsGeneric(d) -> [checker EXCEPT !.generic_funcs = (d.name :> d) @@ @]
                     [] OTHER -> pre_register_function(SignatureOf(checker, d), d)

\* The type definitions are done with, but an enum without type parameters is
\* visited again.
PassType ==
  /\ Now("bodies") /\ Definition.kind # "func" /\ Onwards /\ NothingCopied
  /\ checker' = IF Definition.kind = "enum" /\ ~IsGeneric(Definition)
                THEN VisitTypeDef(checker, Definition) ELSE checker

\* Of a generic function only the prototype is looked at.
VisitTemplate ==
  /\ Now("bodies") /\ Definition.kind = "func" /\ IsGeneric(Definition)
  /\ Onwards /\ NothingCopied
  /\ \E proto \in {visit_PrototypeAST(checker, Definition)} :
       checker' = [exit_new_scope(proto.c) EXCEPT !.templates = (Definition.name :> proto.val) @@ @]

Frame(type, body) == [ret |-> Last(type.args), todo |-> body, pending |-> <<>>]

EnterFunction ==
  /\ Now("bodies") /\ Definition.kind = "func" /\ ~IsGeneric(Definition)
  /\ \E proto \in {visit_PrototypeAST(checker, Definition)} :
       checker' = proto.c /\ stack' = <<Frame(proto.val, Definition.body)>>
  /\ Onwards /\ UNCHANGED <<instantiated_functions, monomorphized_defs, calls>>

NextPass ==
  /\ pass # "done" /\ at > Len(program) /\ stack = <<>> /\ checker.fault = "none"
  /\ pass' = [types |-> "functions", functions |-> "bodies", bodies |-> "done"][pass]
  /\ at' = 1 /\ UNCHANGED <<program, checker>> /\ NothingCopied

Busy == stack # <<>> /\ checker.fault = "none" /\ UNCHANGED <<program, pass, at>>
Top == stack[Len(stack)]
WithTop(frame) == [stack EXCEPT ![Len(stack)] = frame]

VisitStatement ==
  /\ Busy /\ Top.pending = <<>> /\ Top.todo # <<>>
  /\ \E visited \in {visit_Statement(checker, Head(Top.todo), Top.ret)} :
       /\ checker' = visited.c
       /\ stack' = WithTop([Top EXCEPT !.todo = Tail(@), !.pending = visited.pending])
  /\ UNCHANGED <<instantiated_functions, monomorphized_defs, calls>>

\* visit(CallExprAST) of a generic call: to a copy there is already ...
ReuseCopy ==
  /\ Busy /\ Top.pending # <<>> /\ Head(Top.pending).key \in instantiated_functions
  /\ calls' = Append(calls, Head(Top.pending))
  /\ stack' = WithTop([Top EXCEPT !.pending = Tail(@)])
  /\ UNCHANGED <<checker, instantiated_functions, monomorphized_defs>>

\* Slip: the copy is not remembered while it is being checked.
RememberSlip(keys, key) == keys
Remember(keys, key) == keys \cup {key}

\* ... or to one that is made now, remembered, and checked before anything else.
MakeCopy ==
  /\ Busy /\ Top.pending # <<>> /\ Len(stack) < MaxDepth
  /\ \E call \in {Head(Top.pending)} : \E copy \in {clone_func(call.def, call.name, call.bindings)} :
     \E proto \in {visit_PrototypeAST(checker, copy)} :
       /\ call.key \notin instantiated_functions
       /\ instantiated_functions' = Remember(instantiated_functions, call.key)
       /\ calls' = Append(calls, call)
       /\ checker' = proto.c
       /\ stack' = Append(WithTop([Top EXCEPT !.pending = Tail(@)]), Frame(proto.val, copy.body))
       /\ monomorphized_defs' = Append(monomorphized_defs,
            [name |-> call.name, params |-> Params(proto.val), ret |-> Last(proto.val.args)])

\* Copies within copies without end: the native stack runs out.
Overflow ==
  /\ Busy /\ Top.pending # <<>> /\ Len(stack) = MaxDepth
  /\ Head(Top.pending).key \notin instantiated_functions
  /\ checker' = [checker EXCEPT !.fault = "overflow"] /\ NothingCopied

LeaveFunction ==
  /\ Busy /\ Top.pending = <<>> /\ Top.todo = <<>>
  /\ checker' = exit_new_scope(checker) /\ stack' = Front(stack)
  /\ UNCHANGED <<instantiated_functions, monomorphized_defs, calls>>

Next ==
  \/ RegisterType \/ PreRegister \/ PassType \/ VisitTemplate \/ EnterFunction \/ NextPass
  \/ VisitStatement \/ ReuseCopy \/ MakeCopy \/ Overflow \/ LeaveFunction

Spec == Init /\ [][Next]_vars

-----------------------------------------------------------------------------
(* Properties.                                                             *)

Accepted == pass = "done" /\ checker.errors = {} /\ checker.fault = "none"

\* In a program the checker accepts, every call of a generic function was given
\* a name that some copy has: what is remembered by key is what is called by
\* name (Monomorphizer::try_instantiate_func, synthesize_generic_call).
EveryCallHasItsBody ==
  Accepted => \A i \in DOMAIN calls : \E j \in DOMAIN monomorphized_defs :
                monomorphized_defs[j].name = calls[i].name

\* The copy agrees with the call: it takes the arguments, once the literals
\* among them have settled, and returns the type the caller went on with.  The
\* call computed both from the prototype with the parameters bound in a scope,
\* the copy from a prototype rewritten by clone_type_expr.
CalleesTakeWhatTheyAreGiven ==
  Accepted => \A i \in DOMAIN calls, j \in DOMAIN monomorphized_defs :
    calls[i].name = monomorphized_defs[j].name =>
      /\ Len(calls[i].given) = Len(monomorphized_defs[j].params)
      /\ \A k \in DOMAIN calls[i].given :
           compatible_to_from(monomorphized_defs[j].params[k], calls[i].given[k])
      /\ calls[i].ret = monomorphized_defs[j].ret

\* The type an expression stands for in a program, read without scopes.
RECURSIVE Meaning(_, _)
MeaningOf(d, type_args) ==
  Built(d, IF d.params = <<>> THEN d.name ELSE to_generic_name(d.name, type_args),
        [i \in DOMAIN d.parts |-> [j \in DOMAIN d.parts[i].types |->
           Meaning(d.parts[i].types[j],
             [n \in ToSet(d.params) |-> type_args[CHOOSE k \in DOMAIN d.params : d.params[k] = n]])]])
Defined(n) == program[CHOOSE i \in DOMAIN program : program[i].name = n]
Meaning(x, bindings) ==
  LET parts == [i \in DOMAIN x.args |-> Meaning(x.args[i], bindings)]
  IN CASE x.kind \notin Expressions -> x
       [] x.kind = "name" /\ x.name \in DOMAIN bindings -> bindings[x.name]
       [] x.kind = "name" /\ x.name.base \in ScalarKinds -> Scalar(x.name.base)
       [] x.kind = "name" /\ Defined(x.name).kind = "alias" ->
            Meaning(Defined(x.name).parts[1].types[1], <<>>)
       [] x.kind = "name" -> MeaningOf(Defined(x.name), <<>>)
       [] x.kind = "app" -> MeaningOf(Defined(x.name), parts)
       [] OTHER -> [Node(TypeOf[x.kind], x.name, parts) EXCEPT !.linear = x.linear]

\* The parts of an instance of a generic type are those of its definition with
\* its own arguments for the parameters, whatever parameters of whatever
\* functions and types were in scope when the instance happened to be needed.
InstancesAreHygienic ==
  \A i \in checker.instances :
    LET name == to_generic_name(i.def.name, i.type_args)
        root == checker.typename_to_type[1]
    IN name \in DOMAIN root => root[name] = MeaningOf(i.def, i.type_args)

RECURSIVE Subterms(_)
Subterms(t) == {t} \cup UNION {Subterms(t.args[i]) : i \in DOMAIN t.args}
Makes(bindings, tried) ==
  \A i \in DOMAIN tried.patterns : Same(substitute(tried.patterns[i], bindings), tried.given[i])

\* unify succeeds exactly if some binding of the parameters turns the patterns
\* into the types of the arguments, and what it binds them to does.
InferenceIsExact ==
  \A tried \in checker.inferences :
    LET open == {t.name : t \in {u \in UNION {Subterms(tried.patterns[i]) : i \in DOMAIN tried.patterns} :
                                   u.kind = "TypeParam"}}
        closed == UNION {Subterms(tried.given[i]) : i \in DOMAIN tried.given}
    IN IF tried.unified.ok THEN Makes(tried.unified.bindings, tried)
       ELSE \A bindings \in [open -> closed] : ~Makes(bindings, tried)

RECURSIVE Applied(_)
Applied(x) == {y.name : y \in {z \in {x} : z.kind = "app"}} \cup UNION {Applied(x.args[i]) : i \in DOMAIN x.args}
RECURSIVE Within(_)
Within(x) == {x} \cup UNION {Within(x.args[i]) : i \in DOMAIN x.args}
CallsOf(d) == {x \in UNION {Within(d.body[i].value) : i \in DOMAIN d.body} : x.kind = "call"}
Generic == {d \in ToSet(program) : IsGeneric(d)}
Names == {d.name : d \in ToSet(program)}

TypeUses == UNION {{d.name} \X UNION {UNION {Applied(part.types[j]) : j \in DOMAIN part.types} :
                                         part \in ToSet(d.parts)} : d \in Generic}
CallUses == UNION {{<<d.name, x.name>> : x \in CallsOf(d)} : d \in Generic}
Grows(x) == IF x.targs # <<>> THEN \E i \in DOMAIN x.targs : x.targs[i].kind # "name"
            ELSE \E i \in DOMAIN x.args : x.args[i].kind # "variable"
GrowingUses == UNION {{<<d.name, x.name>> : x \in {y \in CallsOf(d) : Grows(y)}} : d \in Generic}
Closed(set, uses) == \A use \in uses : use[1] \in set => use[2] \in set
Reaches(n, m, uses) == \A set \in SUBSET Names : n \in set /\ Closed(set, uses) => m \in set

Expanding == \/ \E use \in TypeUses : Reaches(use[2], use[1], TypeUses)
             \/ \E use \in GrowingUses : Reaches(use[2], use[1], CallUses)
CallsForward == \E i, j \in DOMAIN program : i < j /\ IsGeneric(program[j]) /\
                  \E x \in CallsOf(program[i]) : x.name = program[j].name

Variants == {x \in UNION {UNION {Within(d.body[i].value) : i \in DOMAIN d.body} : d \in ToSet(program)} :
               x.kind = "variable" /\ x.of # ""}
VariantOfNoInstance == \E x \in Variants : \A i \in checker.instances : i.def.name # x.name

\* The compiler runs out of stack only for a generic type that contains itself
\* or a generic function that calls itself at an ever bigger type, and dies only
\* of a call of a generic function that stands further down, or of a variant
\* named before its generic enum has an instance: plain recursion of generic
\* functions, alone or in a circle, comes to an end.
FaultsHaveTheirCause ==
  /\ checker.fault = "overflow" => Expanding
  /\ checker.fault = "abort" => CallsForward \/ VariantOfNoInstance
====
