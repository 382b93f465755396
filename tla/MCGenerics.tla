---- MODULE MCGenerics ----
(***************************************************************************)
(* Programs for Generics.                                                  *)
(***************************************************************************)
EXTENDS Generics

N(n) == Node("name", Plain(n), <<>>)
App(n, args) == Node("app", Plain(n), args)
Ptr(t) == Node("ptr", Plain(""), <<t>>)
LinearPtr(t) == [Ptr(t) EXCEPT !.linear = TRUE]
Tuple(ts) == Node("tuple", Plain(""), ts)
Array(n, t) == Node("array", Plain(n), <<t>>)
Fn(t, u) == Node("fn", Plain(""), <<t, u>>)
T == N("T")
U == N("U")
I == N("i32")
B == N("bool")

Definitions(kind, name, params, parts, ret, body) ==
  [kind |-> kind, name |-> Plain(name), params |-> [i \in DOMAIN params |-> Plain(params[i])],
   parts |-> parts, ret |-> ret, body |-> body]
Part(name, types) == [name |-> name, types |-> types]
Struct(name, params, types) ==
  Definitions("struct", name, params, [i \in DOMAIN types |-> Part("m", <<types[i]>>)], N("unit"), <<>>)
Enum(name, params, variants) == Definitions("enum", name, params, variants, N("unit"), <<>>)
Alias(name, type) == Definitions("alias", name, <<>>, <<Part("", <<type>>)>>, N("unit"), <<>>)
Func(name, params, parts, ret, body) == Definitions("func", name, params, parts, ret, body)

Expr(kind, name, of, targs, args) ==
  [kind |-> kind, name |-> name, of |-> of, targs |-> targs, args |-> args]
Var(n) == Expr("variable", Plain(n), "", <<>>, <<>>)
Unit(e, v) == Expr("variable", Plain(e), v, <<>>, <<>>)
Number == Expr("number", Plain(""), "", <<>>, <<>>)
Addr(x) == Expr("addr", Plain(""), "", <<>>, <<x>>)
Pack(xs) == Expr("tuple", Plain(""), "", <<>>, xs)
Call(f, targs, args) == Expr("call", Plain(f), "", targs, args)
Literal(s, targs, args) == Expr("struct", Plain(s), "", targs, args)
\* The qualifier of a constructor is kept as it is written.
RECURSIVE Written(_)
Written(t) == Tree(IF t.kind = "ptr" THEN "Pointer" ELSE t.name.base,
                   [i \in DOMAIN t.args |-> Written(t.args[i])])
Constructor(e, v, targs, args) ==
  Expr("constructor", Tree(e, [i \in DOMAIN targs |-> Written(targs[i])]), v, targs, args)
Let(name, ann, x) == [kind |-> "let", name |-> name, ann |-> ann, value |-> x]
Return(x) == [kind |-> "return", name |-> "", ann |-> <<>>, value |-> x]

x == Var("x")
y == Var("y")
Using(parts, body) == Func("use", <<>>, parts, N("unit"), body)

Box == Struct("Box", <<"T">>, <<T>>)
Opt == Enum("Opt", <<"T">>, <<Part("Some", <<T>>), Part("None", <<>>)>>)
Swap == Struct("Swap", <<"U", "T">>, <<App("Box", <<T>>), Ptr(U)>>)
IntBox == Alias("IntBox", App("Box", <<I>>))
Flag == Struct("Flag", <<>>, <<B, N("IntBox")>>)
Color == Enum("Color", <<>>, <<Part("Red", <<>>), Part("Dyed", <<N("Flag")>>)>>)

-----------------------------------------------------------------------------
(* What can be inferred: two parameters against two arguments.             *)
Patterns1 == {T, U, I, Ptr(T), Tuple(<<T, U>>), Fn(T, U), App("Box", <<T>>), Array("2", T)}
Patterns2 == {U, Ptr(T), Tuple(<<T, U>>)}
Types1 == {I, Ptr(Ptr(B)), Tuple(<<I, B>>), Fn(I, Ptr(I)), App("Box", <<I>>), Array("2", I), Array("3", I)}
Types2 == {I, Ptr(I), Tuple(<<I, Ptr(I)>>)}
Inferring ==
  {<<Box, Func("f", <<"T", "U">>, <<Part("x", <<p>>), Part("y", <<q>>)>>, N("unit"), <<>>),
     Using(<<Part("x", <<a>>), Part("y", <<b>>)>>, <<Let("r", <<>>, Call("f", <<>>, <<x, y>>))>>)>> :
     p \in Patterns1, q \in Patterns2, a \in Types1, b \in Types2}

-----------------------------------------------------------------------------
(* Generic functions over generic types, called twice.                     *)
BoxOf(t, v) == Literal("Box", <<t>>, <<v>>)
Bodies ==
  {[ret |-> T, body |-> <<Return(x)>>],
   [ret |-> App("Box", <<T>>), body |-> <<Return(BoxOf(T, x))>>],
   [ret |-> App("Box", <<Ptr(T)>>), body |-> <<Let("y", <<>>, Addr(x)), Return(BoxOf(Ptr(T), y))>>],
   [ret |-> App("Opt", <<App("Box", <<T>>)>>),
    body |-> <<Let("y", <<App("Box", <<T>>)>>, BoxOf(T, x)),
               Return(Constructor("Opt", "Some", <<App("Box", <<T>>)>>, <<y>>))>>],
   [ret |-> App("Swap", <<Ptr(T), T>>),
    body |-> <<Let("y", <<>>, BoxOf(T, x)), Let("z", <<>>, Addr(x)), Let("w", <<>>, Addr(Var("z"))),
               Return(Literal("Swap", <<Ptr(T), T>>, <<y, Var("w")>>))>>],
   [ret |-> T, body |-> <<Return(Call("g", <<>>, <<x>>))>>],
   [ret |-> T, body |-> <<Let("y", <<>>, Call("g", <<App("Box", <<T>>)>>, <<BoxOf(T, x)>>)), Return(x)>>],
   [ret |-> Tuple(<<T, T>>), body |-> <<Return(Pack(<<Call("g", <<T>>, <<x>>), x>>))>>],
   [ret |-> T, body |-> <<Let("y", <<>>, Call("f", <<>>, <<x>>)), Return(x)>>],
   [ret |-> T, body |-> <<Let("y", <<>>, Call("f", <<>>, <<Addr(x)>>)), Return(x)>>]}
GBodies ==
  {<<Return(x)>>,
   <<Let("y", <<>>, Call("f", <<T>>, <<x>>)), Return(x)>>,
   <<Let("y", <<>>, Call("f", <<Ptr(T)>>, <<Addr(x)>>)), Return(x)>>,
   <<Let("y", <<>>, Call("h", <<>>, <<>>)), Return(x)>>}
Uses ==
  {Call("f", <<>>, <<x>>), Call("f", <<I>>, <<Number>>), Call("f", <<B>>, <<y>>),
   Call("f", <<>>, <<Pack(<<Number, y>>)>>), Call("f", <<>>, <<Call("g", <<>>, <<x>>)>>),
   Call("f", <<N("IntBox")>>, <<BoxOf(I, x)>>)}
f(b) == Func("f", <<"T">>, <<Part("x", <<T>>)>>, b.ret, b.body)
g(body) == Func("g", <<"T">>, <<Part("x", <<T>>)>>, T, body)
h == Func("h", <<>>, <<>>, N("unit"), <<>>)
Main(s, t) == Using(<<Part("x", <<I>>), Part("y", <<B>>)>>, <<Let("r", <<>>, s), Let("s", <<>>, t)>>)
Types == <<Box, Opt, Swap, IntBox, Flag, Color>>
Calling ==
  {Types \o <<h, g(b), f(a), Main(s, t)>> : a \in Bodies, b \in GBodies, s \in Uses, t \in Uses}

-----------------------------------------------------------------------------
(* Types that contain themselves, types in use, the order of definitions.  *)
Node1 == Struct("Node", <<"T">>, <<Ptr(App("Node", <<T>>))>>)
Even == Struct("Even", <<"T">>, <<Ptr(App("Odd", <<T>>))>>)
Odd == Struct("Odd", <<"T">>, <<App("Opt", <<App("Even", <<T>>)>>)>>)
Holding(t) == <<Using(<<Part("x", <<I>>)>>, <<Let("y", <<t>>, x)>>)>>
Some(v) == Constructor("Opt", "Some", <<>>, <<v>>)
SomeOf(t, v) == Constructor("Opt", "Some", <<t>>, <<v>>)
Single ==
  {Types \o ds \o Holding(t) : ds \in {<<Node1>>, <<Even, Odd>>},
     t \in {App("Node", <<I>>), App("Even", <<I>>), App("Opt", <<App("Odd", <<B>>)>>), I, App("Box", <<I, I>>), N("Odd")}}
  \cup {<<Opt, Node1, Func("f", <<"T">>, <<Part("x", <<App("Node", <<T>>)>>)>>, T, <<>>)>> \o Holding(I)}
  \cup {<<Opt, Func("f", <<"T">>, <<Part("x", <<App("Opt", <<T>>)>>)>>, T, <<>>)>> \o Holding(I)}
  \cup {<<Opt, h, Using(<<Part("x", <<I>>), Part("y", <<B>>)>>, body)>> :
         body \in {<<s, t, u>> : s, t, u \in
           {Let("a", <<App("Opt", <<I>>)>>, Some(x)), Let("b", <<App("Opt", <<B>>)>>, Some(y)),
            Let("c", <<>>, SomeOf(I, Number)), Let("d", <<>>, Some(Number)), Let("e", <<>>, Call("h", <<>>, <<x>>)),
            Let("g", <<>>, Unit("Opt", "None"))}}}
  \cup {<<Color, Flag, IntBox, Box, h>>, <<Box, IntBox, Flag, Color, h>>}
Orders(defs) == {[i \in DOMAIN defs |-> defs[p[i]]] : p \in {q \in [DOMAIN defs -> DOMAIN defs] : ToSet(q) = DOMAIN defs}}
Ordered == UNION {Orders(<<f(b), g(<<Return(x)>>), Box, Main(Call("f", <<>>, <<x>>), Call("g", <<>>, <<y>>))>>) : b \in Bodies}

MCPrograms == Inferring \cup Calling \cup Single \cup Ordered

-----------------------------------------------------------------------------
(* Owning pointers and plain ones as type arguments.                       *)
Pointers == {Ptr(I), LinearPtr(I)}
MCOwning ==
  {<<Func("f", <<"T">>, <<Part("x", <<T>>)>>, T, <<Return(x)>>),
     Using(<<Part("x", <<a>>), Part("y", <<b>>)>>,
           <<Let("r", <<>>, Call("f", <<>>, <<x>>)), Let("s", <<>>, Call("f", <<>>, <<y>>))>>)>> :
     a \in Pointers, b \in Pointers}
====
