--------------------------- MODULE LinearSoundness ---------------------------
(***************************************************************************)
(* Does the linear checker keep its promise?  A step is one statement of a *)
(* function: the checker's handler for it and what the code generated for  *)
(* it does in one execution happen together.  The function is any one the  *)
(* parser and the type checker let through: names are declared before they *)
(* are used, statements get operands of the right type, constructs nest.   *)
(***************************************************************************)
EXTENDS LinearTypeChecker, Ownership

CONSTANTS Dialects, \* what one function may be made of: kinds of statement and
                    \* types; every function keeps to one of them
          Naming,   \* "unique", "scoped" or "any": which names let may reuse
          Lexical,  \* names end with the block that declares them
          Element,  \* fields of a literal in order, by its type
          Tuples    \* the types that can be destructured

OpKinds == {"let", "call", "move", "field", "deref_move", "pack", "destructure",
            "free", "free_inner", "use", "store", "store_field", "addr",
            "early_return", "other", "value", "discard",
            "if", "case", "loop"}

ASSUME ProgramAssumption ==
  /\ Dialects \subseteq [ops : SUBSET OpKinds, types : SUBSET Types]
  /\ Naming \in {"unique", "scoped", "any"}
  /\ Lexical \in BOOLEAN
  /\ DOMAIN Element \subseteq Types
  /\ \A t \in DOMAIN Element :
       /\ Element[t] \in Seq(Fields \ {Star})
       /\ \A i \in DOMAIN Element[t] : FieldType[t][Element[t][i]] \in Types
  /\ \A t \in Types : \A f \in Fields :
       FieldType[t][f] # NoType => Layout[FieldType[t][f]] # {}
  /\ Tuples \subseteq DOMAIN Element

VARIABLES dialect,  \* the one the function keeps to
          visible,  \* names declared in an open block
          outer,    \* visible at the start of each open construct
          sealed    \* the function's last statement has been met

programVars == <<dialect, visible, outer, sealed>>
vars == <<checkerVars, ownVars, programVars>>

Declared == {v \in Vars : typ[v] # NoType}

\* Names in scope have a type; the three stacks rise and fall together.
ProgramTypeOK ==
  /\ visible \subseteq Declared
  /\ outer \in Seq(SUBSET Declared)
  /\ Len(outer) = Len(frames) /\ Len(path) = Len(frames)
  /\ phase = "start" => frames = <<>>
  /\ sealed \in BOOLEAN

Usable   == IF Lexical THEN visible ELSE Declared
MayName(v) == CASE Naming = "unique" -> v \notin Declared
                [] Naming = "scoped" -> v \notin visible
                [] OTHER             -> TRUE

Declares(V) == visible' = visible \cup V /\ UNCHANGED <<dialect, outer, sealed>>
NoDecl      == UNCHANGED programVars
Statement(op) == op \in dialect.ops /\ phase = "body" /\ ~sealed

LinearTypes == {t \in Types : t \in dialect.types /\ ContainsLinear(t)}
Pointer(t)  == t # NoType /\ Root \in Layout[t]

Variables   == {<<v, Root>> : v \in Usable}
Parts       == {p \in Usable \X (Fields \ {Star}) :
                  FieldType[typ[p[1]]][p[2]] # NoType}
\* What a call, a literal or a return may name as an operand.
Operands    == Variables \cup (IF "field" \in dialect.ops THEN Parts ELSE {})
OneOperand  == {<<>>} \cup {<<p>> : p \in Operands}
Arguments   == IF "call" \in dialect.ops
               THEN OneOperand \cup {<<p, q>> : p, q \in Operands}
               ELSE {<<>>}

ProgramInit == dialect \in Dialects /\ visible = {} /\ outer = <<>> /\ sealed = FALSE
Init == CheckerInit /\ OwnInit /\ ProgramInit

-----------------------------------------------------------------------------
(* Bindings *)

\* The function starts with at most one linear parameter, owned by it.
BeginFunction(params, val) ==
  /\ CheckFunc(params)
  /\ typ' = [v \in Vars |-> IF v \in DOMAIN params THEN params[v] ELSE NoType]
  /\ env' = [v \in Vars |-> IF v \in DOMAIN params THEN val ELSE NoValue]
  /\ heap' = HeapWith(heap, CellsIn(val))
  /\ UNCHANGED <<content, path, exited, faults>>
  /\ visible' = DOMAIN params /\ UNCHANGED <<dialect, outer, sealed>>

\* let v = alloc<T>(n), let v = f(ps)
LetFresh(v, t, ps, val) ==
  /\ Statement("let") /\ MayName(v)
  /\ CheckVarDef(v, t, ps) /\ RunVarDef(v, t, ps, val) /\ Declares({v})

\* let v = x
LetMove(v, p) ==
  /\ Statement("move") /\ MayName(v)
  /\ CheckVarDef(v, TypeAt(p), <<p>>) /\ RunMove(v, p) /\ Declares({v})

\* let v = x.f
LetField(v, p) ==
  /\ Statement("field") /\ MayName(v)
  /\ CheckVarDef(v, TypeAt(p), <<p>>) /\ RunMove(v, p) /\ Declares({v})

\* let v = *x
LetDeref(v, x) ==
  /\ Statement("deref_move") /\ MayName(v) /\ Star \in Fields
  /\ FieldType[typ[x]][Star] # NoType
  /\ CheckVarDefDeref(v, FieldType[typ[x]][Star], <<x, Root>>)
  /\ RunMove(v, <<x, Star>>) /\ Declares({v})

\* let v = S { .. } or let v = (..)
LetPack(v, t, ps) ==
  /\ Statement("pack") /\ MayName(v) /\ t \in dialect.types
  /\ Len(ps) = Len(Element[t])
  /\ \A i \in DOMAIN ps : TypeAt(ps[i]) = FieldType[t][Element[t][i]]
  /\ CheckVarDef(v, t, ps) /\ RunPack(v, t, ps, Element[t]) /\ Declares({v})

\* let (a, b) = x
LetDestructure(x, dst) ==
  LET linear == {f \in DOMAIN dst : Pointer(FieldType[typ[x]][f])} IN
  /\ Statement("destructure") /\ typ[x] \in Tuples
  /\ DOMAIN dst = Range(Element[typ[x]])
  /\ \A f, g \in DOMAIN dst : dst[f] = dst[g] => f = g
  /\ \A v \in Range(dst) : MayName(v)
  /\ CheckDestructure(x, [f \in linear |-> dst[f]])
  /\ RunDestructure(x, dst) /\ Declares(Range(dst))

\* let v = if c { x } else { .. }: the value of the construct just closed.
LetValue(v, p) ==
  /\ Statement("value") /\ MayName(v)
  /\ CheckVarDef(v, TypeAt(p), <<>>) /\ RunMove(v, p) /\ Declares({v})

-----------------------------------------------------------------------------
(* Other statements *)

\* f(ps); the result, if there is one, is dropped.
Call(ps) ==
  /\ Statement("call")
  /\ CheckCallStmt(ps, FALSE) /\ RunCall(ps, NoValue) /\ NoDecl

Discard(t, val) ==
  /\ Statement("discard")
  /\ CheckCallStmt(<<>>, TRUE) /\ RunCall(<<>>, val) /\ NoDecl

Free(p) ==
  /\ Statement("free") /\ Pointer(TypeAt(p))
  /\ CheckFree(p) /\ RunFree(p) /\ NoDecl

\* free(x.f), free(*x)
FreeInner(p) ==
  /\ Statement("free_inner") /\ Pointer(TypeAt(p))
  /\ CheckFree(p) /\ RunFree(p) /\ NoDecl

\* *p, p[i], *p = 7
Use(p) ==
  /\ Statement("use") /\ Pointer(TypeAt(p))
  /\ CheckUse(p) /\ RunUse(p) /\ NoDecl

\* *x = w
StoreDeref(x, w) ==
  /\ Statement("store") /\ Star \in Fields /\ Pointer(typ[x])
  /\ FieldType[typ[x]][Star] = typ[w]
  /\ CheckStoreDeref(x, <<<<w, Root>>>>, Pointer(typ[w]))
  /\ RunStoreDeref(x, env[w][Root]) /\ NoDecl

\* b.f = w
StoreField(b, f, w) ==
  /\ Statement("store_field") /\ f # Star
  /\ FieldType[typ[b]][f] = typ[w] /\ Pointer(typ[w])
  /\ CheckStoreField(<<<<w, Root>>>>)
  /\ RunStoreField(b, f, <<w, Root>>) /\ NoDecl

AddrOf(p) ==
  /\ Statement("addr")
  /\ CheckAddrOf(Pointer(TypeAt(p))) /\ RunNothing /\ NoDecl

\* -f(x), f(x).field, alloc<T>(f(x)): the call is generated but not walked.
Other(p) ==
  /\ Statement("other")
  /\ CheckOther /\ RunCall(<<p>>, NoValue) /\ NoDecl

\* A return anywhere else.  The statements after it in its block are dead: they
\* are typed and walked like any other, and no code is emitted for them.
EarlyReturn(ps) ==
  /\ Statement("early_return")
  /\ CheckReturn(ps) /\ RunReturn(ps) /\ NoDecl

\* The return that is the function's last statement.
Return(ps) ==
  /\ phase = "body" /\ ~sealed /\ frames = <<>>
  /\ CheckReturn(ps) /\ RunReturn(ps)
  /\ sealed' = TRUE /\ UNCHANGED <<dialect, visible, outer>>

-----------------------------------------------------------------------------
(* Control flow *)

Opens  == outer' = Append(outer, visible) /\ UNCHANGED <<dialect, visible, sealed>>
Closes == /\ visible' = Last(outer) /\ outer' = Front(outer)
          /\ UNCHANGED <<dialect, sealed>>

If     == Statement("if")   /\ BeginBranch("if")   /\ RunBeginBranch /\ Opens
Case   == Statement("case") /\ BeginBranch("case") /\ RunBeginBranch /\ Opens
Loop   == Statement("loop") /\ BeginLoop           /\ RunBeginLoop   /\ Opens

Arm == /\ NextArm /\ visible' = Last(outer) /\ UNCHANGED <<dialect, outer, sealed>>
       /\ LET top == Last(frames) IN
          RunNextArm(top.kind = "case" /\ Len(top.arms) + 2 < MaxArms)
Join    == EndBranch /\ RunEndBranch /\ Closes
LoopEnd == EndLoop   /\ RunEndLoop   /\ Closes

EndFunction == /\ PopScopeAndCheck /\ RunFallOff /\ NoDecl

LetNext ==
  \E v \in Vars :
    \/ \E t \in LinearTypes, ps \in Arguments : \E val \in FreshValues(t) :
         LetFresh(v, t, ps, val)
    \/ \E p \in Variables : LetMove(v, p) \/ LetValue(v, p)
    \/ \E p \in Parts : LetField(v, p)
    \/ \E x \in {y \in Usable : Pointer(typ[y])} : LetDeref(v, x)
    \/ \E t \in DOMAIN Element :
         \E ps \in [DOMAIN Element[t] -> Operands] : LetPack(v, t, ps)

DestructureNext ==
  \E x \in Usable : typ[x] \in Tuples /\
    \E dst \in [Range(Element[typ[x]]) -> Vars] : LetDestructure(x, dst)

StatementNext ==
  \/ \E ps \in Arguments \ {<<>>} : Call(ps)
  \/ \E t \in LinearTypes : \E val \in FreshValues(t) : Discard(t, val)
  \/ \E p \in Variables : Free(p) \/ AddrOf(p) \/ Other(p)
  \/ \E p \in Parts \cup {q \in Usable \X ({Star} \cap Fields) : Pointer(TypeAt(q))} :
       FreeInner(p)
  \/ \E p \in Operands : Use(p)
  \/ \E x, w \in Usable : StoreDeref(x, w) \/ \E f \in Fields : StoreField(x, f, w)
  \/ \E ps \in OneOperand : EarlyReturn(ps) \/ Return(ps)

Next ==
  \/ BeginFunction(<<>>, NoValue)
  \/ \E v \in Vars, t \in LinearTypes : \E val \in FreshValues(t) :
       BeginFunction([x \in {v} |-> t], val)
  \/ LetNext \/ DestructureNext \/ StatementNext
  \/ If \/ Case \/ Loop \/ Arm \/ Join \/ LoopEnd
  \/ EndFunction

Spec == Init /\ [][Next]_vars

-----------------------------------------------------------------------------
(* Properties *)

TypeOK == CheckerTypeOK /\ OwnTypeOK /\ ProgramTypeOK

Accepted == phase = "done" /\ errors = {}

\* "Linear pointers must be consumed exactly once", the first half: at no
\* point of a function not rejected so far has an execution freed a cell
\* twice, used a freed cell, or used a pointer that was never set.
NoDangling ==
  errors = {} => faults \cap {"double_free", "use_after_free", "wild"} = {}

\* ... the second half: no execution of an accepted function loses a cell.
NoLeak == Accepted => "leak" \notin faults

\* As long as nothing is reported, every live cell is held by exactly one
\* variable the checker still lists as unconsumed, and by no other.
OneOwner ==
  On /\ phase = "body" /\ errors = {} =>
    \A c \in LiveCells :
      \E v \in Vars :
        /\ scope[v][Root] = "Unconsumed" /\ c \in HeldAt(<<v, Root>>)
        /\ \A w \in Vars \ {v} :
             scope[w][Root] = "Unconsumed" => c \notin HeldAt(<<w, Root>>)

\* As long as nothing is reported, the checker has not lost sight of a live
\* cell: some variable, field or pointee it lists as unconsumed holds it.
NoneForgotten ==
  On /\ phase = "body" /\ errors = {} =>
    \A c \in LiveCells :
      \E p \in Places : scope[p[1]][p[2]] = "Unconsumed" /\ Load(p) = c

(* The promises hold but for the statements known to break each of them. *)

\* What the checker does not see as a move: a part taken out of a variable, a
\* construct as a value, an expression whose operands it does not walk.
Duplicating == {"field", "free_inner", "deref_move", "other", "value"}
\* What may drop a cell: a return before the end, a store over a live pointer.
Losing == {"early_return", "store_field", "store"}

Without(ops) == dialect.ops \cap ops = {}

\* A function that duplicates nothing uses and frees only live cells.
SafeUnlessDuplicating == Without(Duplicating) => NoDangling
\* A function accepted without a construct that drops cells loses none.
NoLeakUnlessLosing == Without(Losing) => NoLeak
\* With neither of the two, a live cell has one owner the checker knows of.
OneOwnerUnlessEither == Without(Duplicating \cup Losing) => OneOwner
\* Without a return before the end or a store into a field, a live cell has an
\* owner the checker knows of.
NoneForgottenUnlessDropped == Without({"early_return", "store_field"}) => NoneForgotten
=============================================================================
