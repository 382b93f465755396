-------------------------- MODULE LinearTypeChecker --------------------------
(***************************************************************************)
(* The linear checker: the pass that runs after type checking and rejects  *)
(* a function unless every heap pointer ('ptr<T>) it owns is consumed      *)
(* exactly once.  One action per handler of LinearTypeChecker.cpp.  The    *)
(* tree walk is the sequence of actions: an if, a case or a loop pushes a  *)
(* frame holding what the handler keeps in local variables (the snapshot   *)
(* "before" and the snapshots of the arms) and the matching End action     *)
(* pops it.                                                                *)
(*                                                                         *)
(* A place is a pair <<variable, slot>>: slot Root is the VarInfo of the   *)
(* variable, any other slot one of its first-level children.  find_child   *)
(* looks no deeper, so a deeper child keeps the state it was registered    *)
(* with; LinearTypes models the whole tree.                                *)
(***************************************************************************)
EXTENDS LinearProgram

CONSTANT Inner       \* what register_if_linear records for a type

VarState == {"Unconsumed", "Consumed"}
States   == VarState \cup {"none"}    \* "none": no VarInfo of that name
VarInfo  == [Slots -> States]
Scope    == [Vars -> VarInfo]

ASSUME CheckerAssumption ==
  /\ Inner \in [Types -> VarInfo]
  /\ \A t \in Types : /\ Inner[t][Root] # "Consumed"
                      /\ Inner[t][Root] = "none" =>
                           \A f \in Fields : Inner[t][f] = "none"

Errors == {"reuse", "leak", "discard", "overwrite", "alias", "branch", "loop"}
Frame  == [kind : {"if", "case", "loop"}, before : Scope, arms : Seq(Scope)]

VARIABLES scope,    \* the one map of scope_stack that is open
          frames,   \* the walk's open ifs, cases and loops
          errors,   \* kinds of error reported so far
          phase     \* "start", "body" or "done"

checkerVars == <<scope, frames, errors, phase>>

CheckerTypeOK ==
  /\ scope \in Scope
  /\ frames \in Seq(Frame) /\ Len(frames) <= MaxDepth
  /\ errors \subseteq Errors
  /\ phase \in {"start", "body", "done"}

Untracked   == [s \in Slots |-> "none"]
CheckerInit == /\ scope = [v \in Vars |-> Untracked]
               /\ frames = <<>>
               /\ errors = {}
               /\ phase = "start"

-----------------------------------------------------------------------------
(* Helpers on VarInfo maps *)

ContainsLinear(t) == Inner[t][Root] # "none"

RegisterLinear(sc, v) ==
  [sc EXCEPT ![v] = [Untracked EXCEPT ![Root] = "Unconsumed"]]

RegisterIfLinear(sc, v, t) ==
  IF ContainsLinear(t) THEN [sc EXCEPT ![v] = Inner[t]] ELSE sc

\* Slip: a place that is passed on gets a state of its own.
ConsumeAsMoved(sc, P) ==
  [v \in Vars |-> [s \in Slots |->
     IF <<v, s>> \in P /\ sc[v][s] # "none" THEN "Moved" ELSE sc[v][s]]]

\* Slip: consume reports but does not set the state.
ConsumeNothing(sc, P) == sc

\* Places that are not tracked are skipped: find_linear and find_child fail.
Consume(sc, P) ==
  [v \in Vars |-> [s \in Slots |->
     IF <<v, s>> \in P /\ sc[v][s] # "none" THEN "Consumed" ELSE sc[v][s]]]

\* Slip: all operands are looked up before any is consumed.
ReusedBefore(sc, ps) ==
  \E i \in DOMAIN ps : sc[ps[i][1]][ps[i][2]] = "Consumed"

\* Consuming the places of ps from left to right meets one already consumed.
Reused(sc, ps) ==
  \E i \in DOMAIN ps :
     \/ sc[ps[i][1]][ps[i][2]] = "Consumed"
     \/ \E j \in 1 .. i - 1 : ps[j] = ps[i] /\ sc[ps[i][1]][ps[i][2]] # "none"

HasChildren(info)      == \E f \in Fields : info[f] # "none"
ChildrenConsumed(info) == \A f \in Fields : info[f] # "Unconsumed"

\* Slip: variables with children are passed over.
ForgottenPlain(info) == info[Root] = "Unconsumed" /\ ~HasChildren(info)

\* What pop_scope_and_check reports: children decide when there are any.
Forgotten(info) ==
  /\ info[Root] = "Unconsumed"
  /\ HasChildren(info) => ~ChildrenConsumed(info)

\* Slip: an arm starts where the arm before it ended.
RestoreNothing(sc, snap) == sc

Restore(sc, snap) ==
  [v \in Vars |-> IF snap[v][Root] # "none" THEN snap[v] ELSE sc[v]]

\* Agreement of the arms on one place; arms where it is untracked are skipped.
ArmStates(arms, v, s) == {arms[i][v][s] : i \in DOMAIN arms} \ {"none"}
Compared(before, v, s) ==
  before[v][Root] = "Unconsumed" /\ before[v][s] = "Unconsumed"

\* Slip: what all arms consumed is not consumed after them.
KeepBefore(sc, before, arms) == sc

CheckBranchConsistency(sc, before, arms) ==
  [v \in Vars |-> [s \in Slots |->
     IF Compared(before, v, s) /\ "Consumed" \in ArmStates(arms, v, s)
     THEN "Consumed" ELSE sc[v][s]]]

\* Slip: arms need not agree.
NoMismatch(before, arms) == FALSE

Mismatch(before, arms) ==
  \E v \in Vars, s \in Slots :
     Compared(before, v, s) /\ ArmStates(arms, v, s) = VarState

-----------------------------------------------------------------------------
(* Statements.  ps is the sequence of variables and fields a handler       *)
(* consumes from left to right: the arguments of a call whose parameter is *)
(* linear, the elements of a literal, or the one variable that is moved.   *)

Report(cond, kind) == IF cond THEN {kind} ELSE {}

InBody == phase = "body"
Walked(sc, errs) == /\ InBody
                    /\ scope' = sc
                    /\ errors' = errors \cup errs
                    /\ UNCHANGED <<frames, phase>>

CheckVarDef(v, t, ps) ==
  Walked(RegisterIfLinear(Consume(scope, Range(ps)), v, t),
         Report(Reused(scope, ps), "reuse"))

\* let v = *p: a dereference reads p and consumes nothing.
CheckVarDefDeref(v, t, p) ==
  Walked(RegisterIfLinear(scope, v, t),
         Report(scope[p[1]][p[2]] = "Consumed", "reuse"))

\* Slip: the destructured variable keeps its state.
DestructureKeeps(x, dst) ==
  Walked([v \in Vars |-> IF v \in Range(dst)
                         THEN [Untracked EXCEPT ![Root] = "Unconsumed"]
                         ELSE scope[v]], {})

\* let (a, b) = x: only the elements whose own type is linear are in dst.
CheckDestructure(x, dst) ==
  LET consumed == Consume(scope, {<<x, Root>>})
      linear   == Range(dst)
  IN Walked([v \in Vars |-> IF v \in linear
                            THEN [Untracked EXCEPT ![Root] = "Unconsumed"]
                            ELSE consumed[v]],
            Report(scope[x][Root] = "Consumed", "reuse"))

\* A call or an alloc that is a statement of its own; linear: its type
\* contains linear types.
CheckCallStmt(ps, linear) ==
  Walked(Consume(scope, Range(ps)),
         Report(Reused(scope, ps), "reuse")
           \cup Report(linear, "discard"))

CheckFree(p) ==
  LET info == scope[p[1]] IN
  Walked(Consume(scope, {p}),
         Report(p[2] = Root /\ info[Root] # "none" /\ ~ChildrenConsumed(info),
                "leak")
           \cup Report(info[p[2]] = "Consumed", "reuse"))

\* Dereference or index of a variable or field: it must not be consumed yet.
CheckUse(p) == Walked(scope, Report(scope[p[1]][p[2]] = "Consumed", "reuse"))

\* &e where the type of e is linear itself (linear) or not.
CheckAddrOf(linear) == Walked(scope, Report(linear, "alias"))

\* Slip: the pointee keeps its state when a pointer is stored.
StoreForgets(v, ps, linear) ==
  Walked(Consume(scope, Range(ps)),
         Report(scope[v][Root] = "Consumed" \/ Reused(scope, ps), "reuse"))

\* *v = e: ps is what e consumes, linear whether the type of e is linear.
CheckStoreDeref(v, ps, linear) ==
  LET moved == Consume(scope, Range(ps))
      full  == moved[v][Star] = "Unconsumed" /\ linear
  IN Walked(IF moved[v][Star] = "none" \/ full THEN moved
            ELSE [moved EXCEPT ![v][Star] = "Unconsumed"],
            Report(scope[v][Root] = "Consumed" \/ Reused(scope, ps), "reuse")
              \cup Report(full, "overwrite"))

\* b.f = e: the old value of the field is not looked at.
CheckStoreField(ps) ==
  Walked(Consume(scope, Range(ps)), Report(Reused(scope, ps), "reuse"))

CheckReturn(ps) ==
  Walked(Consume(scope, Range(ps)), Report(Reused(scope, ps), "reuse"))

\* Expressions check_stmt has no case for are not entered: -f(p), f(p).x,
\* alloc<T>(f(p)), or a variable standing alone as the value of a block.
CheckOther == Walked(scope, {})
-----------------------------------------------------------------------------
(* Branches, loops and the function *)

BeginBranch(kind) ==
  /\ InBody /\ Len(frames) < MaxDepth
  /\ frames' = Append(frames, [kind |-> kind, before |-> scope, arms |-> <<>>])
  /\ UNCHANGED <<scope, errors, phase>>

\* An if has two arms (a missing else is an empty one), a case up to MaxArms.
NextArm ==
  /\ InBody /\ frames # <<>>
  /\ LET top == Last(frames) IN
     /\ top.kind # "loop"
     /\ Len(top.arms) + 1 < IF top.kind = "if" THEN 2 ELSE MaxArms
     /\ frames' = [frames EXCEPT ![Len(frames)].arms = Append(@, scope)]
     /\ scope' = Restore(scope, top.before)
  /\ UNCHANGED <<errors, phase>>

EndBranch ==
  /\ InBody /\ frames # <<>>
  /\ LET top  == Last(frames)
         arms == Append(top.arms, scope)
     IN /\ top.kind # "loop"
        /\ top.kind = "if" => Len(arms) = 2
        /\ scope' = CheckBranchConsistency(Restore(scope, top.before),
                                           top.before, arms)
        /\ errors' = errors \cup Report(Mismatch(top.before, arms), "branch")
  /\ frames' = Front(frames)
  /\ UNCHANGED phase

BeginLoop ==
  /\ InBody /\ Len(frames) < MaxDepth
  /\ frames' = Append(frames, [kind |-> "loop", before |-> scope, arms |-> <<>>])
  /\ UNCHANGED <<scope, errors, phase>>

EndLoop ==
  /\ InBody /\ frames # <<>>
  /\ LET top == Last(frames) IN
     /\ top.kind = "loop"
     /\ scope' = Restore(scope, top.before)
     /\ errors' = errors \cup
          Report(\E v \in Vars : /\ top.before[v][Root] = "Unconsumed"
                                 /\ scope[v][Root] = "Consumed", "loop")
  /\ frames' = Front(frames)
  /\ UNCHANGED phase

\* params: the parameters of the function with their types.
CheckFunc(params) ==
  /\ phase = "start"
  /\ phase' = "body"
  /\ scope' = [v \in Vars |-> IF v \in DOMAIN params
                              THEN Inner[params[v]] ELSE scope[v]]
  /\ UNCHANGED <<frames, errors>>

PopScopeAndCheck ==
  /\ InBody /\ frames = <<>>
  /\ phase' = "done"
  /\ errors' = errors \cup Report(\E v \in Vars : Forgotten(scope[v]), "leak")
  /\ UNCHANGED <<scope, frames>>
=============================================================================
