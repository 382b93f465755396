------------------------ MODULE LinearSoundnessProofs ------------------------
(***************************************************************************)
(* Theorems about LinearSoundness, for every set of names, cells and types *)
(* and every bound on nesting and arms.                                    *)
(***************************************************************************)
EXTENDS LinearSoundness, SequenceLemmas, SequenceTheorems, TLAPS

USE DEF Slots, Places, VarState, States, VarInfo, Scope, CellOrNil, Value

-----------------------------------------------------------------------------
(* The checker's maps *)

LEMMA RegisterIfLinearType ==
  ASSUME NEW sc \in Scope, NEW v \in Vars, NEW t \in Types
  PROVE  RegisterIfLinear(sc, v, t) \in Scope
BY CheckerAssumption DEF RegisterIfLinear

LEMMA ConsumeType ==
  ASSUME NEW sc \in Scope, NEW P
  PROVE  Consume(sc, P) \in Scope
BY DEF Consume

LEMMA RestoreType ==
  ASSUME NEW sc \in Scope, NEW snap \in Scope
  PROVE  Restore(sc, snap) \in Scope
BY DEF Restore

LEMMA ConsistencyType ==
  ASSUME NEW sc \in Scope, NEW before, NEW arms
  PROVE  CheckBranchConsistency(sc, before, arms) \in Scope
BY DEF CheckBranchConsistency

LEMMA UntrackedType == Untracked \in VarInfo
BY DEF Untracked

LEMMA ReportType ==
  ASSUME NEW c, NEW e \in Errors
  PROVE  Report(c, e) \subseteq Errors
BY DEF Report

LEMMA WalkedType ==
  ASSUME CheckerTypeOK, NEW sc \in Scope, NEW errs \in SUBSET Errors,
         Walked(sc, errs)
  PROVE  CheckerTypeOK' /\ UNCHANGED frames
BY DEF CheckerTypeOK, Walked

-----------------------------------------------------------------------------
(* The values of the execution *)

LEMMA LoadType ==
  ASSUME OwnTypeOK, NEW v \in Vars, NEW s \in Slots
  PROVE  Load(<<v, s>>) \in CellOrNil
BY DEF OwnTypeOK, Load, Star2

LEMMA FieldValueType ==
  ASSUME OwnTypeOK, NEW x \in Vars, NEW f \in Slots
  PROVE  FieldValue(x, f) \in Value
<1>1. Load(<<x, f>>) \in CellOrNil
  BY LoadType
<1> QED
  BY <1>1 DEF FieldValue

LEMMA ValueAtType ==
  ASSUME OwnTypeOK, NEW v \in Vars, NEW s \in Slots
  PROVE  ValueAt(<<v, s>>) \in Value
BY FieldValueType DEF OwnTypeOK, ValueAt

LEMMA NoValueType == NoValue \in Value
BY DEF NoValue

LEMMA BindType ==
  ASSUME OwnTypeOK, NEW v \in Vars, NEW val \in Value, Bind(v, val)
  PROVE  env' \in [Vars -> Value]
<1>1. [env EXCEPT ![v] = val] \in [Vars -> Value]
  BY DEF OwnTypeOK
<1>2. [env EXCEPT ![v] = NoValue] \in [Vars -> Value]
  BY NoValueType DEF OwnTypeOK
<1>3. env \in [Vars -> Value]
  BY DEF OwnTypeOK
<1> QED
  BY <1>1, <1>2, <1>3, Zenon DEF Bind

LEMMA HeapTypes ==
  ASSUME OwnTypeOK, NEW C, NEW D
  PROVE  /\ HeapAfter(C) \in [Cells -> {"unused", "live", "gone"}]
         /\ HeapWith(heap, C) \in [Cells -> {"unused", "live", "gone"}]
         /\ HeapWith(HeapAfter(C), D) \in [Cells -> {"unused", "live", "gone"}]
<1>1. HeapAfter(C) \in [Cells -> {"unused", "live", "gone"}]
  BY DEF OwnTypeOK, HeapAfter
<1>2. ASSUME NEW h \in [Cells -> {"unused", "live", "gone"}], NEW E
      PROVE  HeapWith(h, E) \in [Cells -> {"unused", "live", "gone"}]
  BY DEF HeapWith
<1>3. heap \in [Cells -> {"unused", "live", "gone"}]
  BY DEF OwnTypeOK
<1> QED
  BY <1>1, <1>2, <1>3

LEMMA FaultTypes ==
  ASSUME NEW p, NEW ps, NEW c, NEW h
  PROVE  /\ GiveFaults(ps) \subseteq Faults /\ UseFaults(c) \subseteq Faults
         /\ ReadFaults(p) \subseteq Faults /\ LeakIn(h) \subseteq Faults
BY DEF GiveFaults, UseFaults, ReadFaults, LeakIn, Faults

-----------------------------------------------------------------------------
(* Every handler of the checker keeps its state well typed *)

LEMMA CheckVarDefType ==
  ASSUME CheckerTypeOK, NEW v \in Vars, NEW t \in Types, NEW ps,
         CheckVarDef(v, t, ps)
  PROVE  CheckerTypeOK' /\ UNCHANGED <<frames, phase>>
<1>1. RegisterIfLinear(Consume(scope, Range(ps)), v, t) \in Scope
  BY ConsumeType, RegisterIfLinearType DEF CheckerTypeOK
<1>2. Report(Reused(scope, ps), "reuse") \in SUBSET Errors
  BY ReportType DEF Errors
<1> QED
  BY <1>1, <1>2, WalkedType DEF CheckVarDef, Walked

LEMMA CheckVarDefDerefType ==
  ASSUME CheckerTypeOK, NEW v \in Vars, NEW t \in Types, NEW p,
         CheckVarDefDeref(v, t, p)
  PROVE  CheckerTypeOK' /\ UNCHANGED <<frames, phase>>
<1>1. RegisterIfLinear(scope, v, t) \in Scope
  BY RegisterIfLinearType DEF CheckerTypeOK
<1>2. Report(scope[p[1]][p[2]] = "Consumed", "reuse") \in SUBSET Errors
  BY ReportType DEF Errors
<1> QED
  BY <1>1, <1>2, WalkedType DEF CheckVarDefDeref, Walked

LEMMA CheckDestructureType ==
  ASSUME CheckerTypeOK, NEW x \in Vars, NEW dst, CheckDestructure(x, dst)
  PROVE  CheckerTypeOK' /\ UNCHANGED <<frames, phase>>
<1> DEFINE after == [v \in Vars |->
                       IF v \in Range(dst)
                       THEN [Untracked EXCEPT ![Root] = "Unconsumed"]
                       ELSE Consume(scope, {<<x, Root>>})[v]]
<1>1. after \in Scope
  <2>1. Consume(scope, {<<x, Root>>}) \in Scope
    BY ConsumeType DEF CheckerTypeOK
  <2>2. [Untracked EXCEPT ![Root] = "Unconsumed"] \in VarInfo
    BY UntrackedType
  <2> QED
    BY <2>1, <2>2
<1>2. Report(scope[x][Root] = "Consumed", "reuse") \in SUBSET Errors
  BY ReportType DEF Errors
<1>3. Walked(after, Report(scope[x][Root] = "Consumed", "reuse"))
  BY DEF CheckDestructure
<1> QED
  BY <1>1, <1>2, <1>3, WalkedType DEF Walked

LEMMA ConsumingType ==
  ASSUME CheckerTypeOK, NEW P, NEW errs \in SUBSET Errors,
         Walked(Consume(scope, P), errs)
  PROVE  CheckerTypeOK' /\ UNCHANGED <<frames, phase>>
<1>1. Consume(scope, P) \in Scope
  BY ConsumeType DEF CheckerTypeOK
<1> QED
  BY <1>1, WalkedType DEF Walked

LEMMA CheckCallStmtType ==
  ASSUME CheckerTypeOK, NEW ps, NEW linear, CheckCallStmt(ps, linear)
  PROVE  CheckerTypeOK' /\ UNCHANGED <<frames, phase>>
<1>1. Report(Reused(scope, ps), "reuse") \cup Report(linear, "discard")
        \in SUBSET Errors
  BY ReportType DEF Errors
<1> QED
  BY <1>1, ConsumingType DEF CheckCallStmt

LEMMA CheckFreeType ==
  ASSUME CheckerTypeOK, NEW p, CheckFree(p)
  PROVE  CheckerTypeOK' /\ UNCHANGED <<frames, phase>>
<1>1. Report(p[2] = Root /\ scope[p[1]][Root] # "none"
                /\ ~ChildrenConsumed(scope[p[1]]), "leak")
        \cup Report(scope[p[1]][p[2]] = "Consumed", "reuse") \in SUBSET Errors
  BY ReportType DEF Errors
<1> QED
  BY <1>1, ConsumingType DEF CheckFree

LEMMA ReturnAndStoreFieldType ==
  ASSUME CheckerTypeOK, NEW ps, CheckReturn(ps) \/ CheckStoreField(ps)
  PROVE  CheckerTypeOK' /\ UNCHANGED <<frames, phase>>
<1>1. Report(Reused(scope, ps), "reuse") \in SUBSET Errors
  BY ReportType DEF Errors
<1> QED
  BY <1>1, ConsumingType DEF CheckReturn, CheckStoreField

LEMMA LookingType ==
  ASSUME CheckerTypeOK, NEW p, NEW linear,
         CheckUse(p) \/ CheckAddrOf(linear) \/ CheckOther
  PROVE  CheckerTypeOK' /\ UNCHANGED <<frames, phase>>
<1>1. /\ Report(scope[p[1]][p[2]] = "Consumed", "reuse") \in SUBSET Errors
      /\ Report(linear, "alias") \in SUBSET Errors /\ {} \in SUBSET Errors
  BY ReportType DEF Errors
<1>2. scope \in Scope
  BY DEF CheckerTypeOK
<1> QED
  BY <1>1, <1>2, WalkedType DEF CheckUse, CheckAddrOf, CheckOther, Walked

LEMMA CheckStoreDerefType ==
  ASSUME CheckerTypeOK, NEW v \in Vars, NEW ps, NEW linear,
         Star \in Fields, CheckStoreDeref(v, ps, linear)
  PROVE  CheckerTypeOK' /\ UNCHANGED <<frames, phase>>
<1> DEFINE moved == Consume(scope, Range(ps))
           full  == moved[v][Star] = "Unconsumed" /\ linear
           sc    == IF moved[v][Star] = "none" \/ full THEN moved
                    ELSE [moved EXCEPT ![v][Star] = "Unconsumed"]
           errs  == Report(scope[v][Root] = "Consumed" \/ Reused(scope, ps), "reuse")
                      \cup Report(full, "overwrite")
<1>1. moved \in Scope
  BY ConsumeType DEF CheckerTypeOK
<1>2. sc \in Scope
  <2> HIDE DEF moved
  <2>1. [moved EXCEPT ![v][Star] = "Unconsumed"] \in Scope
    BY <1>1
  <2> QED
    BY <1>1, <2>1
<1>3. errs \in SUBSET Errors
  BY ReportType DEF Errors
<1>4. Walked(sc, errs)
  BY DEF CheckStoreDeref
<1> QED
  BY <1>2, <1>3, <1>4, WalkedType DEF Walked

-----------------------------------------------------------------------------
(* Ifs, cases and loops push and pop one frame *)

LEMMA BeginType ==
  ASSUME CheckerTypeOK,
         BeginBranch("if") \/ BeginBranch("case") \/ BeginLoop
  PROVE  CheckerTypeOK' /\ Len(frames') = Len(frames) + 1 /\ UNCHANGED phase
<1>1. PICK k \in {"if", "case", "loop"} :
        frames' = Append(frames, [kind |-> k, before |-> scope, arms |-> <<>>])
  BY DEF BeginBranch, BeginLoop
<1>2. [kind |-> k, before |-> scope, arms |-> <<>>] \in Frame
  BY EmptySeq DEF Frame, CheckerTypeOK
<1>3. frames' \in Seq(Frame) /\ Len(frames') = Len(frames) + 1
  BY <1>1, <1>2, AppendToSeq DEF CheckerTypeOK
<1>4. Len(frames) < MaxDepth /\ Len(frames) \in Nat
  BY LenProperties DEF BeginBranch, BeginLoop, CheckerTypeOK
<1>5. Len(frames') <= MaxDepth
  BY <1>3, <1>4, ProgramVocabulary
<1> QED
  BY <1>3, <1>5 DEF BeginBranch, BeginLoop, CheckerTypeOK

LEMMA TopFrame ==
  ASSUME CheckerTypeOK, frames # <<>>
  PROVE  /\ Last(frames) \in Frame /\ Last(frames) = frames[Len(frames)]
         /\ Len(frames) \in DOMAIN frames
         /\ Front(frames) \in Seq(Frame)
         /\ Len(frames) = Len(Front(frames)) + 1 /\ Len(Front(frames)) \in Nat
         /\ Len(Front(frames)) <= MaxDepth
<1>1. PICK n \in Nat : Len(frames) = n + 1
  BY NonEmptySeq DEF CheckerTypeOK
<1>2. /\ Front(frames) \in Seq(Frame) /\ Len(Front(frames)) = n
      /\ Last(frames) \in Frame /\ Last(frames) = frames[n + 1]
  BY <1>1, FrontOfSeq DEF CheckerTypeOK
<1>3. n + 1 <= MaxDepth /\ DOMAIN frames = 1 .. n + 1
  BY <1>1, LenProperties DEF CheckerTypeOK
<1> QED
  BY <1>1, <1>2, <1>3, ProgramVocabulary

LEMMA NextArmType ==
  ASSUME CheckerTypeOK, NextArm
  PROVE  /\ CheckerTypeOK' /\ Len(frames') = Len(frames)
         /\ frames # <<>> /\ UNCHANGED phase
<1> DEFINE top == Last(frames)
           f   == [top EXCEPT !.arms = Append(@, scope)]
<1>1. top \in Frame /\ top = frames[Len(frames)] /\ Len(frames) \in DOMAIN frames
  BY TopFrame DEF NextArm
<1>2. Append(top.arms, scope) \in Seq(Scope)
  BY <1>1, AppendToSeq DEF Frame, CheckerTypeOK
<1>3. f \in Frame
  BY <1>1, <1>2 DEF Frame
<1>4. frames' = [frames EXCEPT ![Len(frames)] = f]
  BY <1>1 DEF NextArm
<1>5. frames' \in Seq(Frame) /\ Len(frames') = Len(frames)
  BY <1>1, <1>3, <1>4, ExceptSeq DEF CheckerTypeOK
<1>6. scope' \in Scope
  <2>1. top.before \in Scope
    BY <1>1 DEF Frame
  <2> QED
    BY <2>1, RestoreType DEF NextArm, CheckerTypeOK
<1> QED
  BY <1>5, <1>6 DEF NextArm, CheckerTypeOK

LEMMA EndType ==
  ASSUME CheckerTypeOK, EndBranch \/ EndLoop
  PROVE  /\ CheckerTypeOK' /\ Len(frames') = Len(frames) - 1
         /\ frames # <<>> /\ UNCHANGED phase
<1>1. /\ Last(frames) \in Frame /\ Front(frames) \in Seq(Frame)
      /\ Len(frames) = Len(Front(frames)) + 1 /\ Len(Front(frames)) \in Nat
      /\ Len(Front(frames)) <= MaxDepth
  BY TopFrame DEF EndBranch, EndLoop
<1>2. Restore(scope, Last(frames).before) \in Scope
  <2>1. Last(frames).before \in Scope
    BY <1>1 DEF Frame
  <2> QED
    BY <2>1, RestoreType DEF CheckerTypeOK
<1>3. frames' = Front(frames) /\ frames # <<>>
  BY DEF EndBranch, EndLoop
<1>4. scope' \in Scope /\ errors' \subseteq Errors /\ UNCHANGED phase
  <2>1. CASE EndBranch
    <3>1. scope' \in Scope
      BY <2>1, <1>2, ConsistencyType DEF EndBranch
    <3>2. errors' \subseteq Errors /\ UNCHANGED phase
      BY <2>1, ReportType DEF EndBranch, CheckerTypeOK, Errors
    <3> QED
      BY <3>1, <3>2
  <2>2. CASE EndLoop
    <3>1. scope' \in Scope
      BY <2>2, <1>2 DEF EndLoop
    <3>2. errors' \subseteq Errors /\ UNCHANGED phase
      BY <2>2, ReportType DEF EndLoop, CheckerTypeOK, Errors
    <3> QED
      BY <3>1, <3>2
  <2> QED
    BY <2>1, <2>2
<1>5. frames' \in Seq(Frame) /\ Len(frames') = Len(frames) - 1 /\ Len(frames') <= MaxDepth
  BY <1>1, <1>3
<1> QED
  BY <1>3, <1>4, <1>5 DEF CheckerTypeOK

-----------------------------------------------------------------------------
(* Steps of the execution *)

Heap == [Cells -> {"unused", "live", "gone"}]
Hop  == [run : Runs, entry : SUBSET Cells]
Path == Seq(Hop)

\* What the steps of the executed path do to heap, faults and contents.
LEMMA OnOrOffPathType ==
  ASSUME OwnTypeOK, NEW h \in Heap, NEW errs \in SUBSET Faults,
         OffPath \/ OnPath(h, errs)
  PROVE  heap' \in Heap /\ faults' \subseteq Faults
BY DEF OwnTypeOK, OffPath, OnPath, Heap

LEMMA OffOrOn ==
  ASSUME OwnTypeOK, NEW h \in Heap, NEW errs \in SUBSET Faults,
         OffPath \/ (OnPath(h, errs) /\ UNCHANGED content)
  PROVE  /\ heap' \in Heap /\ faults' \subseteq Faults /\ UNCHANGED content
BY OnOrOffPathType DEF OffPath

LEMMA RunVarDefType ==
  ASSUME OwnTypeOK, NEW v \in Vars, NEW t \in Types, NEW ps, NEW val \in Value,
         RunVarDef(v, t, ps, val)
  PROVE  OwnTypeOK' /\ UNCHANGED path /\ typ' = [typ EXCEPT ![v] = t]
<1> DEFINE h == HeapWith(HeapAfter(Given(ps)), CellsIn(val))
<1>1. h \in Heap
  BY HeapTypes DEF Heap
<1>2. GiveFaults(ps) \in SUBSET Faults
  BY FaultTypes
<1>3. OffPath \/ (OnPath(h, GiveFaults(ps)) /\ UNCHANGED content)
  BY DEF RunVarDef
<1>4. heap' \in Heap /\ faults' \subseteq Faults /\ UNCHANGED content
  <2> HIDE DEF h
  <2> QED
    BY <1>1, <1>2, <1>3, OffOrOn
<1>5. env' \in [Vars -> Value]
  BY BindType DEF RunVarDef
<1>6. UNCHANGED <<path, exited>> /\ typ' = [typ EXCEPT ![v] = t]
  BY DEF RunVarDef, Same, Declare
<1>7. typ' \in [Vars -> Types \cup {NoType}]
  BY <1>6 DEF OwnTypeOK
<1> QED
  BY <1>4, <1>5, <1>6, <1>7 DEF OwnTypeOK, Heap

LEMMA CopyingType ==
  ASSUME OwnTypeOK, NEW v \in Vars, NEW t \in Types, NEW val \in Value,
         NEW errs \in SUBSET Faults,
         Same, Declare(v, t), Bind(v, val),
         OffPath \/ (OnPath(heap, errs) /\ UNCHANGED content)
  PROVE  OwnTypeOK' /\ UNCHANGED path /\ typ' = [typ EXCEPT ![v] = t]
<1>1. heap \in Heap
  BY DEF OwnTypeOK, Heap
<1>2. heap' \in Heap /\ faults' \subseteq Faults /\ UNCHANGED content
  BY <1>1, OffOrOn
<1>3. env' \in [Vars -> Value]
  BY BindType
<1>4. typ' \in [Vars -> Types \cup {NoType}] /\ typ' = [typ EXCEPT ![v] = t]
  BY DEF OwnTypeOK, Declare
<1> QED
  BY <1>2, <1>3, <1>4 DEF OwnTypeOK, Same, Heap

LEMMA RunMoveType ==
  ASSUME OwnTypeOK, NEW v \in Vars, NEW w \in Vars, NEW s \in Slots,
         TypeAt(<<w, s>>) \in Types, RunMove(v, <<w, s>>)
  PROVE  OwnTypeOK' /\ UNCHANGED path /\ typ' = [typ EXCEPT ![v] = TypeAt(<<w, s>>)]
<1>1. ValueAt(<<w, s>>) \in Value
  BY ValueAtType
<1>2. ReadFaults(<<w, s>>) \in SUBSET Faults
  BY FaultTypes
<1> QED
  BY <1>1, <1>2, CopyingType DEF RunMove

LEMMA PackedType ==
  ASSUME OwnTypeOK, NEW t \in DOMAIN Element,
         NEW ps \in [DOMAIN Element[t] -> Places],
         \A i \in DOMAIN ps : TypeAt(ps[i]) = FieldType[t][Element[t][i]]
  PROVE  Packed(ps, Element[t]) \in Value
<1>1. ASSUME NEW i \in DOMAIN Element[t]  PROVE ElementOf(ps[i]) \in CellOrNil
  <2>1. PICK w \in Vars, s \in Slots : ps[i] = <<w, s>>
    OBVIOUS
  <2>2. ValueAt(ps[i]) \in Value
    BY <2>1, ValueAtType
  <2>3. Element[t][i] \in Fields
    BY ProgramAssumption, ElementOfSeq, LenProperties
  <2>4. TypeAt(ps[i]) \in Types /\ Layout[TypeAt(ps[i])] # {}
    <3>1. t \in Types /\ FieldType[t][Element[t][i]] \in Types
      BY ProgramAssumption
    <3>2. Layout[FieldType[t][Element[t][i]]] # {}
      BY <3>1, <2>3, ProgramAssumption, OwnershipAssumption
    <3>3. TypeAt(ps[i]) = FieldType[t][Element[t][i]]
      OBVIOUS
    <3> QED
      BY <3>1, <3>2, <3>3
  <2>5. OnlySlot(TypeAt(ps[i])) \in Slots
    BY <2>4, OwnershipAssumption DEF OnlySlot
  <2> QED
    BY <2>2, <2>5 DEF ElementOf
<1>2. ASSUME NEW s \in Slots
      PROVE  (IF \E i \in DOMAIN Element[t] : Element[t][i] = s
              THEN ElementOf(ps[CHOOSE i \in DOMAIN Element[t] : Element[t][i] = s])
              ELSE Nil) \in CellOrNil
  BY <1>1
<1> QED
  BY <1>2 DEF Packed

LEMMA RunPackType ==
  ASSUME OwnTypeOK, NEW v \in Vars, NEW t \in DOMAIN Element,
         NEW ps \in [DOMAIN Element[t] -> Places],
         \A i \in DOMAIN ps : TypeAt(ps[i]) = FieldType[t][Element[t][i]],
         RunPack(v, t, ps, Element[t])
  PROVE  OwnTypeOK' /\ UNCHANGED path /\ typ' = [typ EXCEPT ![v] = t]
<1>1. Packed(ps, Element[t]) \in Value
  BY PackedType
<1>2. t \in Types /\ {} \in SUBSET Faults
  BY ProgramAssumption
<1> QED
  BY <1>1, <1>2, CopyingType DEF RunPack

\* Destructuring: every name gets the value and the type of its field.
LEMMA RunDestructureType ==
  ASSUME OwnTypeOK, NEW x \in Vars, typ[x] \in Tuples,
         NEW dst \in [Range(Element[typ[x]]) -> Vars], RunDestructure(x, dst)
  PROVE  /\ OwnTypeOK' /\ UNCHANGED path
         /\ \A v \in Vars : typ'[v] = typ[v] \/ typ'[v] \in Types
         /\ \A v \in Range(dst) : v \in Vars /\ typ'[v] \in Types
<1> DEFINE field(v) == CHOOSE f \in DOMAIN dst : dst[f] = v
<1>1. ASSUME NEW v \in Range(dst)
      PROVE  v \in Vars /\ field(v) \in Fields /\ FieldType[typ[x]][field(v)] \in Types
  <2>1. PICK f \in DOMAIN dst : dst[f] = v
    BY DEF Range
  <2>2. field(v) \in Range(Element[typ[x]])
    BY <2>1
  <2>3. PICK i \in DOMAIN Element[typ[x]] : field(v) = Element[typ[x]][i]
    BY <2>2 DEF Range
  <2>4. typ[x] \in DOMAIN Element
    BY ProgramAssumption
  <2>5. Element[typ[x]][i] \in Fields
    BY <2>4, <2>3, ProgramAssumption, ElementOfSeq, LenProperties
  <2> QED
    BY <2>1, <2>3, <2>4, <2>5, ProgramAssumption
<1>2. typ' = [v \in Vars |-> IF v \in Range(dst)
                             THEN FieldType[typ[x]][field(v)] ELSE typ[v]]
  BY DEF RunDestructure
<1>3. typ' \in [Vars -> Types \cup {NoType}]
  <2> HIDE DEF field
  <2> QED
    BY <1>1, <1>2 DEF OwnTypeOK
<1>4. env' \in [Vars -> Value]
  <2> DEFINE read == [v \in Vars |-> IF v \in Range(dst)
                                     THEN FieldValue(x, field(v)) ELSE env[v]]
             none == [v \in Vars |-> IF v \in Range(dst) THEN NoValue ELSE env[v]]
  <2>1. read \in [Vars -> Value]
    <3>1. \A v \in Range(dst) : FieldValue(x, field(v)) \in Value
      BY <1>1, FieldValueType
    <3> QED
      BY <3>1 DEF OwnTypeOK
  <2>2. none \in [Vars -> Value]
    BY NoValueType DEF OwnTypeOK
  <2>3. env' = IF On THEN read ELSE IF exited THEN env ELSE none
    BY DEF RunDestructure
  <2>4. env \in [Vars -> Value]
    BY DEF OwnTypeOK
  <2> HIDE DEF read, none
  <2> QED
    BY <2>1, <2>2, <2>3, <2>4
<1>5. heap' \in Heap /\ faults' \subseteq Faults /\ UNCHANGED <<content, path, exited>>
  <2>1. heap \in Heap /\ {} \in SUBSET Faults
    BY DEF OwnTypeOK, Heap
  <2>2. OffPath \/ (OnPath(heap, {}) /\ UNCHANGED content)
    BY DEF RunDestructure
  <2>3. UNCHANGED <<path, exited>>
    BY DEF RunDestructure, Same
  <2> QED
    BY <2>1, <2>2, <2>3, OffOrOn
<1>6. OwnTypeOK'
  BY <1>3, <1>4, <1>5 DEF OwnTypeOK, Heap
<1> QED
  BY <1>1, <1>2, <1>5, <1>6

LEMMA RunStatementType ==
  ASSUME OwnTypeOK, NEW p, NEW ps, NEW val,
         RunCall(ps, val) \/ RunFree(p) \/ RunUse(p) \/ RunNothing
  PROVE  OwnTypeOK' /\ UNCHANGED <<path, typ>>
<1>1. ASSUME NEW h \in Heap, NEW errs \in SUBSET Faults,
             Same, UNCHANGED <<env, typ>>,
             OffPath \/ (OnPath(h, errs) /\ UNCHANGED content)
      PROVE  OwnTypeOK' /\ UNCHANGED <<path, typ>>
  <2>1. heap' \in Heap /\ faults' \subseteq Faults /\ UNCHANGED content
    BY <1>1, OffOrOn
  <2> QED
    BY <2>1, <1>1 DEF OwnTypeOK, Same, Heap
<1>2. CASE RunCall(ps, val)
  <2>1. /\ HeapWith(HeapAfter(Given(ps)), CellsIn(val)) \in Heap
        /\ GiveFaults(ps) \in SUBSET Faults
    BY HeapTypes, FaultTypes DEF Heap
  <2> QED
    BY <2>1, <1>1, <1>2 DEF RunCall
<1>3. CASE RunFree(p)
  <2> DEFINE errs == ReadFaults(p) \cup
                       (IF Load(p) = Nil THEN {"wild"}
                        ELSE IF heap[Load(p)] # "live" THEN {"double_free"} ELSE {})
  <2>1. HeapAfter({Load(p)}) \in Heap
    BY HeapTypes DEF Heap
  <2>2. errs \in SUBSET Faults
    BY FaultTypes DEF Faults
  <2>3. /\ Same /\ UNCHANGED <<env, typ>>
        /\ OffPath \/ (OnPath(HeapAfter({Load(p)}), errs) /\ UNCHANGED content)
    BY <1>3 DEF RunFree
  <2> QED
    BY <2>1, <2>2, <2>3, <1>1
<1>4. CASE RunUse(p)
  <2>1. heap \in Heap /\ ReadFaults(p) \cup UseFaults(Load(p)) \in SUBSET Faults
    BY FaultTypes DEF OwnTypeOK, Heap
  <2> QED
    BY <2>1, <1>1, <1>4 DEF RunUse
<1>5. CASE RunNothing
  BY <1>5 DEF RunNothing, ownVars, OwnTypeOK
<1> QED
  BY <1>2, <1>3, <1>4, <1>5

LEMMA RunStoreDerefType ==
  ASSUME OwnTypeOK, NEW v \in Vars, NEW c \in CellOrNil, RunStoreDeref(v, c)
  PROVE  OwnTypeOK' /\ UNCHANGED <<path, typ>>
<1>1. heap \in Heap /\ UseFaults(env[v][Root]) \in SUBSET Faults
  BY FaultTypes DEF OwnTypeOK, Heap
<1>2. heap' \in Heap /\ faults' \subseteq Faults
  BY <1>1, OnOrOffPathType DEF RunStoreDeref
<1>3. content' \in [Cells -> CellOrNil]
  BY DEF OwnTypeOK, RunStoreDeref, OffPath
<1> QED
  BY <1>2, <1>3 DEF OwnTypeOK, RunStoreDeref, Same, Heap

LEMMA RunStoreFieldType ==
  ASSUME OwnTypeOK, NEW b \in Vars, NEW f \in Fields, NEW w \in Vars,
         RunStoreField(b, f, <<w, Root>>)
  PROVE  OwnTypeOK' /\ UNCHANGED <<path, typ>>
<1>1. heap \in Heap /\ {} \in SUBSET Faults
  BY DEF OwnTypeOK, Heap
<1>2. heap' \in Heap /\ faults' \subseteq Faults /\ UNCHANGED content
  BY <1>1, OffOrOn DEF RunStoreField
<1>3. env' \in [Vars -> Value]
  <2>1. Load(<<w, Root>>) \in CellOrNil
    BY LoadType
  <2>2. [env EXCEPT ![b][f] = Load(<<w, Root>>)] \in [Vars -> Value]
    BY <2>1 DEF OwnTypeOK
  <2> QED
    BY <2>2 DEF OwnTypeOK, RunStoreField
<1> QED
  BY <1>2, <1>3 DEF OwnTypeOK, RunStoreField, Same, Heap

LEMMA RunExitType ==
  ASSUME OwnTypeOK, NEW ps, RunReturn(ps) \/ RunFallOff
  PROVE  OwnTypeOK' /\ UNCHANGED <<path, typ>>
<1>1. CASE RunReturn(ps)
  <2>1. heap' \in Heap
    <3>1. heap' = HeapAfter(Given(ps)) \/ heap' = heap
      BY <1>1 DEF RunReturn
    <3>2. HeapAfter(Given(ps)) \in Heap /\ heap \in Heap
      BY HeapTypes DEF OwnTypeOK, Heap
    <3> QED
      BY <3>1, <3>2
  <2>2. faults' \subseteq Faults /\ exited' \in BOOLEAN
    BY <1>1, FaultTypes DEF RunReturn, OwnTypeOK
  <2> QED
    BY <1>1, <2>1, <2>2 DEF OwnTypeOK, RunReturn, Heap
<1>2. CASE RunFallOff
  <2>1. faults' \subseteq Faults
    BY <1>2, FaultTypes DEF RunFallOff, OwnTypeOK
  <2> QED
    BY <1>2, <2>1 DEF OwnTypeOK, RunFallOff
<1> QED
  BY <1>1, <1>2

-----------------------------------------------------------------------------
(* The path through open constructs *)

LEMMA RunBeginType ==
  ASSUME OwnTypeOK, NEW runs \in SUBSET Runs, RunBegin(runs)
  PROVE  OwnTypeOK' /\ UNCHANGED typ /\ Len(path') = Len(path) + 1
<1>1. PICK r \in Runs :
        path' = Append(path, [run |-> r, entry |-> IF r = "now" THEN LiveCells ELSE {}])
  BY DEF RunBegin, Runs
<1>2. LiveCells \subseteq Cells
  BY DEF LiveCells
<1>3. [run |-> r, entry |-> IF r = "now" THEN LiveCells ELSE {}]
        \in Hop
  BY <1>2 DEF Hop
<1>4. path \in Seq(Hop)
  BY DEF OwnTypeOK, Hop
<1>5. path' \in Path /\ Len(path') = Len(path) + 1
  BY <1>1, <1>3, <1>4, AppendToSeq DEF Path
<1> QED
  BY <1>5 DEF OwnTypeOK, RunBegin, Path, Hop

LEMMA RunNextArmType ==
  ASSUME OwnTypeOK, path # <<>>, NEW more, RunNextArm(more)
  PROVE  OwnTypeOK' /\ UNCHANGED typ /\ Len(path') = Len(path)
<1>0. path \in Seq(Hop)
  BY DEF OwnTypeOK, Hop
<1>1. PICK n \in Nat : Len(path) = n + 1
  BY <1>0, NonEmptySeq
<1>2. /\ Last(path) \in Hop /\ Last(path) = path[Len(path)]
      /\ Len(path) \in 1 .. Len(path)
  <2>1. Last(path) \in Hop /\ Last(path) = path[n + 1]
    BY <1>0, <1>1, FrontOfSeq
  <2>2. n + 1 \in 1 .. n + 1
    OBVIOUS
  <2> QED
    BY <1>1, <2>1, <2>2
<1>3. PICK r \in Runs : path' = [path EXCEPT ![Len(path)].run = r]
  BY <1>2 DEF RunNextArm, Runs, Hop
<1>4. [path[Len(path)] EXCEPT !.run = r] \in Hop
  BY <1>2 DEF Hop
<1>5. path' = [path EXCEPT ![Len(path)] = [path[Len(path)] EXCEPT !.run = r]]
  BY <1>3
<1>6. path' \in Path /\ Len(path') = Len(path)
  BY <1>0, <1>2, <1>4, <1>5, ExceptSeq DEF Path
<1> QED
  BY <1>6 DEF OwnTypeOK, RunNextArm, Path, Hop

LEMMA RunEndType ==
  ASSUME OwnTypeOK, path # <<>>, RunEndBranch \/ RunEndLoop
  PROVE  OwnTypeOK' /\ UNCHANGED typ /\ Len(path') = Len(path) - 1
<1>1. PICK n \in Nat : Len(path) = n + 1
  BY NonEmptySeq DEF OwnTypeOK
<1>2. Front(path) \in Path /\ Len(Front(path)) = n
  BY <1>1, FrontOfSeq DEF OwnTypeOK, Path, Hop
<1>3. path' = Front(path) /\ faults' \subseteq Faults
  BY DEF RunEndBranch, RunEndLoop, OwnTypeOK, Faults
<1>4. Len(path') = Len(path) - 1
  BY <1>1, <1>2, <1>3
<1> QED
  BY <1>2, <1>3, <1>4 DEF OwnTypeOK, RunEndBranch, RunEndLoop, Path, Hop

-----------------------------------------------------------------------------
(* Names *)

\* A step that opens and closes nothing and forgets no type.
LEMMA SteadyNames ==
  ASSUME TypeOK, OwnTypeOK', NEW V,
         \A v \in Vars : typ'[v] = typ[v] \/ typ'[v] \in Types,
         \A v \in V : v \in Vars /\ typ'[v] \in Types,
         visible' = visible \cup V, UNCHANGED <<outer, sealed, frames, path>>,
         phase' # "start"
  PROVE  ProgramTypeOK'
<1>1. Declared \subseteq Declared' /\ V \subseteq Declared'
  BY OwnershipAssumption DEF Declared
<1>2. visible' \subseteq Declared'
  BY <1>1 DEF TypeOK, ProgramTypeOK
<1>3. SUBSET Declared \subseteq SUBSET (Declared')
  BY <1>1
<1>4. outer' \in Seq(SUBSET (Declared'))
  BY <1>3, SeqMonotonic DEF TypeOK, ProgramTypeOK
<1>5. /\ Len(outer') = Len(frames') /\ Len(path') = Len(frames')
      /\ phase' = "start" => frames' = <<>>
      /\ sealed' \in BOOLEAN
  BY DEF TypeOK, ProgramTypeOK
<1> QED
  BY <1>2, <1>4, <1>5 DEF ProgramTypeOK

LEMMA SameNames ==
  ASSUME TypeOK, UNCHANGED <<typ, visible, outer, frames, path>>,
         sealed' \in BOOLEAN, phase' # "start"
  PROVE  ProgramTypeOK'
<1>1. Declared' = Declared
  BY DEF Declared
<1> QED
  BY <1>1 DEF TypeOK, ProgramTypeOK

LEMMA UsableType ==
  ASSUME TypeOK, NEW v \in Usable
  PROVE  v \in Vars /\ typ[v] \in Types
BY DEF TypeOK, ProgramTypeOK, OwnTypeOK, Usable, Declared

LEMMA OperandType ==
  ASSUME TypeOK, NEW p \in Variables \cup Parts
  PROVE  \E w \in Vars, s \in Slots : p = <<w, s>> /\ TypeAt(p) \in Types
<1>1. CASE p \in Variables
  BY <1>1, UsableType DEF Variables, TypeAt
<1>2. CASE p \in Parts
  <2>1. PICK w \in Usable, f \in Fields :
          p = <<w, f>> /\ FieldType[typ[w]][f] # NoType
    BY <1>2 DEF Parts
  <2>2. w \in Vars /\ typ[w] \in Types
    BY UsableType
  <2>3. FieldType[typ[w]][f] \in Types
    BY <2>1, <2>2, OwnershipAssumption
  <2> QED
    BY <2>1, <2>2, <2>3, ProgramVocabulary DEF TypeAt
<1> QED
  BY <1>1, <1>2

LEMMA OperandsType ==
  ASSUME TypeOK, NEW p \in Operands
  PROVE  p \in Places
BY OperandType DEF Operands

LEMMA FreshType ==
  ASSUME NEW t \in Types, NEW val \in FreshValues(t)
  PROVE  val \in Value
BY DEF FreshValues

-----------------------------------------------------------------------------
(* Type correctness *)

LEMMA TypeOKInit == Init => TypeOK
<1> SUFFICES ASSUME Init PROVE TypeOK
  OBVIOUS
<1>1. CheckerTypeOK
  <2>1. [v \in Vars |-> Untracked] \in Scope
    BY UntrackedType
  <2>2. <<>> \in Seq(Frame) /\ Len(<<>>) <= MaxDepth
    BY EmptySeq, ProgramVocabulary
  <2> QED
    BY <2>1, <2>2 DEF Init, CheckerInit, CheckerTypeOK
<1>2. OwnTypeOK
  BY NoValueType, EmptySeq DEF Init, OwnInit, OwnTypeOK
<1>3. ProgramTypeOK
  BY EmptySeq DEF Init, ProgramInit, CheckerInit, OwnInit, ProgramTypeOK
<1> QED
  BY <1>1, <1>2, <1>3 DEF TypeOK

\* The pieces of a statement make a whole step.
LEMMA BindingStep ==
  ASSUME TypeOK, NEW op, Statement(op), NEW V,
         CheckerTypeOK' /\ UNCHANGED <<frames, phase>>,
         OwnTypeOK' /\ UNCHANGED path,
         \A v \in Vars : typ'[v] = typ[v] \/ typ'[v] \in Types,
         \A v \in V : v \in Vars /\ typ'[v] \in Types,
         Declares(V)
  PROVE  TypeOK'
<1>1. ProgramTypeOK'
  BY SteadyNames DEF Declares, Statement
<1> QED
  BY <1>1 DEF TypeOK

LEMMA LetStep ==
  ASSUME TypeOK, NEW op, Statement(op), NEW v \in Vars, NEW t \in Types,
         CheckerTypeOK' /\ UNCHANGED <<frames, phase>>,
         OwnTypeOK' /\ UNCHANGED path, typ' = [typ EXCEPT ![v] = t],
         Declares({v})
  PROVE  TypeOK'
<1>1. typ'[v] \in Types /\ \A w \in Vars : typ'[w] = typ[w] \/ typ'[w] \in Types
  BY DEF TypeOK, OwnTypeOK
<1> QED
  BY <1>1, BindingStep

LEMMA PlainStep ==
  ASSUME TypeOK, phase = "body",
         CheckerTypeOK' /\ UNCHANGED frames, phase' # "start",
         OwnTypeOK' /\ UNCHANGED <<path, typ>>,
         UNCHANGED <<visible, outer>>, sealed' \in BOOLEAN
  PROVE  TypeOK'
BY SameNames DEF TypeOK

LEMMA LetNextType ==
  ASSUME TypeOK, LetNext
  PROVE  TypeOK'
<1> CheckerTypeOK /\ OwnTypeOK
  BY DEF TypeOK
<1>1. PICK v \in Vars :
        \/ \E t \in LinearTypes, ps \in Arguments : \E val \in FreshValues(t) :
             LetFresh(v, t, ps, val)
        \/ \E p \in Variables : LetMove(v, p) \/ LetValue(v, p)
        \/ \E p \in Parts : LetField(v, p)
        \/ \E x \in {y \in Usable : Pointer(typ[y])} : LetDeref(v, x)
        \/ \E t \in DOMAIN Element :
             \E ps \in [DOMAIN Element[t] -> Operands] : LetPack(v, t, ps)
  BY DEF LetNext
<1>2. ASSUME NEW t \in LinearTypes, NEW ps, NEW val \in FreshValues(t),
             LetFresh(v, t, ps, val)
      PROVE  TypeOK'
  <2>1. t \in Types /\ val \in Value
    BY FreshType DEF LinearTypes
  <2>2. CheckerTypeOK' /\ UNCHANGED <<frames, phase>>
    BY <1>2, <2>1, CheckVarDefType DEF LetFresh
  <2>3. OwnTypeOK' /\ UNCHANGED path /\ typ' = [typ EXCEPT ![v] = t]
    BY <1>2, <2>1, RunVarDefType DEF LetFresh
  <2>4. Statement("let") /\ Declares({v})
    BY <1>2 DEF LetFresh
  <2> QED
    BY <2>1, <2>2, <2>3, <2>4, LetStep
<1>3. ASSUME NEW p \in Variables \cup Parts, NEW ps, NEW op, Statement(op),
             CheckVarDef(v, TypeAt(p), ps), RunMove(v, p), Declares({v})
      PROVE  TypeOK'
  <2>1. PICK w \in Vars, s \in Slots : p = <<w, s>> /\ TypeAt(p) \in Types
    BY OperandType
  <2>2. CheckerTypeOK' /\ UNCHANGED <<frames, phase>>
    BY <1>3, <2>1, CheckVarDefType
  <2>3. OwnTypeOK' /\ UNCHANGED path /\ typ' = [typ EXCEPT ![v] = TypeAt(p)]
    BY <1>3, <2>1, RunMoveType
  <2> QED
    BY <1>3, <2>1, <2>2, <2>3, LetStep
<1>4. ASSUME NEW x \in Usable, LetDeref(v, x)
      PROVE  TypeOK'
  <2>1. x \in Vars /\ typ[x] \in Types /\ Star \in Fields
    BY <1>4, UsableType DEF LetDeref
  <2>2. FieldType[typ[x]][Star] \in Types
    BY <1>4, <2>1, OwnershipAssumption DEF LetDeref
  <2>3. TypeAt(<<x, Star>>) = FieldType[typ[x]][Star]
    BY <2>1, ProgramVocabulary DEF TypeAt
  <2>4. CheckerTypeOK' /\ UNCHANGED <<frames, phase>>
    BY <1>4, <2>2, CheckVarDefDerefType DEF LetDeref
  <2>5. OwnTypeOK' /\ UNCHANGED path
          /\ typ' = [typ EXCEPT ![v] = FieldType[typ[x]][Star]]
    BY <1>4, <2>1, <2>2, <2>3, RunMoveType DEF LetDeref
  <2>6. Statement("deref_move") /\ Declares({v})
    BY <1>4 DEF LetDeref
  <2> QED
    BY <2>2, <2>4, <2>5, <2>6, LetStep
<1>5. ASSUME NEW t \in DOMAIN Element, NEW ps \in [DOMAIN Element[t] -> Operands],
             LetPack(v, t, ps)
      PROVE  TypeOK'
  <2>1. t \in Types
    BY ProgramAssumption
  <2>2. ps \in [DOMAIN Element[t] -> Places]
    BY OperandsType
  <2>3. CheckerTypeOK' /\ UNCHANGED <<frames, phase>>
    BY <1>5, <2>1, CheckVarDefType DEF LetPack
  <2>4. OwnTypeOK' /\ UNCHANGED path /\ typ' = [typ EXCEPT ![v] = t]
    BY <1>5, <2>2, RunPackType DEF LetPack
  <2>5. Statement("pack") /\ Declares({v})
    BY <1>5 DEF LetPack
  <2> QED
    BY <2>1, <2>3, <2>4, <2>5, LetStep
<1>6. ASSUME NEW p \in Variables, LetMove(v, p) \/ LetValue(v, p)
      PROVE  TypeOK'
  BY <1>3, <1>6 DEF LetMove, LetValue
<1>7. ASSUME NEW p \in Parts, LetField(v, p)
      PROVE  TypeOK'
  BY <1>3, <1>7 DEF LetField
<1> QED
  BY <1>1, <1>2, <1>4, <1>5, <1>6, <1>7

LEMMA DestructureNextType ==
  ASSUME TypeOK, DestructureNext
  PROVE  TypeOK'
<1>1. PICK x \in Usable : typ[x] \in Tuples /\
        \E dst \in [Range(Element[typ[x]]) -> Vars] : LetDestructure(x, dst)
  BY DEF DestructureNext
<1>2. PICK dst \in [Range(Element[typ[x]]) -> Vars] : LetDestructure(x, dst)
  BY <1>1
<1>3. x \in Vars /\ CheckerTypeOK /\ OwnTypeOK
  BY UsableType DEF TypeOK
<1>4. CheckerTypeOK' /\ UNCHANGED <<frames, phase>>
  BY <1>2, <1>3, CheckDestructureType DEF LetDestructure
<1>5. /\ OwnTypeOK' /\ UNCHANGED path
      /\ \A v \in Vars : typ'[v] = typ[v] \/ typ'[v] \in Types
      /\ \A v \in Range(dst) : v \in Vars /\ typ'[v] \in Types
  BY <1>1, <1>2, <1>3, RunDestructureType DEF LetDestructure
<1>6. Statement("destructure") /\ Declares(Range(dst))
  BY <1>2 DEF LetDestructure
<1> QED
  BY <1>4, <1>5, <1>6, BindingStep

LEMMA StatementNextType ==
  ASSUME TypeOK, StatementNext
  PROVE  TypeOK'
<1> CheckerTypeOK /\ OwnTypeOK /\ sealed \in BOOLEAN
  BY DEF TypeOK, ProgramTypeOK
<1>1. ASSUME NEW ps, Call(ps)  PROVE TypeOK'
  <2>1. CheckerTypeOK' /\ UNCHANGED <<frames, phase>>
    BY <1>1, CheckCallStmtType DEF Call
  <2>2. OwnTypeOK' /\ UNCHANGED <<path, typ>>
    BY <1>1, RunStatementType DEF Call
  <2> QED
    BY <1>1, <2>1, <2>2, PlainStep DEF Call, Statement, NoDecl, programVars
<1>2. ASSUME NEW t, NEW val, Discard(t, val)  PROVE TypeOK'
  <2>1. CheckerTypeOK' /\ UNCHANGED <<frames, phase>>
    BY <1>2, CheckCallStmtType DEF Discard
  <2>2. OwnTypeOK' /\ UNCHANGED <<path, typ>>
    BY <1>2, RunStatementType DEF Discard
  <2> QED
    BY <1>2, <2>1, <2>2, PlainStep DEF Discard, Statement, NoDecl, programVars
<1>3. ASSUME NEW p, Free(p) \/ FreeInner(p)  PROVE TypeOK'
  <2>1. CheckerTypeOK' /\ UNCHANGED <<frames, phase>>
    BY <1>3, CheckFreeType DEF Free, FreeInner
  <2>2. OwnTypeOK' /\ UNCHANGED <<path, typ>>
    BY <1>3, RunStatementType DEF Free, FreeInner
  <2> QED
    BY <1>3, <2>1, <2>2, PlainStep DEF Free, FreeInner, Statement, NoDecl, programVars
<1>4. ASSUME NEW p, AddrOf(p) \/ Other(p) \/ Use(p)  PROVE TypeOK'
  <2>1. CheckerTypeOK' /\ UNCHANGED <<frames, phase>>
    BY <1>4, LookingType DEF AddrOf, Other, Use
  <2>2. OwnTypeOK' /\ UNCHANGED <<path, typ>>
    BY <1>4, RunStatementType DEF AddrOf, Other, Use
  <2> QED
    BY <1>4, <2>1, <2>2, PlainStep DEF AddrOf, Other, Use, Statement, NoDecl, programVars
<1>5. ASSUME NEW x \in Usable, NEW w \in Usable, StoreDeref(x, w)  PROVE TypeOK'
  <2>1. x \in Vars /\ w \in Vars /\ Star \in Fields
    BY <1>5, UsableType DEF StoreDeref
  <2>2. CheckerTypeOK' /\ UNCHANGED <<frames, phase>>
    BY <1>5, <2>1, CheckStoreDerefType DEF StoreDeref
  <2>3. env[w][Root] \in CellOrNil
    BY <2>1 DEF OwnTypeOK
  <2>4. OwnTypeOK' /\ UNCHANGED <<path, typ>>
    BY <1>5, <2>1, <2>3, RunStoreDerefType DEF StoreDeref
  <2> QED
    BY <1>5, <2>2, <2>4, PlainStep DEF StoreDeref, Statement, NoDecl, programVars
<1>6. ASSUME NEW x \in Usable, NEW w \in Usable, NEW f \in Fields, StoreField(x, f, w)
      PROVE  TypeOK'
  <2>1. x \in Vars /\ w \in Vars
    BY UsableType
  <2>2. CheckerTypeOK' /\ UNCHANGED <<frames, phase>>
    BY <1>6, ReturnAndStoreFieldType DEF StoreField
  <2>3. OwnTypeOK' /\ UNCHANGED <<path, typ>>
    BY <1>6, <2>1, RunStoreFieldType DEF StoreField
  <2> QED
    BY <1>6, <2>2, <2>3, PlainStep DEF StoreField, Statement, NoDecl, programVars
<1>7. ASSUME NEW ps, EarlyReturn(ps) \/ Return(ps)  PROVE TypeOK'
  <2>1. CheckerTypeOK' /\ UNCHANGED <<frames, phase>>
    BY <1>7, ReturnAndStoreFieldType DEF EarlyReturn, Return
  <2>2. OwnTypeOK' /\ UNCHANGED <<path, typ>>
    BY <1>7, RunExitType DEF EarlyReturn, Return
  <2>3. phase = "body" /\ UNCHANGED <<visible, outer>> /\ sealed' \in BOOLEAN
    BY <1>7 DEF EarlyReturn, Return, Statement, NoDecl, programVars
  <2> QED
    BY <2>1, <2>2, <2>3, PlainStep
<1> QED
  BY <1>1, <1>2, <1>3, <1>4, <1>5, <1>6, <1>7 DEF StatementNext

LEMMA BeginFunctionType ==
  ASSUME TypeOK, NEW params, NEW val \in Value,
         DOMAIN params \subseteq Vars, \A v \in DOMAIN params : params[v] \in Types,
         BeginFunction(params, val)
  PROVE  TypeOK'
<1> CheckerTypeOK /\ OwnTypeOK /\ ProgramTypeOK
  BY DEF TypeOK
<1>1. CheckerTypeOK' /\ UNCHANGED frames /\ phase' # "start"
  <2>1. scope' \in Scope
    BY CheckerAssumption DEF BeginFunction, CheckFunc, CheckerTypeOK
  <2> QED
    BY <2>1 DEF BeginFunction, CheckFunc, CheckerTypeOK
<1>2. typ' = [v \in Vars |-> IF v \in DOMAIN params THEN params[v] ELSE NoType]
  BY DEF BeginFunction
<1>3. OwnTypeOK' /\ UNCHANGED path
  <2>1. typ' \in [Vars -> Types \cup {NoType}]
    BY <1>2
  <2>2. env' \in [Vars -> Value]
    BY NoValueType DEF BeginFunction
  <2>3. heap' \in Heap
    BY HeapTypes DEF BeginFunction, Heap
  <2> QED
    BY <2>1, <2>2, <2>3 DEF BeginFunction, OwnTypeOK, Heap
<1>4. visible' \subseteq Declared'
  BY <1>2, OwnershipAssumption DEF BeginFunction, Declared
<1>5. frames = <<>> /\ Len(outer) = 0
  BY DEF BeginFunction, CheckFunc, ProgramTypeOK
<1>6. outer' = <<>>
  BY <1>5, EmptySeq DEF BeginFunction, ProgramTypeOK
<1>7. outer' \in Seq(SUBSET (Declared'))
  BY <1>6, EmptySeq
<1>8. /\ Len(outer') = Len(frames') /\ Len(path') = Len(frames')
      /\ sealed' \in BOOLEAN
  BY <1>1, <1>3 DEF BeginFunction, ProgramTypeOK
<1>9. ProgramTypeOK'
  BY <1>1, <1>4, <1>7, <1>8 DEF ProgramTypeOK
<1> QED
  BY <1>1, <1>3, <1>9 DEF TypeOK

LEMMA OpenType ==
  ASSUME TypeOK, If \/ Case \/ Loop
  PROVE  TypeOK'
<1> CheckerTypeOK /\ OwnTypeOK /\ ProgramTypeOK
  BY DEF TypeOK
<1>1. CheckerTypeOK' /\ Len(frames') = Len(frames) + 1 /\ phase' = "body"
  BY BeginType DEF If, Case, Loop, Statement
<1>2. RunBegin({"now", "waiting"}) \/ RunBegin({"now", "skip"})
  BY DEF If, Case, Loop, RunBeginBranch, RunBeginLoop
<1>3. OwnTypeOK' /\ UNCHANGED typ /\ Len(path') = Len(path) + 1
  <2>1. {"now", "waiting"} \in SUBSET Runs /\ {"now", "skip"} \in SUBSET Runs
    BY DEF Runs
  <2> QED
    BY <1>2, <2>1, RunBeginType
<1>4. Declared' = Declared /\ Opens
  BY <1>3 DEF Declared, If, Case, Loop
<1>5. outer' \in Seq(SUBSET Declared) /\ Len(outer') = Len(outer) + 1
  BY <1>4, AppendToSeq DEF Opens, ProgramTypeOK
<1>6. Len(outer') = Len(frames') /\ Len(path') = Len(frames')
  BY <1>1, <1>3, <1>5 DEF ProgramTypeOK
<1>7. ProgramTypeOK'
  BY <1>1, <1>4, <1>5, <1>6 DEF ProgramTypeOK, Opens
<1> QED
  BY <1>1, <1>3, <1>7 DEF TypeOK

LEMMA ArmType ==
  ASSUME TypeOK, Arm
  PROVE  TypeOK'
<1> CheckerTypeOK /\ OwnTypeOK /\ ProgramTypeOK
  BY DEF TypeOK
<1>1. /\ CheckerTypeOK' /\ Len(frames') = Len(frames)
      /\ frames # <<>> /\ phase' = "body"
  BY NextArmType DEF Arm, NextArm, InBody
<1>2. PICK n \in Nat : Len(frames) = n + 1
  BY <1>1, NonEmptySeq DEF CheckerTypeOK
<1>3. Len(path) = n + 1 /\ Len(outer) = n + 1
  BY <1>2 DEF ProgramTypeOK
<1>4. path # <<>>
  BY <1>3, EmptySeq
<1>5. OwnTypeOK' /\ UNCHANGED typ /\ Len(path') = Len(path)
  BY <1>4, RunNextArmType DEF Arm
<1>6. Declared' = Declared
  BY <1>5 DEF Declared
<1>7. visible' \subseteq Declared
  <2>1. Last(outer) \in SUBSET Declared
    BY <1>3, FrontOfSeq DEF ProgramTypeOK
  <2> QED
    BY <2>1 DEF Arm
<1>8. ProgramTypeOK'
  BY <1>1, <1>5, <1>6, <1>7 DEF ProgramTypeOK, Arm
<1> QED
  BY <1>1, <1>5, <1>8 DEF TypeOK

LEMMA CloseType ==
  ASSUME TypeOK, Join \/ LoopEnd
  PROVE  TypeOK'
<1> CheckerTypeOK /\ OwnTypeOK /\ ProgramTypeOK
  BY DEF TypeOK
<1>1. /\ CheckerTypeOK' /\ Len(frames') = Len(frames) - 1
      /\ frames # <<>> /\ phase' = "body"
  BY EndType DEF Join, LoopEnd, EndBranch, EndLoop, InBody
<1>2. PICK n \in Nat : Len(frames) = n + 1
  BY <1>1, NonEmptySeq DEF CheckerTypeOK
<1>3. Len(path) = n + 1 /\ Len(outer) = n + 1
  BY <1>2 DEF ProgramTypeOK
<1>4. path # <<>>
  BY <1>3, EmptySeq
<1>5. OwnTypeOK' /\ UNCHANGED typ /\ Len(path') = Len(path) - 1
  BY <1>4, RunEndType DEF Join, LoopEnd
<1>6. Declared' = Declared /\ Closes
  BY <1>5 DEF Declared, Join, LoopEnd
<1>7. /\ visible' \subseteq Declared /\ outer' \in Seq(SUBSET Declared)
      /\ Len(outer') = n
  BY <1>3, <1>6, FrontOfSeq DEF Closes, ProgramTypeOK
<1>8. Len(outer') = Len(frames') /\ Len(path') = Len(frames')
  BY <1>1, <1>2, <1>3, <1>5, <1>7
<1>9. ProgramTypeOK'
  BY <1>1, <1>6, <1>7, <1>8 DEF ProgramTypeOK, Closes
<1> QED
  BY <1>1, <1>5, <1>9 DEF TypeOK

LEMMA EndFunctionType ==
  ASSUME TypeOK, EndFunction
  PROVE  TypeOK'
<1> CheckerTypeOK /\ OwnTypeOK /\ sealed \in BOOLEAN
  BY DEF TypeOK, ProgramTypeOK
<1>1. CheckerTypeOK' /\ UNCHANGED frames /\ phase' # "start" /\ phase = "body"
  BY ReportType DEF EndFunction, PopScopeAndCheck, InBody, CheckerTypeOK, Errors
<1>2. OwnTypeOK' /\ UNCHANGED <<path, typ>>
  BY RunExitType DEF EndFunction
<1> QED
  BY <1>1, <1>2, PlainStep DEF EndFunction, NoDecl, programVars

LEMMA TypeOKStep == TypeOK /\ [Next]_vars => TypeOK'
<1> SUFFICES ASSUME TypeOK, [Next]_vars  PROVE TypeOK'
  OBVIOUS
<1>1. CASE UNCHANGED vars
  BY <1>1 DEF vars, checkerVars, ownVars, programVars, TypeOK, CheckerTypeOK,
              OwnTypeOK, ProgramTypeOK, Declared
<1>2. CASE BeginFunction(<<>>, NoValue)
  <2>1. DOMAIN <<>> = {}
    OBVIOUS
  <2> QED
    BY <1>2, <2>1, NoValueType, BeginFunctionType
<1>3. ASSUME NEW v \in Vars, NEW t \in LinearTypes, NEW val \in FreshValues(t),
             BeginFunction([x \in {v} |-> t], val)
      PROVE  TypeOK'
  <2>1. t \in Types /\ val \in Value
    BY FreshType DEF LinearTypes
  <2> QED
    BY <1>3, <2>1, BeginFunctionType
<1>4. CASE LetNext \/ DestructureNext \/ StatementNext
  BY <1>4, LetNextType, DestructureNextType, StatementNextType
<1>5. CASE If \/ Case \/ Loop
  BY <1>5, OpenType
<1>6. CASE Arm \/ Join \/ LoopEnd
  BY <1>6, ArmType, CloseType
<1>7. CASE EndFunction
  BY <1>7, EndFunctionType
<1> QED
  BY <1>1, <1>2, <1>3, <1>4, <1>5, <1>6, <1>7 DEF Next

\* In every reachable state the checker's maps, the machine's memory and the
\* scopes are well typed, every name in scope has a type, and the checker's
\* frames, the executed path and the open blocks nest alike: the walk of
\* LinearTypeChecker.cpp and the code MLIRGenExpr.cpp emits stay in step.
THEOREM TypeCorrect == Spec => []TypeOK
BY TypeOKInit, TypeOKStep, PTL DEF Spec
=============================================================================
