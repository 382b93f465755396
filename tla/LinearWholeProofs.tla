-------------------------- MODULE LinearWholeProofs --------------------------
(***************************************************************************)
(* For functions of the fragment, with any number of variables, types,     *)
(* cells, arms and nested constructs: what the linear checker accepts      *)
(* neither frees a cell twice, nor uses a freed or unset one, nor, without *)
(* the statements known to drop cells, loses one.                          *)
(***************************************************************************)
EXTENDS LinearWhole, LinearSoundnessProofs

(***************************************************************************)
(* First the walk: how the maps of the linear checker fit together at      *)
(* every point of it, whatever is executed (Walk of WholeInvariant).       *)
(***************************************************************************)
USE DEF Slots, VarState, States, VarInfo, Scope

-----------------------------------------------------------------------------
(* The state of a variable and of its parts in the maps *)

LEMMA AtType ==
  ASSUME NEW M \in Scope, NEW v \in Vars
  PROVE  At(M, v) \in States
BY DEF At

LEMMA AtConsume ==
  ASSUME NEW M \in Scope, NEW P, NEW v \in Vars
  PROVE  At(Consume(M, P), v) =
           IF <<v, Root>> \in P /\ At(M, v) # "none" THEN "Consumed" ELSE At(M, v)
BY DEF At, Consume

LEMMA AtRegister ==
  ASSUME NEW M \in Scope, NEW v \in Vars, NEW t \in Types, Inner[t][Root] = "Unconsumed",
         NEW w \in Vars
  PROVE  /\ At(RegisterIfLinear(M, v, t), w) = IF w = v THEN "Unconsumed" ELSE At(M, w)
         /\ \A f \in Fields : RegisterIfLinear(M, v, t)[w][f] =
              IF w = v THEN Inner[t][f] ELSE M[w][f]
BY DEF At, RegisterIfLinear, ContainsLinear

LEMMA AtRestore ==
  ASSUME NEW M \in Scope, NEW before \in Scope, NEW v \in Vars
  PROVE  At(Restore(M, before), v) =
           IF At(before, v) # "none" THEN At(before, v) ELSE At(M, v)
BY DEF At, Restore

LEMMA AtJoin ==
  ASSUME NEW M \in Scope, NEW before \in Scope, NEW arms, NEW v \in Vars
  PROVE  At(CheckBranchConsistency(M, before, arms), v) =
           IF /\ At(before, v) = "Unconsumed"
              /\ \E k \in DOMAIN arms : At(arms[k], v) = "Consumed"
           THEN "Consumed" ELSE At(M, v)
BY DEF At, CheckBranchConsistency, Compared, ArmStates

\* Whole variables are consumed, and maps are set back for whole variables.
LEMMA PartsConsume ==
  ASSUME NEW M \in Scope, NEW P, \A p \in P : p[2] = Root, NEW v \in Vars, NEW f \in Fields
  PROVE  Consume(M, P)[v][f] = M[v][f]
BY ProgramVocabulary DEF Consume

LEMMA PartsRestore ==
  ASSUME NEW M \in Scope, NEW before \in Scope, LikeRegistered(M), LikeRegistered(before)
  PROVE  LikeRegistered(Restore(M, before))
BY DEF LikeRegistered, At, Restore

LEMMA PartsJoin ==
  ASSUME NEW M \in Scope, NEW before \in Scope, LikeRegistered(M), LikeRegistered(before),
         NEW arms, \A k \in DOMAIN arms : LikeRegistered(arms[k]),
         \A v \in Vars : At(before, v) # "none" => At(M, v) # "none"
  PROVE  LikeRegistered(CheckBranchConsistency(M, before, arms))
<1> DEFINE N == CheckBranchConsistency(M, before, arms)
<1>1. ASSUME NEW v \in Vars, NEW f \in Fields
      PROVE  N[v][f] = IF At(N, v) = "none" THEN "none" ELSE Inner[typ[v]][f]
  <2>1. At(N, v) = "none" <=> At(M, v) = "none"
    BY DEF At, CheckBranchConsistency, Compared
  <2>2. ~(before[v][f] = "Unconsumed" /\ "Consumed" \in ArmStates(arms, v, f))
    BY DEF LikeRegistered, ArmStates
  <2>3. N[v][f] = M[v][f]
    BY <2>2 DEF CheckBranchConsistency, Compared
  <2> QED BY <2>1, <2>3 DEF LikeRegistered
<1> QED BY <1>1 DEF LikeRegistered

LEMMA ArmsAgree ==
  ASSUME NEW before, NEW arms, ~Mismatch(before, arms), NEW v \in Vars,
         At(before, v) = "Unconsumed",
         NEW i \in DOMAIN arms, NEW j \in DOMAIN arms,
         At(arms[i], v) = "Unconsumed", At(arms[j], v) = "Consumed",
         \A k \in DOMAIN arms : At(arms[k], v) \in States
  PROVE  FALSE
<1>1. /\ \A s \in ArmStates(arms, v, Root) : s \in VarState
      /\ "Unconsumed" \in ArmStates(arms, v, Root)
      /\ "Consumed" \in ArmStates(arms, v, Root)
  BY DEF ArmStates, At
<1>2. ArmStates(arms, v, Root) = VarState
  BY <1>1
<1> QED BY <1>2 DEF Mismatch, Compared, At

-----------------------------------------------------------------------------
(* A plain statement: it consumes names in scope and may declare new ones *)

NewNames(V) ==
  /\ V \subseteq Vars \ Declared
  /\ visible' = visible \cup V /\ Declared' = Declared \cup V

Plain(W, V) ==
  /\ W \subseteq visible /\ NewNames(V)
  /\ \A v \in Vars : At(scope', v) = IF v \in V THEN "Unconsumed"
                                     ELSE IF v \in W THEN "Consumed" ELSE At(scope, v)
  /\ \A v \in Vars, f \in Fields :
       scope'[v][f] = IF v \in V THEN Inner[typ'[v]][f] ELSE scope[v][f]
  /\ \A v \in V : typ'[v] \in dialect.types
  /\ \A v \in Declared : typ'[v] = typ[v]
  /\ phase = "body" /\ phase' = "body"
  /\ UNCHANGED <<frames, outer, dialect>>
  /\ ~sealed /\ (sealed' => frames = <<>>)

LEMMA PlainWalk ==
  ASSUME TypeOK, Walk, NEW W, NEW V, Plain(W, V)
  PROVE  Walk'
<1> USE DEF Plain, NewNames
<1>0. /\ visible \subseteq Declared /\ visible \subseteq Vars
      /\ Open' = Open /\ (\A i : Before(i)' = Before(i) /\ Snapshots(i)' = Snapshots(i))
      /\ outer' = outer /\ Frozen' = Frozen
  BY DEF TypeOK, ProgramTypeOK, Declared, Open, Before, Snapshots, Frozen
<1>1. NothingBefore'
  BY DEF NothingBefore
<1>2. TrackedAreDeclared'
  BY <1>0 DEF Walk, TrackedAreDeclared
<1>3. VisibleAreTracked'
  BY <1>0 DEF Walk, VisibleAreTracked
<1>4. BlocksNest'
  BY <1>0 DEF Walk, BlocksNest
<1>5. ArmNamesAreNew'
  BY <1>0 DEF Walk, ArmNamesAreNew, TrackedAreDeclared
<1>6. MapsProgress'
  <2>1. Later(scope, scope')
    BY DEF Later, Walk, TrackedAreDeclared
  <2>2. \A i \in Open : Later(Before(i), scope) => Later(Before(i), scope')
    BY <2>1 DEF Later
  <2> QED BY <1>0, <2>2 DEF Walk, MapsProgress
<1>7. FrozenNames'
  <2>1. \A v \in Frozen : At(scope', v) = At(scope, v)
    BY DEF Frozen, Declared
  <2> QED BY <1>0, <2>1 DEF Walk, FrozenNames
<1>8. SealedIsLast'
  BY DEF SealedIsLast
<1>9. DeclaredAreWhole'
  BY DEF Walk, DeclaredAreWhole
<1>10. PartsStay'
  <2>1. LikeRegistered(scope)'
    <3>1. ASSUME NEW v \in Vars, NEW f \in Fields, v \in V
          PROVE  scope'[v][f] = IF At(scope', v) = "none" THEN "none" ELSE Inner[typ'[v]][f]
      BY <3>1
    <3>2. ASSUME NEW v \in Vars, NEW f \in Fields, v \notin V
          PROVE  scope'[v][f] = IF At(scope', v) = "none" THEN "none" ELSE Inner[typ'[v]][f]
      <4>1. v \in W => At(scope, v) # "none"
        BY DEF Walk, VisibleAreTracked
      <4>2. At(scope, v) # "none" => typ'[v] = typ[v]
        BY DEF Walk, TrackedAreDeclared
      <4>3. At(scope', v) = IF v \in W THEN "Consumed" ELSE At(scope, v)
        BY <3>2
      <4>4. scope'[v][f] = scope[v][f]
        BY <3>2
      <4>5. scope[v][f] = IF At(scope, v) = "none" THEN "none" ELSE Inner[typ[v]][f]
        BY DEF Walk, PartsStay, LikeRegistered
      <4> QED BY <4>1, <4>2, <4>3, <4>4, <4>5
    <3> QED BY <3>1, <3>2 DEF LikeRegistered
  <2>2. ASSUME NEW i \in Open, NEW M \in Snapshots(i)  PROVE LikeRegistered(M)'
    <3>1. \A v \in Vars : At(M, v) # "none" => typ'[v] = typ[v]
      BY DEF Walk, TrackedAreDeclared
    <3> QED BY <3>1 DEF Walk, PartsStay, LikeRegistered
  <2> QED BY <1>0, <2>1, <2>2 DEF PartsStay
<1> QED BY <1>1, <1>2, <1>3, <1>4, <1>5, <1>6, <1>7, <1>8, <1>9, <1>10 DEF Walk

-----------------------------------------------------------------------------
(* Constructs open *)

Opened(kind) ==
  /\ kind \in {"if", "case", "loop"}
  /\ frames' = Append(frames, [kind |-> kind, before |-> scope, arms |-> <<>>])
  /\ outer' = Append(outer, visible)
  /\ phase = "body" /\ phase' = "body" /\ ~sealed
  /\ UNCHANGED <<scope, visible, dialect, sealed, typ>> /\ Declared' = Declared

\* The new construct is the last; the others are as they were.
LEMMA OpenedFrames ==
  ASSUME TypeOK, NEW kind, Opened(kind), NEW n, n = Len(frames)
  PROVE  /\ n \in Nat /\ Open = 1 .. n /\ Open' = 1 .. n + 1
         /\ \A i \in Open : frames'[i] = frames[i] /\ outer'[i] = outer[i]
         /\ frames'[n + 1] = [kind |-> kind, before |-> scope, arms |-> <<>>]
         /\ outer'[n + 1] = visible
<1>1. frames \in Seq(Frame) /\ outer \in Seq(SUBSET Declared) /\ Len(outer) = n
  BY DEF TypeOK, CheckerTypeOK, ProgramTypeOK
<1>2. [kind |-> kind, before |-> scope, arms |-> <<>>] \in Frame /\ visible \in SUBSET Declared
  BY EmptySeq DEF Opened, Frame, TypeOK, CheckerTypeOK, ProgramTypeOK
<1>3. /\ Len(frames') = n + 1 /\ n \in Nat /\ frames' \in Seq(Frame)
      /\ \A i \in 1 .. n : frames'[i] = frames[i]
      /\ frames'[n + 1] = [kind |-> kind, before |-> scope, arms |-> <<>>]
  BY <1>1, <1>2, AppendToSeq, LenProperties DEF Opened
<1>4. (\A i \in 1 .. n : outer'[i] = outer[i]) /\ outer'[n + 1] = visible
  BY <1>1, <1>2, AppendToSeq DEF Opened
<1> QED BY <1>1, <1>3, <1>4, LenProperties DEF Open

LEMMA OpenedWalk ==
  ASSUME TypeOK, Walk, NEW kind, Opened(kind)
  PROVE  Walk'
<1>0. PICK n \in Nat : n = Len(frames)
  BY LenProperties DEF TypeOK, CheckerTypeOK
<1>1. /\ n \in Nat /\ Open = 1 .. n /\ Open' = 1 .. n + 1
      /\ \A i \in Open : frames'[i] = frames[i] /\ outer'[i] = outer[i]
      /\ frames'[n + 1] = [kind |-> kind, before |-> scope, arms |-> <<>>]
      /\ outer'[n + 1] = visible
  BY <1>0, OpenedFrames
<1>2. /\ \A i \in Open : Before(i)' = Before(i) /\ Snapshots(i)' = Snapshots(i)
      /\ Before(n + 1)' = scope /\ Snapshots(n + 1)' = {scope}
  <2>1. \A i \in Open : Before(i)' = Before(i) /\ Snapshots(i)' = Snapshots(i)
    BY <1>1 DEF Before, Snapshots
  <2>2. Before(n + 1)' = scope
    BY <1>1 DEF Before
  <2>3. DOMAIN frames'[n + 1].arms = {}
    BY <1>1
  <2> QED BY <2>1, <2>2, <2>3 DEF Snapshots, Before
<1>3. /\ visible \subseteq Declared /\ Open' = Open \cup {n + 1}
      /\ scope' = scope /\ visible' = visible /\ Declared' = Declared /\ Frozen' = Frozen
  BY <1>1 DEF TypeOK, ProgramTypeOK, Opened, Frozen
<1>4. NothingBefore' /\ SealedIsLast'
  BY DEF NothingBefore, SealedIsLast, Opened
<1>5. TrackedAreDeclared'
  BY <1>2, <1>3 DEF Walk, TrackedAreDeclared
<1>6. VisibleAreTracked'
  BY <1>1, <1>2, <1>3 DEF Walk, VisibleAreTracked
<1>7. BlocksNest'
  BY <1>1, <1>3 DEF Walk, BlocksNest
<1>8. ArmNamesAreNew'
  BY <1>1, <1>2, <1>3 DEF Walk, ArmNamesAreNew
<1>9. MapsProgress'
  <2>1. Later(scope, scope) /\ \A i \in Open : Later(Before(i), scope)
    BY DEF Later, Walk, MapsProgress
  <2>2. \A i \in Open' : Later(Before(i), scope)'
    BY <1>2, <1>3, <2>1
  <2>3. ASSUME NEW i \in Open', NEW j \in Open', i <= j, NEW M \in Snapshots(j)'
        PROVE  Later(Before(i)', M)
    BY <1>1, <1>2, <1>3, <2>1, <2>3 DEF Walk, MapsProgress
  <2> QED BY <2>2, <2>3 DEF MapsProgress, Later
<1>10. FrozenNames'
  BY <1>2, <1>3 DEF Walk, FrozenNames
<1>11. DeclaredAreWhole' /\ PartsStay'
  BY <1>2, <1>3 DEF Walk, DeclaredAreWhole, PartsStay, LikeRegistered, Opened
<1> QED BY <1>4, <1>5, <1>6, <1>7, <1>8, <1>9, <1>10, <1>11 DEF Walk

-----------------------------------------------------------------------------
(* Arms and constructs end: the map is set back to the one before, but for *)
(* what was declared since and for what a branch has consumed              *)

SetBack(n) ==
  \A v \in Vars :
    /\ At(Before(n), v) = "none" => At(scope', v) = At(scope, v)
    /\ At(Before(n), v) = "Consumed" => At(scope', v) = "Consumed"
    /\ At(Before(n), v) = "Unconsumed" =>
         \/ At(scope', v) = "Unconsumed"
         \/ /\ At(scope', v) = "Consumed"
            /\ \E M \in Snapshots(n) \cup {scope} : At(M, v) = "Consumed"

Turned(n) ==
  /\ n = Len(frames) /\ n \in Open /\ SetBack(n) /\ LikeRegistered(scope)'
  /\ visible' = outer[n] /\ Declared' = Declared /\ typ' = typ
  /\ phase = "body" /\ phase' = "body" /\ sealed' = sealed /\ dialect' = dialect
  /\ Open' \subseteq Open
  /\ \A i \in Open' : outer'[i] = outer[i]
  /\ \A i \in Open' : Before(i)' = Before(i) /\ Snapshots(i)' \subseteq Snapshots(i) \cup {scope}
  /\ \A i \in Open' : i # n => Snapshots(i)' = Snapshots(i)

LEMMA SnapshotTypes ==
  ASSUME TypeOK, NEW i \in Open
  PROVE  /\ Before(i) \in Scope /\ Before(i) \in Snapshots(i)
         /\ \A M \in Snapshots(i) : M \in Scope
         /\ scope \in Scope
<1>1. frames[i] \in Frame
  BY ElementOfSeq, LenProperties DEF TypeOK, CheckerTypeOK, Open
<1>2. \A k \in DOMAIN frames[i].arms : frames[i].arms[k] \in Scope
  BY <1>1, ElementOfSeq, LenProperties, ZenonT(60) DEF Frame
<1>3. Before(i) \in Scope /\ scope \in Scope
  BY <1>1 DEF Frame, Before, TypeOK, CheckerTypeOK
<1> QED BY <1>2, <1>3 DEF Snapshots

\* What was declared in the construct, and what ended before it began, is as
\* it was at its end.
LEMMA InnerNamesStay ==
  ASSUME TypeOK, Walk, NEW n, n \in Open, SetBack(n), NEW v \in Declared \ outer[n]
  PROVE  At(scope', v) = At(scope, v)
<1>1. CASE v \in visible
  BY <1>1 DEF Walk, ArmNamesAreNew, SetBack, Snapshots, Declared
<1>2. CASE v \notin visible
  <2>1. \A M \in Snapshots(n) : At(M, v) \in {"none", At(scope, v)}
    BY <1>2 DEF Walk, FrozenNames, Frozen
  <2>2. At(Before(n), v) \in States /\ Before(n) \in Snapshots(n)
    BY SnapshotTypes, AtType DEF Declared
  <2>3. \A M \in Snapshots(n) \cup {scope} : At(scope, v) = "Unconsumed" => At(M, v) # "Consumed"
    BY <2>1
  <2> QED BY <2>1, <2>2, <2>3 DEF SetBack, Declared
<1> QED BY <1>1, <1>2

LEMMA TurnedWalk ==
  ASSUME TypeOK, Walk, NEW n, Turned(n)
  PROVE  Walk'
<1> USE DEF Turned
<1>1. /\ n \in Open /\ n \in Nat /\ \A i \in Open : i \in Nat /\ i <= n
      /\ frames # <<>> /\ visible \subseteq Declared /\ Declared \subseteq Vars
      /\ Before(n) \in Snapshots(n)
  BY LenProperties, EmptySeq
     DEF TypeOK, CheckerTypeOK, ProgramTypeOK, Open, Declared, Snapshots
<1>2. outer[n] \subseteq visible /\ Frozen \subseteq Frozen' /\ Frozen' = Declared \ outer[n]
  BY <1>1 DEF Walk, BlocksNest, Frozen
<1>3. \A v \in Frozen' : At(scope', v) = At(scope, v)
  BY <1>1, <1>2, InnerNamesStay
<1>4. NothingBefore' /\ SealedIsLast'
  BY <1>1 DEF NothingBefore, SealedIsLast, Walk
<1>5. TrackedAreDeclared'
  BY <1>1 DEF Walk, TrackedAreDeclared, SetBack
<1>6. VisibleAreTracked'
  <2>1. \A v \in outer[n] : At(Before(n), v) # "none"
    BY <1>1 DEF Walk, VisibleAreTracked
  <2>2. \A v \in outer[n] : At(Before(n), v) \in States
    BY <1>1, <1>2, SnapshotTypes, AtType
  <2>3. \A v \in visible' : At(scope', v) # "none"
    BY <1>1, <1>2, <2>1, <2>2 DEF SetBack
  <2> QED BY <2>3 DEF Walk, VisibleAreTracked
<1>7. BlocksNest'
  <2>1. \A i \in Open : outer[i] \subseteq outer[n]
    <3>1. \A i \in Open : i = n \/ i < n
      BY <1>1
    <3> QED BY <1>1, <3>1 DEF Walk, BlocksNest
  <2> QED BY <2>1 DEF Walk, BlocksNest
<1>8. ArmNamesAreNew'
  BY <1>1, <1>2 DEF Walk, ArmNamesAreNew
<1>9. MapsProgress'
  <2>1. ASSUME NEW i \in Open  PROVE Later(Before(i), scope')
    <3>1. Later(Before(i), Before(n))
      BY <1>1 DEF Walk, MapsProgress
    <3>2. \A v \in Vars : At(Before(n), v) \in States
      BY <1>1, SnapshotTypes, AtType
    <3> QED BY <3>1, <3>2 DEF Later, SetBack
  <2>2. ASSUME NEW i \in Open', NEW j \in Open', i <= j, NEW M \in Snapshots(j)'
        PROVE  Later(Before(i)', M)
    BY <2>2 DEF Walk, MapsProgress
  <2> QED BY <2>1, <2>2 DEF MapsProgress, Later
<1>10. FrozenNames'
  <2>1. ASSUME NEW i \in Open', NEW M \in Snapshots(i)', NEW v \in Frozen'
        PROVE  At(M, v) \in {"none", At(scope, v)}
    <3>1. CASE M = scope
      BY <3>1
    <3>2. CASE M \in Snapshots(i) /\ v \in visible
      <4>1. v \notin outer[i]
        BY <1>1, <1>2 DEF Walk, BlocksNest
      <4> QED BY <3>2, <4>1 DEF Walk, ArmNamesAreNew
    <3>3. CASE M \in Snapshots(i) /\ v \notin visible
      BY <3>3, <1>2 DEF Walk, FrozenNames, Frozen
    <3> QED BY <2>1, <3>1, <3>2, <3>3
  <2> QED BY <2>1, <1>3 DEF FrozenNames
<1>11. DeclaredAreWhole'
  BY DEF Walk, DeclaredAreWhole
<1>12. PartsStay'
  <2>1. ASSUME NEW M, LikeRegistered(M)  PROVE LikeRegistered(M)'
    BY <2>1 DEF LikeRegistered
  <2>2. \A i \in Open' : \A M \in Snapshots(i)' : LikeRegistered(M)
    BY DEF Walk, PartsStay
  <2> QED BY <2>1, <2>2 DEF PartsStay, LikeRegistered
<1> QED BY <1>4, <1>5, <1>6, <1>7, <1>8, <1>9, <1>10, <1>11, <1>12 DEF Walk

-----------------------------------------------------------------------------
(* The actions that end an arm or a construct *)

Restored(n) ==
  \A v \in Vars : At(scope', v) = IF At(Before(n), v) # "none" THEN At(Before(n), v)
                                  ELSE At(scope, v)

\* Only the last of the open constructs is concerned.
LEMMA TopOfStacks ==
  ASSUME TypeOK, frames # <<>>
  PROVE  \E n \in Nat :
           /\ n = Len(frames) /\ n \in Open /\ Open = 1 .. n /\ n - 1 \in Nat
           /\ Last(frames) = frames[n] /\ Last(outer) = outer[n]
           /\ frames[n] \in Frame /\ frames[n].arms \in Seq(Scope)
           /\ Len(Front(frames)) = n - 1 /\ DOMAIN Front(frames) = 1 .. n - 1
           /\ \A i \in 1 .. n - 1 : Front(frames)[i] = frames[i] /\ Front(outer)[i] = outer[i]
<1>1. frames \in Seq(Frame) /\ outer \in Seq(SUBSET Declared) /\ Len(outer) = Len(frames)
  BY DEF TypeOK, CheckerTypeOK, ProgramTypeOK
<1>2. PICK m \in Nat : Len(frames) = m + 1
  BY <1>1, NonEmptySeq
<1>3. /\ Front(frames) \in Seq(Frame) /\ Len(Front(frames)) = m
      /\ \A i \in 1 .. m : Front(frames)[i] = frames[i]
      /\ Last(frames) \in Frame /\ Last(frames) = frames[m + 1]
  BY <1>1, <1>2, FrontOfSeq
<1>4. /\ \A i \in 1 .. m : Front(outer)[i] = outer[i]
      /\ Last(outer) = outer[m + 1]
  BY <1>1, <1>2, FrontOfSeq, ZenonT(60)
<1>5. DOMAIN frames = 1 .. m + 1 /\ DOMAIN Front(frames) = 1 .. m
  BY <1>1, <1>2, <1>3, LenProperties
<1>6. frames[m + 1].arms \in Seq(Scope)
  BY <1>3 DEF Frame
<1> WITNESS m + 1 \in Nat
<1> QED BY <1>2, <1>3, <1>4, <1>5, <1>6 DEF Open

LEMMA RestoredSetsBack ==
  ASSUME TypeOK, NEW n, n \in Open, Restored(n)
  PROVE  SetBack(n)
BY DEF SetBack, Restored

ArmEnds(n) ==
  /\ Turned(n) /\ Restored(n) /\ Open' = Open
  /\ frames[n].kind # "loop" /\ Len(frames[n].arms) \in Nat
  /\ \A i \in Open : i # n => frames'[i] = frames[i]
  /\ \A i \in Open : frames'[i].kind = frames[i].kind /\ Before(i)' = Before(i)
  /\ outer' = outer
  /\ DOMAIN frames'[n].arms = DOMAIN frames[n].arms \cup {Len(frames[n].arms) + 1}
  /\ \A k \in DOMAIN frames[n].arms : frames'[n].arms[k] = frames[n].arms[k]
  /\ frames'[n].arms[Len(frames[n].arms) + 1] = scope

LEMMA ArmTurns ==
  ASSUME TypeOK, Walk, Arm
  PROVE  \E n \in Nat : ArmEnds(n)
<1>1. frames # <<>>
  BY DEF Arm, NextArm
<1>2. PICK n \in Nat :
           /\ n = Len(frames) /\ n \in Open /\ Open = 1 .. n
           /\ Last(frames) = frames[n] /\ Last(outer) = outer[n]
           /\ frames[n] \in Frame /\ frames[n].arms \in Seq(Scope)
  BY <1>1, TopOfStacks
<1>3. scope \in Scope /\ frames[n].before \in Scope
  BY <1>2 DEF TypeOK, CheckerTypeOK, Frame
<1>4. frames' = [frames EXCEPT ![n].arms = Append(frames[n].arms, scope)]
  BY <1>2 DEF Arm, NextArm
<1>5. /\ Len(frames[n].arms) \in Nat
      /\ DOMAIN frames[n].arms = 1 .. Len(frames[n].arms)
      /\ DOMAIN Append(frames[n].arms, scope) = 1 .. Len(frames[n].arms) + 1
      /\ \A k \in 1 .. Len(frames[n].arms) : Append(frames[n].arms, scope)[k] = frames[n].arms[k]
      /\ Append(frames[n].arms, scope)[Len(frames[n].arms) + 1] = scope
  BY <1>2, <1>3, AppendToSeq, LenProperties
<1>6. /\ DOMAIN frames' = DOMAIN frames
      /\ \A i \in Open : i # n => frames'[i] = frames[i]
      /\ frames'[n].arms = Append(frames[n].arms, scope)
      /\ frames'[n].kind = frames[n].kind /\ frames'[n].before = frames[n].before
  BY <1>2, <1>4 DEF Open, Frame
<1>7. Restored(n)
  <2>1. scope' = Restore(scope, frames[n].before)
    BY <1>2 DEF Arm, NextArm
  <2> QED BY <1>3, <2>1, AtRestore DEF Restored, Before
<1>8. Open' = Open /\ \A i \in Open : frames'[i].kind = frames[i].kind /\ Before(i)' = Before(i)
  BY <1>6 DEF Open, Before
<1>9. /\ \A i \in Open : i # n => Snapshots(i)' = Snapshots(i)
      /\ Snapshots(n)' \subseteq Snapshots(n) \cup {scope}
  BY <1>2, <1>5, <1>6, <1>8 DEF Snapshots
<1>10. Declared' = Declared
  BY DEF Declared, Arm, RunNextArm
<1>11. Turned(n)
  <2>1. LikeRegistered(scope) /\ LikeRegistered(frames[n].before)
    BY <1>2 DEF Walk, PartsStay, Snapshots, Before
  <2>2. scope' = Restore(scope, frames[n].before) /\ typ' = typ
    BY <1>2 DEF Arm, NextArm, RunNextArm
  <2>3. LikeRegistered(Restore(scope, frames[n].before))
    BY <1>3, <2>1, PartsRestore
  <2>4. LikeRegistered(scope)'
    BY <2>2, <2>3 DEF LikeRegistered
  <2> QED BY <1>2, <1>7, <1>8, <1>9, <1>10, <2>2, <2>4, RestoredSetsBack
             DEF Turned, Arm, NextArm, InBody
<1>12. frames[n].kind # "loop" /\ outer' = outer
  BY <1>2 DEF Arm, NextArm
<1> QED BY <1>5, <1>6, <1>7, <1>8, <1>11, <1>12, SMTT(40) DEF ArmEnds

\* The construct that ends, and those around it.
Closed(n) ==
  /\ Turned(n) /\ n - 1 \in Nat /\ Open = 1 .. n /\ Open' = 1 .. n - 1
  /\ \A i \in Open' : frames'[i] = frames[i] /\ outer'[i] = outer[i]

\* The arms of the construct that ends.
Arms(n) == Append(frames[n].arms, scope)

LEMMA ArmsAre ==
  ASSUME TypeOK, NEW n, n \in Open
  PROVE  /\ Arms(n) \in Seq(Scope)
         /\ \A k \in DOMAIN Arms(n) : Arms(n)[k] \in Snapshots(n) \cup {scope}
         /\ \A k \in DOMAIN frames[n].arms : \E l \in DOMAIN Arms(n) : Arms(n)[l] = frames[n].arms[k]
         /\ \E l \in DOMAIN Arms(n) : Arms(n)[l] = scope
<1>1. frames[n] \in Frame
  BY ElementOfSeq, LenProperties DEF TypeOK, CheckerTypeOK, Open
<1>2. frames[n].arms \in Seq(Scope) /\ scope \in Scope
  BY <1>1 DEF TypeOK, CheckerTypeOK, Frame
<1>3. PICK m \in Nat : m = Len(frames[n].arms)
  BY <1>2, LenProperties
<1>4. /\ Arms(n) \in Seq(Scope) /\ Len(Arms(n)) = m + 1
      /\ \A k \in 1 .. m : Arms(n)[k] = frames[n].arms[k]
      /\ Arms(n)[m + 1] = scope
  <2> HIDE DEF Scope
  <2>1. /\ Append(frames[n].arms, scope) \in Seq(Scope)
        /\ Len(Append(frames[n].arms, scope)) = Len(frames[n].arms) + 1
        /\ \A k \in 1 .. Len(frames[n].arms) : Append(frames[n].arms, scope)[k] = frames[n].arms[k]
        /\ Append(frames[n].arms, scope)[Len(frames[n].arms) + 1] = scope
    BY <1>2, AppendToSeq
  <2> QED BY <1>3, <2>1 DEF Arms
<1>5. DOMAIN frames[n].arms = 1 .. m /\ DOMAIN Arms(n) = 1 .. m + 1
  BY <1>2, <1>3, <1>4, LenProperties
<1>6. \A k \in DOMAIN Arms(n) : k \in 1 .. m \/ k = m + 1
  BY <1>5
<1>7. \A k \in DOMAIN Arms(n) : Arms(n)[k] \in Snapshots(n) \cup {scope}
  BY <1>4, <1>5, <1>6, Zenon DEF Snapshots
<1>8. (\A k \in 1 .. m : k \in DOMAIN Arms(n)) /\ m + 1 \in DOMAIN Arms(n)
  BY <1>5
<1> QED BY <1>4, <1>5, <1>7, <1>8, Zenon

Joined(n) ==
  /\ errors' = {} => ~Mismatch(Before(n), Arms(n))
  /\ \A v \in Vars :
       At(scope', v) =
         IF At(Before(n), v) = "Unconsumed" /\ \E k \in DOMAIN Arms(n) : At(Arms(n)[k], v) = "Consumed"
         THEN "Consumed"
         ELSE IF At(Before(n), v) # "none" THEN At(Before(n), v) ELSE At(scope, v)

\* The map before the loop is back, and the body consumed nothing of it.
LoopTurned(n) ==
  /\ Restored(n)
  /\ errors' = {} => \A v \in Vars : ~(At(Before(n), v) = "Unconsumed" /\ At(scope, v) = "Consumed")

LEMMA CloseTurns ==
  ASSUME TypeOK, Walk, Join \/ LoopEnd
  PROVE  \E n \in Nat :
           /\ Closed(n)
           /\ \/ Join /\ frames[n].kind # "loop" /\ Joined(n)
              \/ LoopEnd /\ frames[n].kind = "loop" /\ LoopTurned(n)
<1>1. frames # <<>>
  BY DEF Join, LoopEnd, EndBranch, EndLoop
<1>2. PICK n \in Nat :
           /\ n = Len(frames) /\ n \in Open /\ Open = 1 .. n /\ n - 1 \in Nat
           /\ Last(frames) = frames[n] /\ Last(outer) = outer[n]
           /\ frames[n] \in Frame /\ frames[n].arms \in Seq(Scope)
           /\ Len(Front(frames)) = n - 1 /\ DOMAIN Front(frames) = 1 .. n - 1
           /\ \A i \in 1 .. n - 1 : Front(frames)[i] = frames[i] /\ Front(outer)[i] = outer[i]
  BY <1>1, TopOfStacks
<1>3. scope \in Scope /\ Before(n) \in Scope
  BY <1>2 DEF TypeOK, CheckerTypeOK, Frame, Before
<1>4. /\ frames' = Front(frames) /\ outer' = Front(outer) /\ visible' = outer[n]
      /\ UNCHANGED <<dialect, sealed, typ>> /\ phase = "body" /\ phase' = "body"
  BY <1>2 DEF Join, LoopEnd, EndBranch, EndLoop, RunEndBranch, RunEndLoop, Closes, InBody
<1>5. /\ Open' = 1 .. n - 1 /\ Declared' = Declared
      /\ \A i \in Open' : frames'[i] = frames[i] /\ outer'[i] = outer[i]
  BY <1>2, <1>4 DEF Open, Declared
<1>6. /\ Open' \subseteq Open
      /\ \A i \in Open' : Before(i)' = Before(i) /\ Snapshots(i)' = Snapshots(i)
  BY <1>2, <1>5 DEF Before, Snapshots
<1>7. ASSUME SetBack(n), LikeRegistered(scope')  PROVE Closed(n)
  <2>1. LikeRegistered(scope)'
    BY <1>4, <1>7 DEF LikeRegistered
  <2> QED BY <1>2, <1>4, <1>5, <1>6, <1>7, <2>1 DEF Closed, Turned
<1>10. /\ LikeRegistered(scope) /\ LikeRegistered(Before(n))
       /\ LikeRegistered(Restore(scope, Before(n)))
  BY <1>2, <1>3, PartsRestore DEF Walk, PartsStay, Snapshots
<1>8. CASE Join
  <2>1. /\ frames[n].kind # "loop"
        /\ scope' = CheckBranchConsistency(Restore(scope, Before(n)), Before(n), Arms(n))
        /\ errors' = {} => ~Mismatch(Before(n), Arms(n))
    BY <1>2, <1>8 DEF Join, EndBranch, Before, Arms, Report
  <2>2. Joined(n)
    <3>1. Restore(scope, Before(n)) \in Scope
      BY <1>3, RestoreType
    <3> HIDE DEF Scope
    <3>2. ASSUME NEW v \in Vars
          PROVE  At(scope', v) =
            IF At(Before(n), v) = "Unconsumed" /\ \E k \in DOMAIN Arms(n) : At(Arms(n)[k], v) = "Consumed"
            THEN "Consumed" ELSE At(Restore(scope, Before(n)), v)
      <4>1. At(CheckBranchConsistency(Restore(scope, Before(n)), Before(n), Arms(n)), v) =
              IF At(Before(n), v) = "Unconsumed" /\ \E k \in DOMAIN Arms(n) : At(Arms(n)[k], v) = "Consumed"
              THEN "Consumed" ELSE At(Restore(scope, Before(n)), v)
        BY <1>3, <3>1, AtJoin
      <4> QED BY <2>1, <4>1
    <3>3. \A v \in Vars : At(Restore(scope, Before(n)), v) =
            IF At(Before(n), v) # "none" THEN At(Before(n), v) ELSE At(scope, v)
      BY <1>3, AtRestore
    <3> QED BY <2>1, <3>2, <3>3 DEF Joined
  <2>3. SetBack(n)
    BY <1>2, <2>2, ArmsAre DEF Joined, SetBack
  <2>4. LikeRegistered(scope')
    <3>1. \A k \in DOMAIN Arms(n) : LikeRegistered(Arms(n)[k])
      BY <1>2, <1>10, ArmsAre DEF Walk, PartsStay
    <3>2. Restore(scope, Before(n)) \in Scope
      BY <1>3, RestoreType
    <3>3. \A v \in Vars : At(Before(n), v) # "none" => At(Restore(scope, Before(n)), v) # "none"
      BY <1>3, AtRestore
    <3> HIDE DEF Scope
    <3> QED BY <1>3, <1>10, <2>1, <3>1, <3>2, <3>3, PartsJoin
  <2> QED BY <1>7, <1>8, <2>1, <2>2, <2>3, <2>4
<1>9. CASE LoopEnd
  <2>1. frames[n].kind = "loop" /\ scope' = Restore(scope, Before(n))
    BY <1>2, <1>9 DEF LoopEnd, EndLoop, Before
  <2>2. errors' = {} => \A v \in Vars : ~(At(Before(n), v) = "Unconsumed" /\ At(scope, v) = "Consumed")
    BY <1>2, <1>9 DEF LoopEnd, EndLoop, Before, At, Report
  <2>3. Restored(n)
    BY <1>3, <2>1, AtRestore DEF Restored
  <2> QED BY <1>2, <1>7, <1>9, <1>10, <2>1, <2>2, <2>3, RestoredSetsBack DEF LoopTurned
<1> QED BY <1>8, <1>9
-----------------------------------------------------------------------------
(* The statements of the fragment are plain *)

Fragment == TypeOK /\ dialect \in Dialects /\ Whole

Named(ps) == \A i \in DOMAIN ps : \E v \in visible : ps[i] = <<v, Root>>
Names(ps) == {v \in Vars : <<v, Root>> \in Range(ps)}

LEMMA InFragment ==
  ASSUME Fragment
  PROVE  /\ Usable = visible /\ visible \subseteq Declared /\ Declared \subseteq Vars
         /\ dialect.ops \subseteq WholeOps /\ Naming = "unique"
         /\ Variables = {<<v, Root>> : v \in visible} /\ Operands = Variables
<1>1. Usable = visible /\ dialect.ops \subseteq WholeOps /\ Naming = "unique"
  BY DEF Fragment, Whole, WholeDialect, Usable
<1>2. "field" \notin dialect.ops
  BY <1>1 DEF WholeOps
<1>3. visible \subseteq Declared /\ Declared \subseteq Vars
  BY DEF Fragment, TypeOK, ProgramTypeOK, Declared
<1> QED BY <1>1, <1>2, <1>3 DEF Variables, Operands

\* The types of the function are known to be whole.
LEMMA FragmentTypes ==
  ASSUME Fragment, NEW t \in dialect.types
  PROVE  /\ t \in Types /\ t # NoType /\ Layout[t] # {} /\ Layout[t] \subseteq Slots
         /\ Inner[t] \in VarInfo /\ Inner[t][Root] = "Unconsumed"
         /\ \A s \in Layout[t] : Inner[t][s] = "Unconsumed"
         /\ Root \in Layout[t] =>
              Layout[t] = {Root} /\ Root # Star /\ \A f \in Fields : Inner[t][f] = "none"
         /\ WholeType(t, dialect.types)
<1>1. t \in Types /\ WholeType(t, dialect.types)
  BY ProgramAssumption DEF Fragment, Whole, WholeDialect
<1>2. t # NoType /\ Layout[t] \in SUBSET (Slots \ {Star}) /\ Inner[t] \in VarInfo
  BY <1>1, OwnershipAssumption, CheckerAssumption
<1> QED BY <1>1, <1>2 DEF WholeType, HasChildren

LEMMA OneNamed ==
  ASSUME Fragment, NEW p \in Variables
  PROVE  /\ Named(<<p>>) /\ Range(<<p>>) = {p} /\ p[2] = Root /\ p[1] \in visible
         /\ p = <<p[1], Root>> /\ Names(<<p>>) = {p[1]} /\ p[1] \in Vars
<1>1. PICK v \in visible : p = <<v, Root>>
  BY InFragment
<1>2. DOMAIN <<p>> = {1} /\ <<p>>[1] = p
  OBVIOUS
<1>3. Range(<<p>>) = {p}
  BY <1>2 DEF Range
<1>4. v \in Vars
  BY InFragment
<1>5. Names(<<p>>) = {v}
  BY <1>1, <1>3, <1>4 DEF Names
<1> QED BY <1>1, <1>2, <1>3, <1>4, <1>5 DEF Named

LEMMA NoneNamed == Named(<<>>) /\ Names(<<>>) = {} /\ Range(<<>>) = {}
<1>1. DOMAIN <<>> = {}
  OBVIOUS
<1> QED BY <1>1 DEF Named, Names, Range

LEMMA ArgumentsNamed ==
  ASSUME Fragment, NEW ps \in Arguments \cup OneOperand
  PROVE  Named(ps)
<1>1. CASE ps = <<>>
  BY <1>1, NoneNamed
<1>2. CASE \E p \in Operands : ps = <<p>>
  BY <1>2, OneNamed, InFragment
<1>3. CASE \E p, q \in Operands : ps = <<p, q>>
  <2>1. PICK p \in Operands, q \in Operands : ps = <<p, q>>
    BY <1>3
  <2>2. DOMAIN ps = {1, 2} /\ ps[1] = p /\ ps[2] = q
    BY <2>1
  <2> QED BY <2>2, InFragment DEF Named
<1> QED BY <1>1, <1>2, <1>3 DEF Arguments, OneOperand

LEMMA ElementsNamed ==
  ASSUME Fragment, NEW t \in DOMAIN Element, NEW ps \in [DOMAIN Element[t] -> Operands]
  PROVE  Named(ps)
BY InFragment DEF Named

\* Named places are tracked whole variables.
LEMMA NamedConsumed ==
  ASSUME Fragment, Walk, NEW ps, Named(ps)
  PROVE  /\ Names(ps) \subseteq visible
         /\ \A v \in Vars : At(Consume(scope, Range(ps)), v) =
              IF v \in Names(ps) THEN "Consumed" ELSE At(scope, v)
         /\ \A v \in Vars, f \in Fields : Consume(scope, Range(ps))[v][f] = scope[v][f]
<1>1. scope \in Scope /\ visible \subseteq Vars
  BY InFragment DEF Fragment, TypeOK, CheckerTypeOK
<1>2. Names(ps) \subseteq visible /\ \A p \in Range(ps) : p[2] = Root
  BY DEF Names, Named, Range
<1>3. \A v \in Names(ps) : At(scope, v) # "none"
  BY <1>2 DEF Walk, VisibleAreTracked
<1>4. \A v \in Vars : At(Consume(scope, Range(ps)), v) =
        IF v \in Names(ps) THEN "Consumed" ELSE At(scope, v)
  BY <1>1, <1>3, AtConsume DEF Names
<1>5. \A v \in Vars, f \in Fields : Consume(scope, Range(ps))[v][f] = scope[v][f]
  BY <1>1, <1>2, PartsConsume
<1> QED BY <1>2, <1>4, <1>5

LEMMA ConsumePlain ==
  ASSUME Fragment, Walk, NEW ps, Named(ps), NEW errs, Walked(Consume(scope, Range(ps)), errs),
         UNCHANGED <<typ, dialect, visible, outer>>,
         ~sealed, sealed' => frames = <<>>
  PROVE  Plain(Names(ps), {})
<1>1. NewNames({})
  BY DEF NewNames, Declared
<1> QED BY <1>1, NamedConsumed DEF Plain, Walked, InBody

LEMMA LookPlain ==
  ASSUME Fragment, NEW errs, Walked(scope, errs),
         UNCHANGED <<typ, dialect, visible, outer, sealed>>, ~sealed
  PROVE  Plain({}, {})
BY DEF Plain, Walked, InBody, NewNames, Declared

LEMMA LetPlain ==
  ASSUME Fragment, Walk, NEW op, Statement(op), NEW v \in Vars, MayName(v),
         NEW t \in dialect.types,
         NEW ps, Named(ps), CheckVarDef(v, t, ps), Declare(v, t), Declares({v})
  PROVE  Plain(Names(ps), {v})
<1>1. scope \in Scope /\ v \notin Declared /\ t \in Types /\ Inner[t][Root] = "Unconsumed"
  BY InFragment, FragmentTypes DEF Fragment, TypeOK, CheckerTypeOK, MayName
<1>2. Consume(scope, Range(ps)) \in Scope
  BY <1>1, ConsumeType
<1>3. scope' = RegisterIfLinear(Consume(scope, Range(ps)), v, t)
  BY DEF CheckVarDef, Walked
<1>4. \A w \in Vars :
        /\ At(scope', w) = IF w = v THEN "Unconsumed" ELSE At(Consume(scope, Range(ps)), w)
        /\ \A f \in Fields : scope'[w][f] = IF w = v THEN Inner[t][f]
                                            ELSE Consume(scope, Range(ps))[w][f]
  <2> HIDE DEF Scope
  <2>1. \A w \in Vars :
          /\ At(RegisterIfLinear(Consume(scope, Range(ps)), v, t), w) =
               IF w = v THEN "Unconsumed" ELSE At(Consume(scope, Range(ps)), w)
          /\ \A f \in Fields : RegisterIfLinear(Consume(scope, Range(ps)), v, t)[w][f] =
               IF w = v THEN Inner[t][f] ELSE Consume(scope, Range(ps))[w][f]
    BY <1>1, <1>2, AtRegister
  <2> QED BY <1>3, <2>1
<1>5. Declared' = Declared \cup {v} /\ typ'[v] = t /\ \A w \in Declared : typ'[w] = typ[w]
  BY <1>1, OwnershipAssumption DEF Declared, Declare, Fragment, TypeOK, OwnTypeOK
<1>6. NewNames({v})
  BY <1>1, <1>5 DEF NewNames, Declares
<1>7. /\ phase = "body" /\ phase' = "body" /\ UNCHANGED <<frames, outer, dialect>>
      /\ ~sealed /\ (sealed' => frames = <<>>)
  BY DEF CheckVarDef, Walked, InBody, Statement, Declares
<1> QED BY <1>4, <1>5, <1>6, <1>7, NamedConsumed DEF Plain

\* The other kinds of statement are not in the fragment.
LEMMA FragmentStatements ==
  ASSUME Fragment, LetNext \/ DestructureNext \/ StatementNext
  PROVE  \/ \E v \in Vars, t \in LinearTypes, ps \in Arguments :
              \E val \in FreshValues(t) : LetFresh(v, t, ps, val)
         \/ \E v \in Vars, p \in Variables : LetMove(v, p)
         \/ \E v \in Vars, t \in DOMAIN Element :
              \E ps \in [DOMAIN Element[t] -> Operands] : LetPack(v, t, ps)
         \/ \E x \in visible : typ[x] \in Tuples /\
              \E dst \in [Range(Element[typ[x]]) -> Vars] : LetDestructure(x, dst)
         \/ \E ps \in Arguments : Call(ps)
         \/ \E t \in LinearTypes : \E val \in FreshValues(t) : Discard(t, val)
         \/ \E p \in Variables : Free(p) \/ AddrOf(p) \/ Use(p)
         \/ \E x, w \in visible, f \in Fields : StoreField(x, f, w)
         \/ \E ps \in OneOperand : EarlyReturn(ps) \/ Return(ps)
<1>1. /\ dialect.ops \cap {"value", "field", "deref_move", "other", "free_inner", "store"} = {}
      /\ Operands = Variables /\ Usable = visible
  BY InFragment DEF WholeOps
<1>2. CASE LetNext
  <2>1. PICK v \in Vars :
          \/ \E t \in LinearTypes, ps \in Arguments : \E val \in FreshValues(t) :
               LetFresh(v, t, ps, val)
          \/ \E p \in Variables : LetMove(v, p) \/ LetValue(v, p)
          \/ \E p \in Parts : LetField(v, p)
          \/ \E x \in {y \in Usable : Pointer(typ[y])} : LetDeref(v, x)
          \/ \E t \in DOMAIN Element :
               \E ps \in [DOMAIN Element[t] -> Operands] : LetPack(v, t, ps)
    BY <1>2 DEF LetNext
  <2>2. ~Statement("value") /\ ~Statement("field") /\ ~Statement("deref_move")
    BY <1>1 DEF Statement
  <2>3. \/ \E t \in LinearTypes, ps \in Arguments : \E val \in FreshValues(t) :
             LetFresh(v, t, ps, val)
        \/ \E p \in Variables : LetMove(v, p)
        \/ \E t \in DOMAIN Element :
             \E ps \in [DOMAIN Element[t] -> Operands] : LetPack(v, t, ps)
    BY <2>1, <2>2 DEF LetValue, LetField, LetDeref
  <2> QED BY <2>3
<1>3. CASE DestructureNext
  BY <1>1, <1>3 DEF DestructureNext
<1>4. CASE StatementNext
  <2>1. ~Statement("other") /\ ~Statement("free_inner") /\ ~Statement("store")
    BY <1>1 DEF Statement
  <2> QED
    BY <1>1, <1>4, <2>1 DEF StatementNext, Other, FreeInner, StoreDeref
<1> QED BY <1>2, <1>3, <1>4

LEMMA LetFreshPlain ==
  ASSUME Fragment, Walk, NEW v \in Vars, NEW t \in LinearTypes, NEW ps \in Arguments, NEW val,
         LetFresh(v, t, ps, val)
  PROVE  Plain(Names(ps), {v})
BY ArgumentsNamed, LetPlain DEF LetFresh, RunVarDef, LinearTypes

LEMMA LetMovePlain ==
  ASSUME Fragment, Walk, NEW v \in Vars, NEW p \in Variables, LetMove(v, p)
  PROVE  Plain({p[1]}, {v})
<1>1. Named(<<p>>) /\ Names(<<p>>) = {p[1]}
  BY OneNamed
<1>2. TypeAt(p) \in dialect.types
  BY OneNamed, InFragment DEF TypeAt, Walk, DeclaredAreWhole
<1>3. Plain(Names(<<p>>), {v})
  BY <1>1, <1>2, LetPlain DEF LetMove, RunMove
<1> QED BY <1>1, <1>3

LEMMA LetPackPlain ==
  ASSUME Fragment, Walk, NEW v \in Vars, NEW t \in DOMAIN Element,
         NEW ps \in [DOMAIN Element[t] -> Operands], LetPack(v, t, ps)
  PROVE  Plain(Names(ps), {v})
BY ElementsNamed, LetPlain DEF LetPack, RunPack

\* The elements of a tuple are pointers of their own, each with its name.
LEMMA TupleFields ==
  ASSUME Fragment, Walk, NEW x \in visible, typ[x] \in Tuples, NEW f \in Range(Element[typ[x]])
  PROVE  /\ x \in Vars /\ typ[x] \in dialect.types /\ f \in Fields /\ f # Star
         /\ Range(Element[typ[x]]) = Layout[typ[x]]
         /\ FieldType[typ[x]][f] \in dialect.types /\ Layout[FieldType[typ[x]][f]] = {Root}
<1>1. x \in Vars /\ typ[x] \in dialect.types /\ typ[x] \in DOMAIN Element
  BY InFragment, ProgramAssumption DEF Walk, DeclaredAreWhole
<1>2. f \in Fields \ {Star}
  <2>1. Element[typ[x]] \in Seq(Fields \ {Star})
    BY <1>1, ProgramAssumption
  <2> QED BY <2>1, ElementOfSeq, LenProperties DEF Range
<1>3. Range(Element[typ[x]]) = Layout[typ[x]] /\ f \in Layout[typ[x]]
  BY <1>1, FragmentTypes DEF WholeType
<1>4. FieldType[typ[x]][f] \in dialect.types /\ Root \in Layout[FieldType[typ[x]][f]]
  BY <1>1, <1>3, FragmentTypes DEF WholeType
<1>5. Layout[FieldType[typ[x]][f]] = {Root}
  BY <1>4, FragmentTypes
<1> QED BY <1>1, <1>2, <1>3, <1>4, <1>5

LEMMA LetDestructurePlain ==
  ASSUME Fragment, Walk, NEW x \in visible, typ[x] \in Tuples,
         NEW dst \in [Range(Element[typ[x]]) -> Vars], LetDestructure(x, dst)
  PROVE  /\ Plain({x}, Range(dst))
         /\ \A f \in DOMAIN dst : typ'[dst[f]] = FieldType[typ[x]][f]
<1> DEFINE linear == {f \in DOMAIN dst : Pointer(FieldType[typ[x]][f])}
           field(v) == CHOOSE f \in DOMAIN dst : dst[f] = v
<1>1. /\ x \in Vars /\ scope \in Scope /\ Range(dst) \subseteq Vars \ Declared
      /\ DOMAIN dst = Range(Element[typ[x]]) /\ typ \in [Vars -> Types \cup {NoType}]
  <2>1. x \in Vars /\ scope \in Scope /\ typ \in [Vars -> Types \cup {NoType}]
    BY InFragment DEF Fragment, TypeOK, CheckerTypeOK, OwnTypeOK
  <2>2. \A v \in Range(dst) : v \in Vars /\ v \notin Declared
    BY InFragment DEF LetDestructure, MayName, Range
  <2> QED BY <2>1, <2>2
<1>2. \A f \in DOMAIN dst : /\ FieldType[typ[x]][f] \in dialect.types
                            /\ Layout[FieldType[typ[x]][f]] = {Root}
                            /\ FieldType[typ[x]][f] # NoType
  BY <1>1, TupleFields, FragmentTypes
<1>3. linear = DOMAIN dst /\ Range([f \in linear |-> dst[f]]) = Range(dst)
  BY <1>2 DEF Pointer, Range
<1>4. \A f \in DOMAIN dst : field(dst[f]) = f /\ dst[f] \in Range(dst)
  BY DEF LetDestructure, Range
<1>5. typ' = [v \in Vars |-> IF v \in Range(dst) THEN FieldType[typ[x]][field(v)] ELSE typ[v]]
  BY DEF LetDestructure, RunDestructure
<1>6. \A f \in DOMAIN dst : typ'[dst[f]] = FieldType[typ[x]][f]
  BY <1>1, <1>4, <1>5
<1>7. \A v \in Range(dst) : \E f \in DOMAIN dst : v = dst[f]
  BY DEF Range
<1>8. /\ \A v \in Range(dst) : typ'[v] \in dialect.types /\ Layout[typ'[v]] = {Root}
      /\ \A v \in Range(dst), f \in Fields : Inner[typ'[v]][f] = "none"
  <2>1. \A f \in DOMAIN dst : \A g \in Fields : Inner[FieldType[typ[x]][f]][g] = "none"
    <3>1. \A t \in dialect.types : Layout[t] = {Root} => \A g \in Fields : Inner[t][g] = "none"
      BY FragmentTypes
    <3> QED BY <1>2, <3>1
  <2> QED BY <1>2, <1>6, <1>7, <2>1
<1>9. (\A v \in Vars \ Range(dst) : typ'[v] = typ[v]) /\ Declared' = Declared \cup Range(dst)
  BY <1>1, <1>2, <1>5, <1>6, <1>7 DEF Declared
<1>10. scope' = [v \in Vars |-> IF v \in Range(dst)
                                THEN [Untracked EXCEPT ![Root] = "Unconsumed"]
                                ELSE Consume(scope, {<<x, Root>>})[v]]
  BY <1>3 DEF LetDestructure, CheckDestructure, Walked
<1>11. At(scope, x) # "none"
  BY DEF Walk, VisibleAreTracked
<1>12. \A v \in Vars : At(scope', v) = IF v \in Range(dst) THEN "Unconsumed"
                                       ELSE IF v \in {x} THEN "Consumed" ELSE At(scope, v)
  <2>1. \A v \in Vars : At(Consume(scope, {<<x, Root>>}), v) =
           IF v = x THEN "Consumed" ELSE At(scope, v)
    <3>1. \A v \in Vars : At(Consume(scope, {<<x, Root>>}), v) =
             IF <<v, Root>> \in {<<x, Root>>} /\ At(scope, v) # "none" THEN "Consumed"
             ELSE At(scope, v)
      <4> HIDE DEF Scope
      <4> QED BY <1>1, AtConsume
    <3> QED BY <1>11, <3>1
  <2> QED BY <1>10, <2>1 DEF At, Untracked
<1>13. \A v \in Vars, f \in Fields :
         scope'[v][f] = IF v \in Range(dst) THEN Inner[typ'[v]][f] ELSE scope[v][f]
  <2>1. \A v \in Vars, f \in Fields : Consume(scope, {<<x, Root>>})[v][f] = scope[v][f]
    <3> HIDE DEF Scope
    <3> QED BY <1>1, PartsConsume
  <2>2. \A f \in Fields : [Untracked EXCEPT ![Root] = "Unconsumed"][f] = "none"
    BY ProgramVocabulary DEF Untracked
  <2> QED BY <1>8, <1>10, <2>1, <2>2
<1>14. NewNames(Range(dst))
  BY <1>1, <1>9 DEF NewNames, LetDestructure, Declares
<1>15. /\ phase = "body" /\ phase' = "body" /\ UNCHANGED <<frames, outer, dialect>>
       /\ ~sealed /\ (sealed' => frames = <<>>)
  BY DEF LetDestructure, CheckDestructure, Walked, InBody, Statement, Declares
<1>16. \A v \in Declared : typ'[v] = typ[v]
  BY <1>1, <1>9 DEF Declared
<1> QED BY <1>6, <1>8, <1>12, <1>13, <1>14, <1>15, <1>16 DEF Plain

LEMMA CallPlain ==
  ASSUME Fragment, Walk, NEW ps \in Arguments, Call(ps)
  PROVE  Plain(Names(ps), {})
BY ArgumentsNamed, ConsumePlain
   DEF Call, CheckCallStmt, RunCall, NoDecl, programVars, Statement

LEMMA DiscardPlain ==
  ASSUME Fragment, Walk, NEW t, NEW val, Discard(t, val)
  PROVE  Plain({}, {})
<1>1. Plain(Names(<<>>), {})
  BY NoneNamed, ConsumePlain
     DEF Discard, CheckCallStmt, RunCall, NoDecl, programVars, Statement
<1> QED BY <1>1, NoneNamed

LEMMA FreePlain ==
  ASSUME Fragment, Walk, NEW p \in Variables, Free(p)
  PROVE  Plain({p[1]}, {})
<1>1. Named(<<p>>) /\ Names(<<p>>) = {p[1]} /\ Range(<<p>>) = {p}
  BY OneNamed
<1>2. Plain(Names(<<p>>), {})
  BY <1>1, ConsumePlain DEF Free, CheckFree, RunFree, NoDecl, programVars, Statement
<1> QED BY <1>1, <1>2

LEMMA LookingPlain ==
  ASSUME Fragment, NEW p, AddrOf(p) \/ Use(p)
  PROVE  Plain({}, {})
BY LookPlain
   DEF AddrOf, CheckAddrOf, RunNothing, ownVars, Use, CheckUse, RunUse, NoDecl, programVars, Statement

LEMMA StoreFieldPlain ==
  ASSUME Fragment, Walk, NEW b, NEW f, NEW w \in visible, StoreField(b, f, w)
  PROVE  Plain({w}, {})
<1>1. /\ <<w, Root>> \in Variables /\ Named(<<<<w, Root>>>>) /\ Names(<<<<w, Root>>>>) = {w}
  <2>1. <<w, Root>> \in Variables
    BY InFragment
  <2> QED BY <2>1, OneNamed
<1>2. Plain(Names(<<<<w, Root>>>>), {})
  BY <1>1, ConsumePlain
     DEF StoreField, CheckStoreField, RunStoreField, Same, NoDecl, programVars, Statement
<1> QED BY <1>1, <1>2

LEMMA ReturnPlain ==
  ASSUME Fragment, Walk, NEW ps \in OneOperand, EarlyReturn(ps) \/ Return(ps)
  PROVE  Plain(Names(ps), {})
<1>1. Named(ps)
  BY ArgumentsNamed
<1>2. CASE EarlyReturn(ps)
  BY <1>1, <1>2, ConsumePlain
     DEF EarlyReturn, CheckReturn, RunReturn, NoDecl, programVars, Statement
<1>3. CASE Return(ps)
  BY <1>1, <1>3, ConsumePlain DEF Return, CheckReturn, RunReturn
<1> QED BY <1>2, <1>3

-----------------------------------------------------------------------------
(* Every step of the walk *)

LEMMA OpensConstruct ==
  ASSUME If \/ Case \/ Loop
  PROVE  \E kind \in {"if", "case", "loop"} : Opened(kind)
BY DEF If, Case, Loop, Statement, BeginBranch, BeginLoop, Opens, Opened, RunBeginBranch,
       RunBeginLoop, RunBegin, Declared

LEMMA InitWalk == Init => Walk
<1> SUFFICES ASSUME Init  PROVE Walk
  OBVIOUS
<1>1. Open = {} /\ Declared = {} /\ visible = {} /\ frames = <<>>
  BY DEF Init, CheckerInit, OwnInit, ProgramInit, Open, Declared
<1>2. /\ \A v \in Vars : At(scope, v) = "none" /\ scope[v] = Untracked
      /\ LikeRegistered(scope)
  BY DEF Init, CheckerInit, Untracked, At, LikeRegistered
<1> QED
  BY <1>1, <1>2 DEF Walk, NothingBefore, DeclaredAreWhole, TrackedAreDeclared, VisibleAreTracked,
                    BlocksNest, ArmNamesAreNew, MapsProgress, FrozenNames, PartsStay, SealedIsLast

LEMMA BeginWalk ==
  ASSUME Fragment, Walk, NEW params, NEW val, BeginFunction(params, val),
         DOMAIN params \subseteq Vars, \A v \in DOMAIN params : params[v] \in dialect.types
  PROVE  Walk'
<1>1. Init
  BY DEF Walk, NothingBefore, BeginFunction, CheckFunc
<1>2. Open' = {} /\ frames' = <<>> /\ phase' = "body" /\ dialect' = dialect
  BY <1>1 DEF BeginFunction, CheckFunc, Init, CheckerInit, Open
<1>3. \A v \in DOMAIN params : Inner[params[v]][Root] = "Unconsumed" /\ params[v] # NoType
  BY FragmentTypes
<1>4. \A v \in Vars :
        /\ typ'[v] = IF v \in DOMAIN params THEN params[v] ELSE NoType
        /\ scope'[v] = IF v \in DOMAIN params THEN Inner[params[v]] ELSE Untracked
  BY <1>1 DEF BeginFunction, CheckFunc, Init, CheckerInit
<1>5. \A v \in Vars : At(scope', v) = IF v \in DOMAIN params THEN "Unconsumed" ELSE "none"
  BY <1>3, <1>4 DEF Untracked, At
<1>6. Declared' = DOMAIN params /\ visible' = DOMAIN params
  BY <1>3, <1>4 DEF BeginFunction, Declared
<1>7. LikeRegistered(scope)'
  BY <1>4, <1>5 DEF LikeRegistered, Untracked
<1>8. DeclaredAreWhole'
  BY <1>2, <1>4, <1>6 DEF DeclaredAreWhole
<1> QED
  BY <1>2, <1>5, <1>6, <1>7, <1>8
     DEF Walk, NothingBefore, TrackedAreDeclared, VisibleAreTracked, BlocksNest,
         ArmNamesAreNew, MapsProgress, FrozenNames, PartsStay, SealedIsLast

LEMMA StaysWalk ==
  ASSUME Walk, UNCHANGED <<scope, frames, typ, programVars>>, phase' # "start" \/ UNCHANGED vars
  PROVE  Walk'
<1>1. /\ Open' = Open /\ (\A i : Before(i)' = Before(i) /\ Snapshots(i)' = Snapshots(i))
      /\ Declared' = Declared /\ Frozen' = Frozen /\ scope' = scope /\ outer' = outer
      /\ visible' = visible /\ sealed' = sealed /\ frames' = frames /\ typ' = typ
      /\ dialect' = dialect
  BY DEF Open, Before, Snapshots, Declared, Frozen, programVars
<1>2. NothingBefore'
  BY DEF Walk, NothingBefore, vars, checkerVars, ownVars, programVars, Init, CheckerInit,
         OwnInit, ProgramInit
<1>3. TrackedAreDeclared' /\ VisibleAreTracked' /\ BlocksNest'
  BY <1>1 DEF Walk, TrackedAreDeclared, VisibleAreTracked, BlocksNest
<1>4. ArmNamesAreNew' /\ FrozenNames' /\ SealedIsLast'
  BY <1>1 DEF Walk, ArmNamesAreNew, FrozenNames, SealedIsLast
<1>5. MapsProgress'
  BY <1>1 DEF Walk, MapsProgress, Later
<1>6. DeclaredAreWhole' /\ PartsStay'
  BY <1>1 DEF Walk, DeclaredAreWhole, PartsStay, LikeRegistered
<1> QED BY <1>2, <1>3, <1>4, <1>5, <1>6 DEF Walk

LEMMA WalkStep ==
  ASSUME Fragment, Walk, [Next]_vars
  PROVE  Walk'
<1> TypeOK
  BY DEF Fragment
<1>1. CASE UNCHANGED vars
  BY <1>1, StaysWalk DEF vars, checkerVars, ownVars
<1>2. CASE BeginFunction(<<>>, NoValue)
  <2>1. DOMAIN <<>> = {}
    OBVIOUS
  <2> QED BY <1>2, <2>1, BeginWalk
<1>3. ASSUME NEW v \in Vars, NEW t \in LinearTypes, NEW val,
             BeginFunction([x \in {v} |-> t], val)
      PROVE  Walk'
  BY <1>3, BeginWalk DEF LinearTypes
<1>4. CASE LetNext \/ DestructureNext \/ StatementNext
  BY <1>4, FragmentStatements, PlainWalk, LetFreshPlain, LetMovePlain, LetPackPlain,
     LetDestructurePlain, CallPlain, DiscardPlain, FreePlain, LookingPlain, StoreFieldPlain,
     ReturnPlain
<1>5. CASE If \/ Case \/ Loop
  BY <1>5, OpensConstruct, OpenedWalk
<1>6. CASE Arm
  BY <1>6, ArmTurns, TurnedWalk DEF ArmEnds
<1>7. CASE Join \/ LoopEnd
  BY <1>7, CloseTurns, TurnedWalk DEF Closed
<1>8. CASE EndFunction
  BY <1>8, StaysWalk DEF EndFunction, PopScopeAndCheck, RunFallOff, NoDecl
<1> QED
  BY <1>1, <1>2, <1>3, <1>4, <1>5, <1>6, <1>7, <1>8 DEF Next

LEMMA DialectStep ==
  ASSUME [Next]_vars
  PROVE  dialect' = dialect
<1> USE DEF Declares, NoDecl, programVars
<1>1. CASE UNCHANGED vars
  BY <1>1 DEF vars
<1>2. CASE \E params, val : BeginFunction(params, val)
  BY <1>2 DEF BeginFunction
<1>3. CASE LetNext \/ DestructureNext
  BY <1>3 DEF LetNext, LetFresh, LetMove, LetValue, LetField, LetDeref, LetPack,
              DestructureNext, LetDestructure
<1>4. CASE StatementNext
  BY <1>4 DEF StatementNext, Call, Discard, Free, FreeInner, AddrOf, Other, Use, StoreDeref,
              StoreField, EarlyReturn, Return
<1>5. CASE If \/ Case \/ Loop \/ Arm \/ Join \/ LoopEnd
  BY <1>5 DEF If, Case, Loop, Opens, Arm, Join, LoopEnd, Closes
<1>6. CASE EndFunction
  BY <1>6 DEF EndFunction
<1> QED BY <1>1, <1>2, <1>3, <1>4, <1>5, <1>6 DEF Next

LEMMA FragmentStep ==
  ASSUME Fragment, [Next]_vars
  PROVE  Fragment'
BY TypeOKStep, DialectStep DEF Fragment, Whole, WholeDialect, WholeType


\* Of a function of the fragment, wherever the walk of LinearTypeChecker.cpp
\* is, its map and the snapshots its if, case and loop handlers hold fit
\* together: they know no name that is not declared, none takes back what an
\* earlier one consumed, and names whose block is closed have the state they
\* ended with.
THEOREM WalkHolds == Spec => [](Whole => Walk)
<1> DEFINE Inv == TypeOK /\ dialect \in Dialects /\ (Whole => Walk)
<1>1. Init => Inv
  BY TypeOKInit, InitWalk DEF Init, ProgramInit
<1>2. Inv /\ [Next]_vars => Inv'
  <2> SUFFICES ASSUME Inv, [Next]_vars  PROVE Inv'
    OBVIOUS
  <2>1. dialect' = dialect /\ TypeOK'
    BY DialectStep, TypeOKStep
  <2>2. Whole' => Whole
    BY <2>1 DEF Whole, WholeDialect, WholeType
  <2> QED BY <2>1, <2>2, WalkStep DEF Fragment
<1>3. Inv => (Whole => Walk)
  OBVIOUS
<1> QED BY <1>1, <1>2, <1>3, PTL DEF Spec

-----------------------------------------------------------------------------
(***************************************************************************)
(* Then what is executed: the cells, and who owns them.                    *)
(***************************************************************************)
USE DEF CellOrNil, Value

-----------------------------------------------------------------------------
(* Maps that differ in names nobody can use describe the same memory *)

SameButUnused(M, N, E) ==
  \A v \in Vars : At(N, v) = At(M, v) \/ (At(M, v) = "none" /\ v \notin E)

LEMMA OwnsTransfer ==
  ASSUME NEW M, NEW D \in SUBSET Vars, NEW held, NEW h, Owns(M, D, held, h),
         NEW N, NEW E \in SUBSET D, SameButUnused(M, N, E)
  PROVE  Owns(N, E, held, h)
<1>1. \A v \in E : At(N, v) = "Unconsumed" => held[v] # {}
  BY DEF Owns, SameButUnused
<1>2. \A v \in Vars : /\ At(N, v) = "Unconsumed" => \A c \in held[v] : h[c] = "live"
                      /\ At(N, v) = "none" => held[v] = {}
  BY DEF Owns, SameButUnused
<1>3. \A v, w \in Vars :
        At(N, v) = "Unconsumed" /\ At(N, w) = "Unconsumed" /\ v # w => held[v] \cap held[w] = {}
  <2>1. \A v \in Vars : At(N, v) = "Unconsumed" => At(M, v) = "Unconsumed" \/ held[v] = {}
    BY DEF Owns, SameButUnused
  <2> QED BY <2>1 DEF Owns
<1> QED BY <1>1, <1>2, <1>3 DEF Owns

LEMMA KnowsTransfer ==
  ASSUME NEW M, NEW held, NEW h, Knows(M, held, h), NEW N, NEW E, SameButUnused(M, N, E)
  PROVE  Knows(N, held, h)
BY DEF Knows, SameButUnused

LEMMA KeepsTransfer ==
  ASSUME NEW M, NEW D, NEW held, NEW h, Owns(M, D, held, h), NEW B, NEW C,
         Keeps(B, M, held, h, C), \A v \in Vars : At(B, v) # "none" => At(M, v) # "none",
         NEW N, NEW E, SameButUnused(M, N, E)
  PROVE  Keeps(B, N, held, h, C)
<1> SUFFICES ASSUME \A v \in Vars : At(B, v) = "Unconsumed" => At(N, v) = "Unconsumed"
             PROVE  /\ \A c \in C : h[c] = "live"
                    /\ \A v \in Vars : At(N, v) = "Unconsumed" /\ At(B, v) # "Unconsumed"
                                         => held[v] \cap C = {}
  BY DEF Keeps
<1>1. \A v \in Vars : At(B, v) = "Unconsumed" => At(M, v) = "Unconsumed"
  BY DEF SameButUnused
<1>2. /\ \A c \in C : h[c] = "live"
      /\ \A v \in Vars : At(M, v) = "Unconsumed" /\ At(B, v) # "Unconsumed" => held[v] \cap C = {}
  BY <1>1 DEF Keeps
<1>3. \A v \in Vars : At(N, v) = "Unconsumed" => At(M, v) = "Unconsumed" \/ held[v] = {}
  BY DEF Owns, SameButUnused
<1> QED BY <1>2, <1>3

LEMMA AgreeTransfer ==
  ASSUME NEW M, NEW D \in SUBSET Vars, Agree(M, D), NEW N, NEW E \in SUBSET D,
         SameButUnused(M, N, E),
         \A i \in Open : \A v \in Vars : At(Before(i), v) # "none" => At(M, v) # "none"
  PROVE  Agree(N, E)
<1>1. Owns(N, E, Holdings, heap)
  BY OwnsTransfer DEF Agree
<1>2. Shaped(N)
  <2>1. \A v \in Vars : Holdings[v] = Held(v)
    BY DEF Holdings
  <2>2. \A v \in Vars : At(N, v) = "Unconsumed" => At(M, v) = "Unconsumed" \/ Held(v) = {}
    BY <2>1 DEF Agree, Owns, SameButUnused
  <2> QED BY <2>2 DEF Agree, Shaped
<1>3. Without({"store_field"}) => Knows(N, Holdings, heap)
  BY KnowsTransfer DEF Agree
<1>4. ASSUME NEW i \in Open, Repeated(i)
      PROVE  Keeps(Before(i), N, Holdings, heap, path[i].entry)
  <2>1. Owns(M, D, Holdings, heap) /\ Keeps(Before(i), M, Holdings, heap, path[i].entry)
    BY <1>4 DEF Agree
  <2> QED BY <2>1, KeepsTransfer
<1> QED BY <1>1, <1>2, <1>3, <1>4 DEF Agree

-----------------------------------------------------------------------------
(* What a statement does to the owners of the cells: the names in W hand   *)
(* their cells over, the names in X hold others than before                *)

HandOver(M, N, held, give, h, g, W, X) ==
  /\ \A w \in W : w \in Vars /\ w \notin X /\ At(M, w) = "Unconsumed"
  /\ \A v \in Vars \ X : /\ give[v] = held[v]
                         /\ At(N, v) = IF v \in W THEN "Consumed" ELSE At(M, v)
  /\ \A x \in X : /\ x \in Vars /\ At(N, x) # "none"
                  /\ At(M, x) = "none" \/ At(N, x) = At(M, x)
  /\ \A x \in X : At(N, x) = "Unconsumed" =>
       /\ give[x] # {}
       /\ \A c \in give[x] : /\ g[c] = "live"
                             /\ \/ c \in held[x] \/ h[c] = "unused"
                                \/ \E w \in W : c \in held[w]
       /\ \A y \in X : At(N, y) = "Unconsumed" /\ x # y => give[x] \cap give[y] = {}
  /\ \A v \in Vars : \A c \in held[v] : c \in Cells /\ h[c] # "unused"
  /\ \A c \in Cells : h[c] # "unused" /\ (\A w \in W : c \notin held[w]) => g[c] = h[c]

\* Cells of others are not concerned.
LEMMA HandOverApart ==
  ASSUME NEW M, NEW N, NEW held, NEW give, NEW h, NEW g, NEW W, NEW X, NEW D,
         HandOver(M, N, held, give, h, g, W, X), Owns(M, D, held, h),
         NEW v \in Vars \ X, At(N, v) = "Unconsumed", NEW c \in held[v]
  PROVE  /\ At(M, v) = "Unconsumed" /\ v \notin W
         /\ g[c] = "live" /\ h[c] = "live" /\ \A w \in W : c \notin held[w]
<1>1. At(M, v) = "Unconsumed" /\ v \notin W /\ h[c] = "live" /\ c \in Cells
  BY DEF HandOver, Owns
<1>2. \A w \in W : c \notin held[w]
  BY <1>1 DEF HandOver, Owns
<1>3. g[c] = h[c]
  BY <1>1, <1>2 DEF HandOver
<1> QED BY <1>1, <1>2, <1>3

LEMMA OwnsHanded ==
  ASSUME NEW M, NEW N, NEW held, NEW give, NEW h, NEW g, NEW W, NEW X,
         HandOver(M, N, held, give, h, g, W, X),
         NEW D \in SUBSET Vars, Owns(M, D, held, h), NEW E, E \subseteq D \cup X
  PROVE  Owns(N, E, give, g)
<1>1. ASSUME NEW v \in E, At(N, v) = "Unconsumed"  PROVE give[v] # {}
  BY <1>1 DEF HandOver, Owns
<1>2. ASSUME NEW v \in Vars, At(N, v) = "Unconsumed", NEW c \in give[v]  PROVE g[c] = "live"
  <2>1. CASE v \in X
    BY <1>2, <2>1 DEF HandOver
  <2>2. CASE v \notin X
    <3>1. c \in held[v]
      BY <1>2, <2>2 DEF HandOver
    <3> QED BY <1>2, <2>2, <3>1, HandOverApart
  <2> QED BY <2>1, <2>2
<1>3. ASSUME NEW v \in Vars, At(N, v) = "none"  PROVE give[v] = {}
  BY <1>3 DEF HandOver, Owns
<1>4. ASSUME NEW x \in X, At(N, x) = "Unconsumed", NEW v \in Vars \ X, At(N, v) = "Unconsumed"
      PROVE  give[x] \cap give[v] = {}
  <2> SUFFICES ASSUME NEW c \in give[x], c \in give[v]  PROVE FALSE
    OBVIOUS
  <2>1. c \in held[v] /\ x \in Vars /\ x # v
    BY DEF HandOver
  <2>2. /\ At(M, v) = "Unconsumed" /\ h[c] = "live" /\ \A w \in W : c \notin held[w]
    BY <1>4, <2>1, HandOverApart
  <2>3. c \in held[x]
    BY <1>4, <2>2 DEF HandOver
  <2>4. At(M, x) = "none" \/ At(M, x) = "Unconsumed"
    BY <1>4 DEF HandOver
  <2> QED BY <2>1, <2>2, <2>3, <2>4 DEF Owns
<1>5. ASSUME NEW v \in Vars, NEW w \in Vars, At(N, v) = "Unconsumed", At(N, w) = "Unconsumed",
             v # w
      PROVE  give[v] \cap give[w] = {}
  <2>1. CASE v \in X /\ w \in X
    BY <1>5, <2>1 DEF HandOver
  <2>2. CASE v \in X /\ w \notin X
    BY <1>4, <1>5, <2>2
  <2>3. CASE v \notin X /\ w \in X
    BY <1>4, <1>5, <2>3
  <2>4. CASE v \notin X /\ w \notin X
    <3>1. At(M, v) = "Unconsumed" /\ At(M, w) = "Unconsumed"
      BY <1>5, <2>4 DEF HandOver
    <3> QED BY <1>5, <2>4, <3>1 DEF HandOver, Owns
  <2> QED BY <2>1, <2>2, <2>3, <2>4
<1> QED BY <1>1, <1>2, <1>3, <1>5 DEF Owns

LEMMA KeepsHanded ==
  ASSUME NEW M, NEW N, NEW held, NEW give, NEW h, NEW g, NEW W, NEW X,
         HandOver(M, N, held, give, h, g, W, X), NEW D, Owns(M, D, held, h),
         NEW B, NEW C \in SUBSET Cells, Keeps(B, M, held, h, C),
         \A v \in Vars : At(B, v) # "none" => At(M, v) # "none"
  PROVE  Keeps(B, N, give, g, C)
<1> SUFFICES ASSUME \A v \in Vars : At(B, v) = "Unconsumed" => At(N, v) = "Unconsumed"
             PROVE  /\ \A c \in C : g[c] = "live"
                    /\ \A v \in Vars : At(N, v) = "Unconsumed" /\ At(B, v) # "Unconsumed"
                                         => give[v] \cap C = {}
  BY DEF Keeps
<1>1. \A v \in Vars : At(B, v) = "Unconsumed" => At(M, v) = "Unconsumed"
  BY DEF HandOver
<1>2. /\ \A c \in C : h[c] = "live"
      /\ \A v \in Vars : At(M, v) = "Unconsumed" /\ At(B, v) # "Unconsumed" => held[v] \cap C = {}
  BY <1>1 DEF Keeps
<1>3. \A w \in W : held[w] \cap C = {}
  <2>1. \A w \in W : At(B, w) # "Unconsumed" /\ At(M, w) = "Unconsumed" /\ w \in Vars
    BY DEF HandOver
  <2> QED BY <1>2, <2>1
<1>4. \A c \in C : g[c] = "live"
  BY <1>2, <1>3 DEF HandOver
<1>5. ASSUME NEW v \in Vars, At(N, v) = "Unconsumed", At(B, v) # "Unconsumed"
      PROVE  give[v] \cap C = {}
  <2>1. CASE v \notin X
    BY <1>2, <1>5, <2>1 DEF HandOver
  <2>2. CASE v \in X
    <3>1. held[v] \cap C = {}
      <4>1. At(M, v) = "none" \/ At(M, v) = "Unconsumed"
        BY <1>5, <2>2 DEF HandOver
      <4> QED BY <1>2, <1>5, <4>1 DEF Owns
    <3>2. \A c \in give[v] : c \in held[v] \/ h[c] = "unused" \/ \E w \in W : c \in held[w]
      BY <1>5, <2>2 DEF HandOver
    <3> QED BY <1>2, <1>3, <3>1, <3>2
  <2> QED BY <2>1, <2>2
<1> QED BY <1>4, <1>5

\* No cell is forgotten that was handed on to somebody.
LEMMA KnowsHanded ==
  ASSUME NEW M, NEW N, NEW held, NEW give, NEW h, NEW g, NEW W, NEW X,
         HandOver(M, N, held, give, h, g, W, X), Knows(M, held, h),
         \A x \in X : At(M, x) = "none" /\ At(N, x) = "Unconsumed",
         \A c \in Cells : g[c] = "live" =>
           \/ h[c] = "live" /\ \A w \in W : c \notin held[w]
           \/ \E x \in X : c \in give[x]
  PROVE  Knows(N, give, g)
<1> SUFFICES ASSUME NEW c \in Cells, g[c] = "live"
             PROVE  \E v \in Vars : At(N, v) = "Unconsumed" /\ c \in give[v]
  BY DEF Knows
<1>1. CASE \E x \in X : c \in give[x]
  BY <1>1 DEF HandOver
<1>2. CASE h[c] = "live" /\ \A w \in W : c \notin held[w]
  <2>1. PICK v \in Vars : At(M, v) = "Unconsumed" /\ c \in held[v]
    BY <1>2 DEF Knows
  <2>2. v \notin X /\ v \notin W
    BY <1>2, <2>1
  <2> QED BY <2>1, <2>2 DEF HandOver
<1> QED BY <1>1, <1>2

-----------------------------------------------------------------------------
(* A plain statement of the walk that is quiet in the execution: it tells  *)
(* its owners what it does to their cells                                  *)

LEMMA StacksAlike ==
  ASSUME TypeOK
  PROVE  DOMAIN path = Open /\ DOMAIN outer = Open
BY LenProperties DEF TypeOK, OwnTypeOK, CheckerTypeOK, ProgramTypeOK, Open

LEMMA HeldCells ==
  ASSUME TypeOK, NEW v \in Vars
  PROVE  Held(v) \subseteq Cells /\ Nil \notin Held(v) /\ Holdings[v] = Held(v)
BY DEF TypeOK, OwnTypeOK, Held, CellsIn, Holdings

LEMMA EntryCells ==
  ASSUME TypeOK, NEW i \in Open
  PROVE  path[i].entry \subseteq Cells
<1>1. path[i] \in [run : Runs, entry : SUBSET Cells]
  <2>1. path \in Seq([run : Runs, entry : SUBSET Cells]) /\ i \in DOMAIN path
    BY StacksAlike DEF TypeOK, OwnTypeOK
  <2> QED BY <2>1, ElementOfSeq, LenProperties
<1> QED BY <1>1

LEMMA MapsBefore ==
  ASSUME Walk, NEW i \in Open, NEW v \in Vars, At(Before(i), v) # "none"
  PROVE  At(scope, v) # "none"
BY DEF Walk, MapsProgress, Later

Quiet ==
  /\ UNCHANGED <<path, exited, content>> /\ errors \subseteq errors'
  /\ \A v \in Vars \ Declared' : Held(v)' = Held(v)
  /\ Without({"store_field"}) => \A v \in Declared : Held(v)' = Held(v)
  /\ ~On => /\ UNCHANGED <<faults, heap>> /\ \A v \in Vars : Held(v)' = Held(v)
            /\ \A v \in Declared : env'[v] = env[v]
  /\ On /\ errors' = {} =>
       /\ Agree(scope, visible)' /\ faults' = faults
       /\ \A v \in Vars : \A c \in Held(v)' : heap'[c] # "unused"

\* Statements that bind nothing.
LEMMA QuietUnbound ==
  ASSUME UNCHANGED <<env, path, exited, content>>, errors \subseteq errors',
         ~On => UNCHANGED <<faults, heap>>,
         On /\ errors' = {} => /\ Agree(scope, visible)' /\ faults' = faults
                               /\ \A v \in Vars : \A c \in Held(v) : heap'[c] # "unused"
  PROVE  Quiet
BY DEF Quiet, Held

\* What is the same for a map that is not concerned.
LEMMA AgreeStays ==
  ASSUME TypeOK, Walk, NEW i \in Open, NEW M \in Snapshots(i) \cup {scope}, NEW D, Agree(M, D),
         frames' = frames, path' = path, heap' = heap, dialect' = dialect,
         \A v \in Vars : Held(v)' = Held(v),
         \A v \in Declared : env'[v] = env[v] /\ typ'[v] = typ[v]
  PROVE  Agree(M, D)'
<1>1. /\ Open' = Open /\ Holdings' = Holdings /\ (Without({"store_field"})' <=> Without({"store_field"}))
      /\ \A j : Before(j)' = Before(j) /\ (Repeated(j)' <=> Repeated(j))
  BY DEF Open, Before, Repeated, Executed, Holdings, Without
<1>2. Shaped(M)'
  <2>1. ASSUME NEW v \in Vars, At(M, v) = "Unconsumed", Held(v)' # {}
        PROVE  WholeValue(typ'[v], env'[v])
    <3>1. v \in Declared
      BY <2>1 DEF Walk, TrackedAreDeclared
    <3>2. WholeValue(typ[v], env[v])
      BY <2>1 DEF Agree, Shaped
    <3> QED BY <3>1, <3>2
  <2> QED BY <2>1 DEF Shaped, WholeValue
<1> QED BY <1>1, <1>2 DEF Agree

LEMMA QuietRun ==
  ASSUME Fragment, Walk, Run, NEW W, NEW V, Plain(W, V), Quiet, errors = {}, errors' = {}
  PROVE  Run'
<1> USE DEF Plain
<1>0. /\ Declared \subseteq Vars /\ Declared' = Declared \cup V /\ V \cap Declared = {}
      /\ DOMAIN path = Open /\ visible \subseteq Vars /\ TypeOK /\ V \subseteq Vars
      /\ \A i \in Open : outer[i] \subseteq visible
  BY StacksAlike, InFragment DEF Fragment, NewNames, Walk, BlocksNest
<1>1. /\ Open' = Open /\ outer' = outer /\ frames' = frames /\ path' = path
      /\ \A i : Before(i)' = Before(i) /\ Executed(i)' = Executed(i) /\ Repeated(i)' = Repeated(i)
      /\ dialect' = dialect /\ exited' = exited
  BY DEF Quiet, Open, Before, Executed, Repeated
<1>2. faults' = faults
  BY DEF Quiet
<1>3. NoDangling' /\ PathShape' /\ ExitIsLast'
  BY <1>1, <1>2 DEF Run, NoDangling, PathShape, ExitIsLast, Without
<1>4. PlainMemory'
  <2>1. \A c \in Cells : content'[c] = Nil
    BY DEF Run, PlainMemory, Quiet
  <2>2. \A v \in Vars \ Declared' : Held(v)' = {}
    BY <1>0 DEF Run, PlainMemory, Quiet
  <2>3. \A v \in Vars : \A c \in Held(v)' : heap'[c] # "unused"
    BY DEF Run, PlainMemory, Quiet
  <2> QED BY <2>1, <2>2, <2>3 DEF PlainMemory
<1>5. LoopEntries'
  <2>1. \A i \in Open : \A v \in Vars : At(Before(i), v) = "Unconsumed" => v \in Declared
    BY DEF Walk, TrackedAreDeclared, Snapshots
  <2>2. Without({"store_field"})' => Without({"store_field"})
    BY <1>1 DEF Without
  <2> QED BY <1>1, <2>1, <2>2 DEF Run, LoopEntries, Quiet
<1>6. ASSUME ~exited  PROVE Owners'
  <2>1. CASE On
    BY <1>0, <1>1, <2>1 DEF Owners, Quiet, On, Executed
  <2>2. CASE ~On
    <3>1. ASSUME NEW i \in Open, NEW M \in Snapshots(i), Agree(M, outer[i])
          PROVE  Agree(M, outer[i])'
      <4>1. /\ heap' = heap /\ \A v \in Vars : Held(v)' = Held(v)
            /\ \A v \in Declared : env'[v] = env[v] /\ typ'[v] = typ[v]
        BY <2>2 DEF Quiet
      <4>2. Agree(M, outer[i])
        BY <3>1
      <4> HIDE DEF Plain
      <4>3. \A D : Agree(M, D) => Agree(M, D)'
        BY <1>0, <1>1, <4>1, AgreeStays
      <4> QED BY <1>1, <4>2, <4>3
    <3>2. ~ \A i \in Open : Executed(i)
      BY <1>0, <1>6, <2>2 DEF On, Executed
    <3>3. \A i \in Open : /\ Before(i) \in Snapshots(i)
                          /\ \A k \in DOMAIN frames[i].arms : frames[i].arms[k] \in Snapshots(i)
      BY DEF Snapshots
    <3>4. Owners
      BY <1>6 DEF Run
    <3> QED BY <1>1, <3>1, <3>2, <3>3, <3>4 DEF Owners
  <2> QED BY <2>1, <2>2
<1>7. LeaksShow'
  <2>1. ASSUME NEW v \in Frozen  PROVE v \in Frozen' /\ At(scope', v) = At(scope, v)
    BY <1>0 DEF Frozen, NewNames
  <2>2. ~sealed /\ Frozen \subseteq Vars
    BY <1>0 DEF Frozen
  <2>3. Without(Losing)' => Without(Losing)
    BY <1>1 DEF Without
  <2>4. LeaksShow
    BY DEF Run
  <2> QED BY <1>0, <1>1, <1>2, <2>1, <2>2, <2>3, <2>4 DEF LeaksShow
<1> QED BY <1>1, <1>2, <1>3, <1>4, <1>5, <1>6, <1>7 DEF Run

\* The statement hands over what the names in W hold; X are the names it
\* stores to.
LEMMA HandedAgree ==
  ASSUME Fragment, Walk, Run, Agree(scope, visible), NEW W, NEW V, Plain(W, V), path' = path,
         \A w \in W : At(scope, w) = "Unconsumed",
         NEW X, V \subseteq X, X \subseteq V \cup visible, X \cap W = {},
         \A v \in Vars \ X : env'[v] = env[v],
         \A x \in X : At(scope', x) = "Unconsumed" =>
           /\ WholeValue(typ'[x], env'[x])
           /\ \A c \in Held(x)' : /\ heap'[c] = "live"
                                  /\ \/ c \in Held(x) \/ heap[c] = "unused"
                                     \/ \E w \in W : c \in Held(w)
           /\ \A y \in X : At(scope', y) = "Unconsumed" /\ x # y => Held(x)' \cap Held(y)' = {},
         \A c \in Cells : heap[c] # "unused" /\ (\A w \in W : c \notin Held(w)) => heap'[c] = heap[c],
         Without({"store_field"}) =>
           /\ X = V
           /\ \A c \in Cells : heap'[c] = "live" =>
                \/ heap[c] = "live" /\ \A w \in W : c \notin Held(w)
                \/ \E x \in X : c \in Held(x)'
  PROVE  Agree(scope, visible)'
<1>0. /\ TypeOK /\ visible \in SUBSET Vars /\ visible \subseteq Declared /\ V \subseteq Vars \ Declared
      /\ visible' = visible \cup V /\ W \subseteq visible /\ X \subseteq Vars
      /\ Declared' = Declared \cup V /\ dialect' = dialect
  BY InFragment DEF Fragment, Plain, NewNames
<1>1. /\ \A v \in Vars : At(scope', v) = IF v \in V THEN "Unconsumed"
                                         ELSE IF v \in W THEN "Consumed" ELSE At(scope, v)
      /\ \A v \in V : typ'[v] \in dialect.types
      /\ \A v \in Declared : typ'[v] = typ[v]
      /\ \A v \in V : At(scope, v) = "none"
      /\ \A v \in visible : At(scope, v) # "none" /\ typ[v] \in dialect.types
  BY <1>0 DEF Plain, Walk, TrackedAreDeclared, VisibleAreTracked, DeclaredAreWhole
<1>2. \A v \in Vars : Holdings[v] = Held(v) /\ Holdings'[v] = Held(v)'
  BY DEF Holdings
<1>3. \A v \in Vars \ X : Held(v)' = Held(v)
  BY DEF Held
<1>4. \A x \in X : At(scope', x) = "Unconsumed" => Held(x)' # {}
  <2> SUFFICES ASSUME NEW x \in X, At(scope', x) = "Unconsumed"  PROVE Held(x)' # {}
    OBVIOUS
  <2>1. typ'[x] \in dialect.types /\ WholeValue(typ'[x], env'[x])
    BY <1>0, <1>1
  <2>2. PICK s \in Layout[typ'[x]] : s \in Slots
    BY <2>1, FragmentTypes
  <2>3. env'[x][s] # Nil
    BY <2>1, <2>2 DEF WholeValue
  <2> QED BY <2>2, <2>3 DEF Held, CellsIn
<1>5. HandOver(scope, scope', Holdings, Holdings', heap, heap', W, X)
  <2>1. \A w \in W : w \in Vars /\ w \notin X /\ At(scope, w) = "Unconsumed"
    BY <1>0
  <2>2. \A v \in Vars \ X : /\ Holdings'[v] = Holdings[v]
                            /\ At(scope', v) = IF v \in W THEN "Consumed" ELSE At(scope, v)
    BY <1>1, <1>2, <1>3
  <2>3. \A x \in X : /\ x \in Vars /\ At(scope', x) # "none"
                     /\ At(scope, x) = "none" \/ At(scope', x) = At(scope, x)
    BY <1>0, <1>1
  <2>4. \A x \in X : At(scope', x) = "Unconsumed" =>
       /\ Holdings'[x] # {}
       /\ \A c \in Holdings'[x] : /\ heap'[c] = "live"
                                  /\ \/ c \in Holdings[x] \/ heap[c] = "unused"
                                     \/ \E w \in W : c \in Holdings[w]
       /\ \A y \in X : At(scope', y) = "Unconsumed" /\ x # y => Holdings'[x] \cap Holdings'[y] = {}
    BY <1>0, <1>2, <1>4
  <2>5. \A v \in Vars : \A c \in Holdings[v] : c \in Cells /\ heap[c] # "unused"
    BY <1>0, <1>2, HeldCells DEF Run, PlainMemory
  <2>6. \A c \in Cells : heap[c] # "unused" /\ (\A w \in W : c \notin Holdings[w]) => heap'[c] = heap[c]
    BY <1>0, <1>2
  <2> QED BY <2>1, <2>2, <2>3, <2>4, <2>5, <2>6, Zenon DEF HandOver
<1>6. Owns(scope', visible', Holdings', heap')
  BY <1>0, <1>5, OwnsHanded DEF Agree
<1>7. Shaped(scope)'
  <2> SUFFICES ASSUME NEW v \in Vars, At(scope', v) = "Unconsumed", Held(v)' # {}
               PROVE  WholeValue(typ'[v], env'[v])
    BY DEF Shaped, WholeValue
  <2>1. CASE v \in X
    BY <2>1
  <2>2. CASE v \notin X
    <3>1. At(scope, v) = "Unconsumed" /\ env'[v] = env[v] /\ Held(v) # {}
      BY <1>1, <1>3, <2>2
    <3>2. v \in Declared
      BY <3>1 DEF Walk, TrackedAreDeclared
    <3> QED BY <1>1, <3>1, <3>2 DEF Agree, Shaped
  <2> QED BY <2>1, <2>2
<1>8. ASSUME Without({"store_field"})  PROVE Knows(scope', Holdings', heap')
  <2>1. Knows(scope, Holdings, heap)
    BY <1>8 DEF Agree
  <2>2. \A x \in X : At(scope, x) = "none" /\ At(scope', x) = "Unconsumed"
    BY <1>0, <1>1, <1>8
  <2>3. \A c \in Cells : heap'[c] = "live" =>
           \/ heap[c] = "live" /\ \A w \in W : c \notin Holdings[w]
           \/ \E x \in X : c \in Holdings'[x]
    BY <1>0, <1>2, <1>8
  <2> QED BY <1>5, <2>1, <2>2, <2>3, KnowsHanded
<1>9. ASSUME NEW i \in Open, Repeated(i)
      PROVE  Keeps(Before(i), scope', Holdings', heap', path[i].entry)
  <2>1. Owns(scope, visible, Holdings, heap) /\ Keeps(Before(i), scope, Holdings, heap, path[i].entry)
    BY <1>9 DEF Agree
  <2>2. \A v \in Vars : At(Before(i), v) # "none" => At(scope, v) # "none"
    BY MapsBefore
  <2>3. path[i].entry \in SUBSET Cells
    BY <1>0, EntryCells
  <2> QED BY <1>5, <2>1, <2>2, <2>3, KeepsHanded
<1>10. /\ Open' = Open /\ (Without({"store_field"})' <=> Without({"store_field"}))
       /\ \A i : Before(i)' = Before(i) /\ (Repeated(i)' <=> Repeated(i))
  BY <1>0 DEF Open, Before, Repeated, Executed, Plain, Without
<1> QED BY <1>6, <1>7, <1>8, <1>9, <1>10 DEF Agree
-----------------------------------------------------------------------------
(* The values of variables *)

\* A variable that owns something holds a cell in every slot of its type.
LEMMA OwnedValue ==
  ASSUME Fragment, Walk, Run, Shaped(scope), NEW v \in Vars, At(scope, v) = "Unconsumed",
         Held(v) # {}
  PROVE  /\ v \in Declared /\ typ[v] \in dialect.types /\ WholeValue(typ[v], env[v])
         /\ Layout[typ[v]] \subseteq Slots
         /\ Held(v) = {env[v][s] : s \in Layout[typ[v]]}
         /\ HeldAt(<<v, Root>>) = Held(v)
<1>1. v \in Declared /\ typ[v] \in dialect.types
  BY DEF Walk, TrackedAreDeclared, DeclaredAreWhole
<1>2. WholeValue(typ[v], env[v]) /\ Layout[typ[v]] \subseteq Slots
  BY <1>1, FragmentTypes DEF Shaped
<1>3. Held(v) = {env[v][s] : s \in Layout[typ[v]]}
  BY <1>2 DEF Held, CellsIn, WholeValue
<1>4. Star2(env[v][Root]) = Nil
  BY DEF Fragment, TypeOK, OwnTypeOK, Star2, Run, PlainMemory
<1>5. HeldAt(<<v, Root>>) = {env[v][s] : s \in Layout[typ[v]]}
  BY <1>4 DEF HeldAt
<1> QED BY <1>1, <1>2, <1>3, <1>5

\* What is not consumed holds live cells.
LEMMA UsableIsLive ==
  ASSUME Fragment, Walk, Run, Agree(scope, visible), NEW v \in visible, At(scope, v) # "Consumed"
  PROVE  /\ v \in Vars /\ At(scope, v) = "Unconsumed"
         /\ typ[v] \in dialect.types /\ WholeValue(typ[v], env[v])
         /\ Held(v) = {env[v][s] : s \in Layout[typ[v]]} /\ Layout[typ[v]] \subseteq Slots
         /\ HeldAt(<<v, Root>>) = Held(v)
         /\ \A c \in Held(v) : c \in Cells /\ c # Nil /\ heap[c] = "live"
         /\ ReadFaults(<<v, Root>>) = {} /\ ValueAt(<<v, Root>>) = env[v]
         /\ TypeAt(<<v, Root>>) = typ[v] /\ Load(<<v, Root>>) = env[v][Root]
<1>1. v \in Vars /\ TypeOK
  BY InFragment DEF Fragment
<1>2. At(scope, v) = "Unconsumed"
  BY <1>1, AtType DEF Walk, VisibleAreTracked, TypeOK, CheckerTypeOK
<1>3. Holdings[v] = Held(v) /\ Held(v) \subseteq Cells /\ Nil \notin Held(v)
  BY <1>1, HeldCells
<1>4. Held(v) # {} /\ \A c \in Held(v) : heap[c] = "live"
  BY <1>1, <1>2, <1>3 DEF Agree, Owns
<1>5. Shaped(scope)
  BY DEF Agree
<1>6. /\ ReadFaults(<<v, Root>>) = {} /\ ValueAt(<<v, Root>>) = env[v]
      /\ TypeAt(<<v, Root>>) = typ[v] /\ Load(<<v, Root>>) = env[v][Root]
  BY ProgramVocabulary DEF ReadFaults, ValueAt, TypeAt, Load
<1> QED BY <1>1, <1>2, <1>3, <1>4, <1>5, <1>6, OwnedValue

\* Two such variables hold different ones.
LEMMA OwnersApart ==
  ASSUME TypeOK, Agree(scope, visible), NEW v \in Vars, NEW w \in Vars, v # w,
         At(scope, v) = "Unconsumed", At(scope, w) = "Unconsumed"
  PROVE  Held(v) \cap Held(w) = {}
<1>1. Holdings[v] = Held(v) /\ Holdings[w] = Held(w)
  BY HeldCells
<1> QED BY <1>1 DEF Agree, Owns

\* A pointer holds the one cell it points to.
LEMMA PointerIsLive ==
  ASSUME Fragment, Walk, Run, Agree(scope, visible), NEW v \in visible, At(scope, v) # "Consumed",
         Pointer(typ[v])
  PROVE  /\ Held(v) = {env[v][Root]} /\ env[v][Root] \in Cells /\ env[v][Root] # Nil
         /\ heap[env[v][Root]] = "live"
<1>1. /\ Held(v) = {env[v][s] : s \in Layout[typ[v]]} /\ typ[v] \in dialect.types
      /\ \A c \in Held(v) : c \in Cells /\ c # Nil /\ heap[c] = "live"
  BY UsableIsLive
<1>2. Layout[typ[v]] = {Root}
  BY <1>1, FragmentTypes DEF Pointer
<1>3. Held(v) = {env[v][Root]}
  BY <1>1, <1>2
<1> QED BY <1>1, <1>3

LEMMA ArgumentsDomain ==
  ASSUME NEW ps \in Arguments \cup OneOperand
  PROVE  \E n \in Nat : DOMAIN ps = 1 .. n
<1>1. CASE ps = <<>>
  BY <1>1
<1>2. CASE \E p : ps = <<p>>
  BY <1>2
<1>3. CASE \E p, q : ps = <<p, q>>
  <2>1. DOMAIN ps = {1, 2} /\ 1 .. 2 = {1, 2}
    BY <1>3
  <2> QED BY <2>1
<1> QED BY <1>1, <1>2, <1>3 DEF Arguments, OneOperand

\* What is not reported as a reuse names different owners.
LEMMA NamesOnce ==
  ASSUME Fragment, Walk, NEW n \in Nat, NEW ps, DOMAIN ps = 1 .. n, Named(ps), ~Reused(scope, ps)
  PROVE  /\ \A i \in 1 .. n : /\ ps[i] = <<ps[i][1], Root>> /\ ps[i][1] \in visible
                              /\ At(scope, ps[i][1]) = "Unconsumed"
         /\ \A i, j \in 1 .. n : i # j => ps[i][1] # ps[j][1]
         /\ Names(ps) = {ps[i][1] : i \in 1 .. n} /\ Names(ps) \subseteq visible
         /\ \A v \in Names(ps) : At(scope, v) = "Unconsumed"
<1>1. \A i \in 1 .. n : ps[i] = <<ps[i][1], Root>> /\ ps[i][1] \in visible
  BY DEF Named
<1>2. \A i \in 1 .. n : At(scope, ps[i][1]) \in States /\ At(scope, ps[i][1]) # "none"
  BY <1>1, AtType, InFragment DEF Walk, VisibleAreTracked, Fragment, TypeOK, CheckerTypeOK
<1>3. \A i \in 1 .. n : At(scope, ps[i][1]) = "Unconsumed"
  BY <1>1, <1>2 DEF Reused, At
<1>4. ASSUME NEW i \in 1 .. n, NEW j \in 1 .. n, i # j  PROVE ps[i][1] # ps[j][1]
  <2>1. i \in 1 .. j - 1 \/ j \in 1 .. i - 1
    BY <1>4
  <2> QED BY <1>1, <1>3, <2>1 DEF Reused, At
<1>5. Names(ps) = {ps[i][1] : i \in 1 .. n}
  <2>1. \A v \in Vars : <<v, Root>> \in Range(ps) <=> \E i \in 1 .. n : ps[i] = <<v, Root>>
    BY DEF Range
  <2>2. \A i \in 1 .. n : ps[i][1] \in Vars
    BY <1>1, InFragment
  <2> QED BY <1>1, <2>1, <2>2 DEF Names
<1> QED BY <1>1, <1>3, <1>4, <1>5

\* It can be handed over.
LEMMA GiveSafe ==
  ASSUME Fragment, Walk, Run, Agree(scope, visible), NEW ps \in Arguments \cup OneOperand,
         ~Reused(scope, ps)
  PROVE  /\ \A c : c \in Given(ps) <=> \E v \in Names(ps) : c \in Held(v)
         /\ \A v \in Names(ps) : At(scope, v) = "Unconsumed"
         /\ Names(ps) \subseteq visible
         /\ GiveFaults(ps) = {}
<1>1. PICK n \in Nat : DOMAIN ps = 1 .. n
  BY ArgumentsDomain
<1>2. Named(ps)
  BY ArgumentsNamed
<1>3. /\ \A i \in 1 .. n : /\ ps[i] = <<ps[i][1], Root>> /\ ps[i][1] \in visible
                           /\ At(scope, ps[i][1]) = "Unconsumed"
      /\ \A i, j \in 1 .. n : i # j => ps[i][1] # ps[j][1]
      /\ Names(ps) = {ps[i][1] : i \in 1 .. n} /\ Names(ps) \subseteq visible
      /\ \A v \in Names(ps) : At(scope, v) = "Unconsumed"
  BY <1>1, <1>2, NamesOnce
<1>4. \A i \in 1 .. n : /\ ps[i][1] \in Vars /\ HeldAt(ps[i]) = Held(ps[i][1])
                        /\ \A c \in Held(ps[i][1]) : c \in Cells /\ c # Nil /\ heap[c] = "live"
  <2> SUFFICES ASSUME NEW i \in 1 .. n
               PROVE  /\ ps[i][1] \in Vars /\ HeldAt(ps[i]) = Held(ps[i][1])
                      /\ \A c \in Held(ps[i][1]) : c \in Cells /\ c # Nil /\ heap[c] = "live"
    OBVIOUS
  <2>1. PICK v \in visible : v = ps[i][1] /\ At(scope, v) = "Unconsumed" /\ ps[i] = <<v, Root>>
    BY <1>3
  <2> QED BY <2>1, UsableIsLive
<1>5. \A i, j \in 1 .. n : i # j => HeldAt(ps[i]) \cap HeldAt(ps[j]) = {}
  BY <1>3, <1>4, OwnersApart DEF Fragment
<1>6. \A c : c \in Given(ps) <=> \E i \in 1 .. n : c \in HeldAt(ps[i])
  BY <1>1 DEF Given
<1>7. \A c : c \in Given(ps) <=> \E v \in Names(ps) : c \in Held(v)
  BY <1>3, <1>4, <1>6
<1>8. \A c \in Given(ps) : c # Nil /\ heap[c] = "live"
  BY <1>4, <1>6
<1>9. GiveFaults(ps) = {}
  BY <1>1, <1>5, <1>8, OwnershipAssumption DEF GiveFaults
<1> QED BY <1>3, <1>7, <1>9

\* On the executed path an owner is what the checker calls one.
LEMMA OnAgrees ==
  ASSUME TypeOK, Run, phase = "body", On
  PROVE  Agree(scope, visible)
BY StacksAlike DEF Run, Owners, On, Executed

LEMMA OneReused ==
  ASSUME Fragment, NEW p \in Variables
  PROVE  /\ Reused(scope, <<p>>) <=> scope[p[1]][p[2]] = "Consumed"
         /\ Reused(scope, <<p>>) <=> At(scope, p[1]) = "Consumed"
         /\ <<p>> \in OneOperand
<1>1. /\ DOMAIN <<p>> = {1} /\ <<p>>[1] = p /\ 1 .. 1 - 1 = {}
      /\ p[2] = Root /\ Operands = Variables
  BY OneNamed, InFragment
<1> QED BY <1>1 DEF Reused, OneOperand, At

-----------------------------------------------------------------------------
(* Statements that bind nothing *)

LEMMA GivingAgrees ==
  ASSUME Fragment, Walk, Run, Agree(scope, visible), NEW ps \in Arguments \cup OneOperand,
         ~Reused(scope, ps), Plain(Names(ps), {}), UNCHANGED <<env, path>>,
         heap' = HeapAfter(Given(ps))
  PROVE  /\ Agree(scope, visible)'
         /\ \A v \in Vars : \A c \in Held(v) : heap'[c] # "unused"
<1>1. /\ \A c : c \in Given(ps) <=> \E v \in Names(ps) : c \in Held(v)
      /\ \A v \in Names(ps) : At(scope, v) = "Unconsumed"
  BY GiveSafe
<1>2. \A c \in Cells : heap'[c] = IF \E v \in Names(ps) : c \in Held(v) THEN "gone" ELSE heap[c]
  BY <1>1 DEF HeapAfter
<1>3. \A v \in Vars : \A c \in Held(v) : heap'[c] # "unused"
  BY <1>2, HeldCells DEF Run, PlainMemory, Fragment
<1>4. PICK V : V = {}
  OBVIOUS
<1>5. Agree(scope, visible)'
  <2>1. /\ Plain(Names(ps), V) /\ V \subseteq V \cup visible /\ V \cap Names(ps) = {} /\ path' = path
        /\ \A v \in Vars \ V : env'[v] = env[v]
    BY <1>4
  <2>2. \A c \in Cells : heap[c] # "unused" /\ (\A w \in Names(ps) : c \notin Held(w)) => heap'[c] = heap[c]
    BY <1>2
  <2>3. \A c \in Cells : heap'[c] = "live" => heap[c] = "live" /\ \A w \in Names(ps) : c \notin Held(w)
    BY <1>2
  <2>4. \A x \in V : FALSE
    BY <1>4
  <2> QED BY <1>1, <2>1, <2>2, <2>3, <2>4, HandedAgree
<1> QED BY <1>3, <1>5

LEMMA LookingAgrees ==
  ASSUME Fragment, Walk, Run, Agree(scope, visible), Plain({}, {}), UNCHANGED <<env, path, heap>>
  PROVE  /\ Agree(scope, visible)'
         /\ \A v \in Vars : \A c \in Held(v) : heap'[c] # "unused"
<1>1. \A v \in Vars : \A c \in Held(v) : heap'[c] # "unused"
  BY DEF Run, PlainMemory
<1>2. PICK V : V = {}
  OBVIOUS
<1>3. Agree(scope, visible)'
  <2>1. /\ Plain(V, V) /\ V \subseteq V \cup visible /\ V \cap V = {} /\ path' = path
        /\ \A v \in Vars \ V : env'[v] = env[v]
    BY <1>2
  <2>2. \A x \in V : FALSE
    BY <1>2
  <2> QED BY <2>1, <2>2, HandedAgree
<1> QED BY <1>1, <1>3

LEMMA CallQuiet ==
  ASSUME Fragment, Walk, Run, errors = {}, NEW ps \in Arguments, Call(ps)
  PROVE  Quiet
<1> USE DEF Call, RunCall
<1>1. HeapWith(HeapAfter(Given(ps)), CellsIn(NoValue)) = HeapAfter(Given(ps))
  <2>1. CellsIn(NoValue) = {}
    BY DEF CellsIn, NoValue
  <2> QED BY <2>1 DEF HeapWith, HeapAfter
<1>2. errors \subseteq errors' /\ (errors' = {} => ~Reused(scope, ps)) /\ phase = "body"
  BY DEF CheckCallStmt, Walked, Report, Statement
<1>3. UNCHANGED <<env, path, exited, content>> /\ (~On => faults' = faults /\ heap' = heap)
  BY DEF Same, OffPath, OnPath
<1>4. ASSUME On, errors' = {}
      PROVE  /\ Agree(scope, visible)' /\ faults' = faults
             /\ \A v \in Vars : \A c \in Held(v) : heap'[c] # "unused"
  <2>1. Agree(scope, visible)
    BY <1>2, <1>4, OnAgrees DEF Fragment
  <2>2. faults' = faults /\ heap' = HeapAfter(Given(ps))
    BY <1>1, <1>2, <1>4, <2>1, GiveSafe DEF OffPath, OnPath
  <2> QED BY <1>2, <1>3, <1>4, <2>1, <2>2, CallPlain, GivingAgrees
<1> QED BY <1>2, <1>3, <1>4, QuietUnbound

LEMMA FreeQuiet ==
  ASSUME Fragment, Walk, Run, errors = {}, NEW p \in Variables, Free(p)
  PROVE  Quiet
<1> USE DEF Free, RunFree
<1>1. /\ <<p>> \in OneOperand /\ Names(<<p>>) = {p[1]} /\ p = <<p[1], Root>> /\ p[1] \in visible
      /\ Reused(scope, <<p>>) <=> scope[p[1]][p[2]] = "Consumed"
      /\ Reused(scope, <<p>>) <=> At(scope, p[1]) = "Consumed"
  BY OneNamed, OneReused
<1>2. errors \subseteq errors' /\ (errors' = {} => ~Reused(scope, <<p>>)) /\ phase = "body"
  BY <1>1 DEF CheckFree, Walked, Report, Statement
<1>3. UNCHANGED <<env, path, exited, content>> /\ (~On => faults' = faults /\ heap' = heap)
  BY DEF Same, OffPath, OnPath
<1>4. ASSUME On, errors' = {}
      PROVE  /\ Agree(scope, visible)' /\ faults' = faults
             /\ \A v \in Vars : \A c \in Held(v) : heap'[c] # "unused"
  <2>1. Agree(scope, visible)
    BY <1>2, <1>4, OnAgrees DEF Fragment
  <2>2. PICK v \in visible : v = p[1] /\ p = <<v, Root>> /\ At(scope, v) # "Consumed" /\ Pointer(typ[v])
    BY <1>1, <1>2, <1>4 DEF TypeAt
  <2>3. /\ Held(v) = {env[v][Root]} /\ env[v][Root] # Nil /\ heap[env[v][Root]] = "live"
        /\ Load(p) = env[v][Root] /\ ReadFaults(p) = {}
    BY <2>1, <2>2, PointerIsLive, UsableIsLive
  <2>4. Given(<<p>>) = {Load(p)}
    BY <1>1, <1>2, <1>4, <2>1, <2>2, <2>3, GiveSafe
  <2>5. faults' = faults /\ heap' = HeapAfter(Given(<<p>>))
    BY <1>4, <2>3, <2>4 DEF OffPath, OnPath
  <2>6. Plain(Names(<<p>>), {})
    BY <1>1, FreePlain
  <2> QED BY <1>1, <1>2, <1>3, <1>4, <2>1, <2>5, <2>6, GivingAgrees
<1> QED BY <1>2, <1>3, <1>4, QuietUnbound

LEMMA UseQuiet ==
  ASSUME Fragment, Walk, Run, errors = {}, NEW p \in Variables, Use(p)
  PROVE  Quiet
<1> USE DEF Use, RunUse
<1>1. p = <<p[1], Root>> /\ p[1] \in visible
  BY OneNamed
<1>2. /\ UNCHANGED <<env, path, exited, content>> /\ errors \subseteq errors' /\ phase = "body"
      /\ heap' = heap /\ (~On => faults' = faults)
  BY DEF Same, OffPath, OnPath, CheckUse, Walked, Statement
<1>3. ASSUME On, errors' = {}
      PROVE  /\ Agree(scope, visible)' /\ faults' = faults
             /\ \A v \in Vars : \A c \in Held(v) : heap'[c] # "unused"
  <2>1. Agree(scope, visible)
    BY <1>2, <1>3, OnAgrees DEF Fragment
  <2>2. PICK v \in visible : v = p[1] /\ p = <<v, Root>> /\ At(scope, v) # "Consumed" /\ Pointer(typ[v])
    BY <1>1, <1>3 DEF TypeAt, CheckUse, Walked, Report, At
  <2>3. UseFaults(Load(p)) = {} /\ ReadFaults(p) = {}
    BY <2>1, <2>2, PointerIsLive, UsableIsLive DEF UseFaults
  <2>4. faults' = faults
    BY <1>3, <2>3 DEF OffPath, OnPath
  <2>5. Plain({}, {})
    BY LookingPlain
  <2> QED BY <1>2, <2>1, <2>4, <2>5, LookingAgrees
<1> QED BY <1>2, <1>3, QuietUnbound

\* The address of a whole variable; that of a pointer is reported.
LEMMA AddrOfQuiet ==
  ASSUME Fragment, Walk, Run, errors = {}, NEW p \in Variables, AddrOf(p)
  PROVE  Quiet
<1>1. /\ UNCHANGED <<env, path, exited, content, heap, faults>> /\ errors \subseteq errors'
      /\ phase = "body"
  BY DEF AddrOf, RunNothing, ownVars, CheckAddrOf, Walked, Statement
<1>2. ASSUME On
      PROVE  /\ Agree(scope, visible)' /\ faults' = faults
             /\ \A v \in Vars : \A c \in Held(v) : heap'[c] # "unused"
  <2>1. Agree(scope, visible)
    BY <1>1, <1>2, OnAgrees DEF Fragment
  <2>2. Plain({}, {})
    BY LookingPlain
  <2> QED BY <1>1, <2>1, <2>2, LookingAgrees
<1> QED BY <1>1, <1>2, QuietUnbound

\* A result that is dropped is always reported.
LEMMA DiscardRejected ==
  ASSUME NEW t, NEW val, Discard(t, val)
  PROVE  errors' # {}
BY DEF Discard, CheckCallStmt, Walked, Report
-----------------------------------------------------------------------------
(* Statements that bind a name *)

LEMMA BoundQuiet ==
  ASSUME Fragment, Run, NEW v \in Vars \ Declared, Declared' = Declared \cup {v},
         NEW val, Bind(v, val), UNCHANGED <<path, exited, content>>, errors \subseteq errors',
         ~On => UNCHANGED <<faults, heap>>,
         On /\ errors' = {} =>
           /\ Agree(scope, visible)' /\ faults' = faults
           /\ \A c \in CellsIn(val) : heap'[c] # "unused"
           /\ \A w \in Vars : \A c \in Held(w) : heap'[c] # "unused"
  PROVE  Quiet
<1>1. env \in [Vars -> Value]
  BY DEF Fragment, TypeOK, OwnTypeOK
<1>2. \A w \in Vars \ {v} : env'[w] = env[w] /\ Held(w)' = Held(w)
  BY <1>1 DEF Bind, Held
<1>3. Held(v) = {}
  BY DEF Run, PlainMemory
<1>4. ~On => Held(v)' = {}
  BY <1>1, <1>3 DEF Bind, Held, NoValue, CellsIn
<1>5. On => Held(v)' = CellsIn(val)
  BY <1>1 DEF Bind, Held
<1>6. \A w \in Declared : w # v /\ w \in Vars
  BY DEF Declared
<1>7. On /\ errors' = {} => \A w \in Vars : \A c \in Held(w)' : heap'[c] # "unused"
  BY <1>2, <1>5
<1> QED BY <1>2, <1>3, <1>4, <1>6, <1>7 DEF Quiet

\* On the executed path the new name v takes over what the names in W held
\* and unused cells.
LEMMA BoundAgrees ==
  ASSUME Fragment, Walk, Run, Agree(scope, visible), NEW W, NEW v \in Vars, Plain(W, {v}),
         \A w \in W : At(scope, w) = "Unconsumed",
         NEW val, env' = [env EXCEPT ![v] = val], path' = path, WholeValue(typ'[v], val),
         \A c \in CellsIn(val) : /\ heap'[c] = "live"
                                 /\ heap[c] = "unused" \/ \E w \in W : c \in Held(w),
         \A c \in Cells \ CellsIn(val) :
           IF \E w \in W : c \in Held(w) THEN heap'[c] # "live" ELSE heap'[c] = heap[c],
         \A c \in Cells : heap[c] # "unused" => heap'[c] # "unused"
  PROVE  /\ Agree(scope, visible)'
         /\ \A c \in CellsIn(val) : heap'[c] # "unused"
         /\ \A w \in Vars : \A c \in Held(w) : heap'[c] # "unused"
<1>1. env \in [Vars -> Value] /\ TypeOK
  BY DEF Fragment, TypeOK, OwnTypeOK
<1>2. env'[v] = val /\ Held(v)' = CellsIn(val) /\ \A w \in Vars \ {v} : env'[w] = env[w]
  BY <1>1 DEF Held
<1>3. \A w \in Vars : \A c \in Held(w) : c \in Cells /\ heap[c] # "unused"
  BY <1>1, HeldCells DEF Run, PlainMemory
<1>4. v \notin visible /\ W \subseteq visible /\ v \in Vars \ Declared /\ visible \subseteq Vars
  BY InFragment DEF Plain, NewNames
<1>5. \A c \in Cells : heap[c] # "unused" /\ (\A w \in W : c \notin Held(w)) => heap'[c] = heap[c]
  <2> SUFFICES ASSUME NEW c \in Cells, heap[c] # "unused", \A w \in W : c \notin Held(w)
               PROVE  heap'[c] = heap[c]
    OBVIOUS
  <2>1. c \notin CellsIn(val)
    OBVIOUS
  <2> QED BY <2>1
<1>6. \A c \in Cells : heap'[c] = "live" =>
        \/ heap[c] = "live" /\ \A w \in W : c \notin Held(w)
        \/ \E x \in {v} : c \in Held(x)'
  <2> SUFFICES ASSUME NEW c \in Cells, heap'[c] = "live", c \notin CellsIn(val)
               PROVE  heap[c] = "live" /\ \A w \in W : c \notin Held(w)
    BY <1>2
  <2> QED OBVIOUS
<1>7. Agree(scope, visible)'
  <2>1. {v} \subseteq {v} /\ {v} \subseteq {v} \cup visible /\ {v} \cap W = {}
    BY <1>4
  <2>2. \A x \in {v} :
           /\ WholeValue(typ'[x], env'[x])
           /\ \A c \in Held(x)' : /\ heap'[c] = "live"
                                  /\ \/ c \in Held(x) \/ heap[c] = "unused"
                                     \/ \E w \in W : c \in Held(w)
           /\ \A y \in {v} : x = y
    BY <1>2
  <2> QED BY <1>2, <1>5, <1>6, <2>1, <2>2, HandedAgree
<1> QED BY <1>3, <1>7

LEMMA LetFreshQuiet ==
  ASSUME Fragment, Walk, Run, errors = {}, NEW v \in Vars, NEW t \in LinearTypes,
         NEW ps \in Arguments, NEW val \in FreshValues(t), LetFresh(v, t, ps, val)
  PROVE  Quiet
<1> USE DEF LetFresh, RunVarDef
<1>1. Plain(Names(ps), {v})
  BY LetFreshPlain
<1>2. v \in Vars \ Declared /\ Declared' = Declared \cup {v} /\ phase = "body"
  BY <1>1 DEF Plain, NewNames
<1>3. UNCHANGED <<path, exited, content>> /\ errors \subseteq errors' /\ Bind(v, val)
  BY DEF Same, OffPath, CheckVarDef, Walked
<1>4. ~On => UNCHANGED <<faults, heap>>
  BY DEF OffPath, OnPath
<1>5. ASSUME On, errors' = {}
      PROVE  /\ Agree(scope, visible)' /\ faults' = faults
             /\ \A c \in CellsIn(val) : heap'[c] # "unused"
             /\ \A w \in Vars : \A c \in Held(w) : heap'[c] # "unused"
  <2>1. Agree(scope, visible) /\ ~Reused(scope, ps)
    BY <1>2, <1>5, OnAgrees DEF CheckVarDef, Walked, Report, Fragment
  <2>2. /\ \A c : c \in Given(ps) <=> \E w \in Names(ps) : c \in Held(w)
        /\ \A w \in Names(ps) : At(scope, w) = "Unconsumed"
        /\ GiveFaults(ps) = {}
    BY <2>1, GiveSafe
  <2>3. /\ heap' = HeapWith(HeapAfter(Given(ps)), CellsIn(val)) /\ faults' = faults
        /\ env' = [env EXCEPT ![v] = val]
    BY <1>5, <2>2 DEF OffPath, OnPath, Bind
  <2>4. \A c \in Cells : heap'[c] = IF c \in CellsIn(val) THEN "live"
                                    ELSE IF \E w \in Names(ps) : c \in Held(w) THEN "gone" ELSE heap[c]
    BY <2>2, <2>3 DEF HeapWith, HeapAfter
  <2>5. /\ WholeValue(t, val)
        /\ \A c \in CellsIn(val) : c \in Cells /\ heap[c] = "unused"
    BY DEF FreshValues, WholeValue, CellsIn
  <2>6. typ'[v] = t
    BY DEF Declare, Fragment, TypeOK, OwnTypeOK
  <2>7. WholeValue(typ'[v], val)
    BY <2>5, <2>6
  <2>8. /\ \A c \in CellsIn(val) : heap'[c] = "live" /\ heap[c] = "unused"
        /\ \A c \in Cells \ CellsIn(val) :
             IF \E w \in Names(ps) : c \in Held(w) THEN heap'[c] # "live" ELSE heap'[c] = heap[c]
        /\ \A c \in Cells : heap[c] # "unused" => heap'[c] # "unused"
    BY <2>4, <2>5
  <2> QED BY <1>1, <1>3, <2>1, <2>2, <2>3, <2>7, <2>8, BoundAgrees
<1> QED BY <1>2, <1>3, <1>4, <1>5, BoundQuiet

LEMMA LetMoveQuiet ==
  ASSUME Fragment, Walk, Run, errors = {}, NEW v \in Vars, NEW p \in Variables, LetMove(v, p)
  PROVE  Quiet
<1> USE DEF LetMove, RunMove
<1>1. /\ Plain({p[1]}, {v}) /\ p[1] \in visible /\ p = <<p[1], Root>>
      /\ Reused(scope, <<p>>) <=> At(scope, p[1]) = "Consumed"
  BY LetMovePlain, OneNamed, OneReused
<1>2. v \in Vars \ Declared /\ Declared' = Declared \cup {v} /\ phase = "body"
  BY <1>1 DEF Plain, NewNames
<1>3. UNCHANGED <<path, exited, content>> /\ errors \subseteq errors' /\ Bind(v, ValueAt(p))
  BY DEF Same, OffPath, CheckVarDef, Walked
<1>4. ~On => UNCHANGED <<faults, heap>>
  BY DEF OffPath, OnPath
<1>5. ASSUME On, errors' = {}
      PROVE  /\ Agree(scope, visible)' /\ faults' = faults
             /\ \A c \in CellsIn(ValueAt(p)) : heap'[c] # "unused"
             /\ \A w \in Vars : \A c \in Held(w) : heap'[c] # "unused"
  <2>1. Agree(scope, visible) /\ ~Reused(scope, <<p>>)
    BY <1>2, <1>5, OnAgrees DEF CheckVarDef, Walked, Report, Fragment
  <2>2. PICK x \in visible : x = p[1] /\ p = <<x, Root>> /\ At(scope, x) # "Consumed"
    BY <1>1, <2>1
  <2>3. /\ At(scope, x) = "Unconsumed" /\ WholeValue(typ[x], env[x])
        /\ \A c \in Held(x) : c \in Cells /\ heap[c] = "live"
        /\ ReadFaults(p) = {} /\ ValueAt(p) = env[x] /\ TypeAt(p) = typ[x]
    BY <2>1, <2>2, UsableIsLive
  <2>4. env' = [env EXCEPT ![v] = env[x]] /\ heap' = heap /\ faults' = faults
    BY <1>5, <2>3 DEF Bind, OffPath, OnPath
  <2>5. typ'[v] = typ[x]
    BY <2>3 DEF Declare, Fragment, TypeOK, OwnTypeOK
  <2>6. WholeValue(typ'[v], env[x]) /\ CellsIn(env[x]) = Held(x)
    BY <2>3, <2>5 DEF Held
  <2>7. /\ \A c \in CellsIn(env[x]) : heap'[c] = "live" /\ \E w \in {x} : c \in Held(w)
        /\ \A c \in Cells \ CellsIn(env[x]) :
             IF \E w \in {x} : c \in Held(w) THEN heap'[c] # "live" ELSE heap'[c] = heap[c]
        /\ \A c \in Cells : heap[c] # "unused" => heap'[c] # "unused"
        /\ \A w \in {x} : At(scope, w) = "Unconsumed"
        /\ Plain({x}, {v})
    BY <1>1, <2>2, <2>3, <2>4, <2>6
  <2>8. /\ Agree(scope, visible)'
        /\ \A c \in CellsIn(env[x]) : heap'[c] # "unused"
        /\ \A w \in Vars : \A c \in Held(w) : heap'[c] # "unused"
    BY <1>3, <2>1, <2>4, <2>6, <2>7, BoundAgrees
  <2> QED BY <2>3, <2>4, <2>8
<1> QED BY <1>2, <1>3, <1>4, <1>5, BoundQuiet

\* A literal of whole variables holds the one cell of each.
LEMMA PackedValue ==
  ASSUME Fragment, Walk, Run, Agree(scope, visible), NEW t \in DOMAIN Element, t \in dialect.types,
         NEW ps \in [DOMAIN Element[t] -> Operands],
         \A i \in DOMAIN ps : TypeAt(ps[i]) = FieldType[t][Element[t][i]], ~Reused(scope, ps)
  PROVE  /\ WholeValue(t, Packed(ps, Element[t]))
         /\ \A c : c \in CellsIn(Packed(ps, Element[t])) <=> \E w \in Names(ps) : c \in Held(w)
         /\ \A w \in Names(ps) : At(scope, w) = "Unconsumed"
         /\ \A w \in Names(ps) : \A c \in Held(w) : c \in Cells /\ heap[c] = "live"
<1> DEFINE keys == Element[t]
           val  == Packed(ps, keys)
<1>1. keys \in Seq(Fields \ {Star})
  BY ProgramAssumption
<1>2. PICK n \in Nat : DOMAIN ps = 1 .. n /\ DOMAIN keys = 1 .. n
  BY <1>1, LenProperties
<1>3. Named(ps)
  BY ElementsNamed
<1>4. /\ \A i \in 1 .. n : /\ ps[i] = <<ps[i][1], Root>> /\ ps[i][1] \in visible
                           /\ At(scope, ps[i][1]) = "Unconsumed"
      /\ \A i, j \in 1 .. n : i # j => ps[i][1] # ps[j][1]
      /\ Names(ps) = {ps[i][1] : i \in 1 .. n} /\ Names(ps) \subseteq visible
      /\ \A v \in Names(ps) : At(scope, v) = "Unconsumed"
  BY <1>2, <1>3, NamesOnce
<1>5. /\ Range(keys) = Layout[t] /\ Layout[t] \subseteq Slots
      /\ \A i, j \in 1 .. n : keys[i] = keys[j] => i = j
      /\ \A f \in Layout[t] : \E s \in Slots : Layout[FieldType[t][f]] = {s}
  <2>1. WholeType(t, dialect.types) /\ Layout[t] \subseteq Slots
    BY FragmentTypes
  <2> QED BY <1>2, <2>1 DEF WholeType
<1>6. \A i \in 1 .. n : keys[i] \in Layout[t]
  BY <1>2, <1>5 DEF Range
<1>7. ASSUME NEW i \in 1 .. n
      PROVE  /\ Held(ps[i][1]) = {ElementOf(ps[i])} /\ ElementOf(ps[i]) # Nil
             /\ ps[i][1] \in Vars
             /\ \A c \in Held(ps[i][1]) : c \in Cells /\ heap[c] = "live"
  <2>1. PICK x \in visible : x = ps[i][1] /\ At(scope, x) = "Unconsumed" /\ ps[i] = <<x, Root>>
    BY <1>4
  <2>2. /\ x \in Vars /\ Held(x) = {env[x][s] : s \in Layout[typ[x]]}
        /\ \A c \in Held(x) : c \in Cells /\ c # Nil /\ heap[c] = "live"
        /\ ValueAt(ps[i]) = env[x] /\ TypeAt(ps[i]) = typ[x]
    BY <2>1, UsableIsLive
  <2>3. typ[x] = FieldType[t][keys[i]]
    BY <1>2, <2>2
  <2>4. PICK s \in Slots : Layout[typ[x]] = {s}
    <3>1. \E s \in Slots : Layout[FieldType[t][keys[i]]] = {s}
      BY <1>5, <1>6
    <3> HIDE DEF keys
    <3> QED BY <2>3, <3>1
  <2>5. OnlySlot(typ[x]) = s
    BY <2>4 DEF OnlySlot
  <2>6. ElementOf(ps[i]) = env[x][s]
    BY <2>2, <2>5 DEF ElementOf
  <2>7. Held(x) = {ElementOf(ps[i])}
    BY <2>2, <2>4, <2>6
  <2> QED BY <2>1, <2>2, <2>7
<1>8. ASSUME NEW i \in 1 .. n  PROVE val[keys[i]] = ElementOf(ps[i])
  <2>1. keys[i] \in Slots
    BY <1>5, <1>6
  <2>2. (CHOOSE j \in DOMAIN keys : keys[j] = keys[i]) = i
    BY <1>2, <1>5
  <2>3. \E j \in DOMAIN keys : keys[j] = keys[i]
    BY <1>2
  <2> QED BY <2>1, <2>2, <2>3 DEF Packed
<1>9. \A s \in Slots \ Layout[t] : val[s] = Nil
  BY <1>2, <1>6 DEF Packed
<1>10. \A s \in Layout[t] : \E i \in 1 .. n : s = keys[i]
  BY <1>2, <1>5 DEF Range
<1>11. \A i, j \in 1 .. n : ElementOf(ps[i]) = ElementOf(ps[j]) => i = j
  <2> SUFFICES ASSUME NEW i \in 1 .. n, NEW j \in 1 .. n, i # j
               PROVE  ElementOf(ps[i]) # ElementOf(ps[j])
    OBVIOUS
  <2>1. Held(ps[i][1]) \cap Held(ps[j][1]) = {}
    <3>1. TypeOK
      BY DEF Fragment
    <3> QED BY <1>4, <1>7, <3>1, OwnersApart
  <2> QED BY <1>7, <2>1
<1> HIDE DEF val, keys
<1>12. WholeValue(t, val)
  <2>1. \A s \in Layout[t] : val[s] # Nil
    BY <1>7, <1>8, <1>10
  <2>2. \A s, u \in Layout[t] : val[s] = val[u] => s = u
    BY <1>8, <1>10, <1>11
  <2> QED BY <1>5, <1>9, <2>1, <2>2 DEF WholeValue
<1>13. ASSUME NEW c
       PROVE  c \in CellsIn(val) <=> \E w \in Names(ps) : c \in Held(w)
  <2>1. c \in CellsIn(val) <=> \E s \in Layout[t] : c = val[s]
    BY <1>5, <1>12 DEF CellsIn, WholeValue
  <2>2. (\E s \in Layout[t] : c = val[s]) <=> \E i \in 1 .. n : c = ElementOf(ps[i])
    BY <1>6, <1>8, <1>10
  <2>3. (\E w \in Names(ps) : c \in Held(w)) <=> \E i \in 1 .. n : c = ElementOf(ps[i])
    <3>1. \A i \in 1 .. n : c \in Held(ps[i][1]) <=> c = ElementOf(ps[i])
      BY <1>7
    <3>2. (\E w \in Names(ps) : c \in Held(w)) <=> \E i \in 1 .. n : c \in Held(ps[i][1])
      BY <1>4, Zenon
    <3> QED BY <3>1, <3>2
  <2> QED BY <2>1, <2>2, <2>3
<1>14. \A w \in Names(ps) : \A c \in Held(w) : c \in Cells /\ heap[c] = "live"
  BY <1>4, <1>7
<1> QED BY <1>4, <1>12, <1>13, <1>14 DEF val, keys

LEMMA LetPackQuiet ==
  ASSUME Fragment, Walk, Run, errors = {}, NEW v \in Vars, NEW t \in DOMAIN Element,
         NEW ps \in [DOMAIN Element[t] -> Operands], LetPack(v, t, ps)
  PROVE  Quiet
<1> USE DEF LetPack, RunPack
<1> DEFINE val == Packed(ps, Element[t])
<1>1. Plain(Names(ps), {v})
  BY LetPackPlain
<1>2. v \in Vars \ Declared /\ Declared' = Declared \cup {v} /\ phase = "body"
  BY <1>1 DEF Plain, NewNames
<1>3. UNCHANGED <<path, exited, content>> /\ errors \subseteq errors' /\ Bind(v, val)
  BY DEF Same, OffPath, CheckVarDef, Walked
<1>4. ~On => UNCHANGED <<faults, heap>>
  BY DEF OffPath, OnPath
<1>5. ASSUME On, errors' = {}
      PROVE  /\ Agree(scope, visible)' /\ faults' = faults
             /\ \A c \in CellsIn(val) : heap'[c] # "unused"
             /\ \A w \in Vars : \A c \in Held(w) : heap'[c] # "unused"
  <2>1. Agree(scope, visible) /\ ~Reused(scope, ps)
    BY <1>2, <1>5, OnAgrees DEF CheckVarDef, Walked, Report, Fragment
  <2>2. /\ WholeValue(t, val)
        /\ \A c : c \in CellsIn(val) <=> \E w \in Names(ps) : c \in Held(w)
        /\ \A w \in Names(ps) : At(scope, w) = "Unconsumed"
        /\ \A w \in Names(ps) : \A c \in Held(w) : c \in Cells /\ heap[c] = "live"
    BY <2>1, PackedValue
  <2>3. env' = [env EXCEPT ![v] = val] /\ heap' = heap /\ faults' = faults
    BY <1>5 DEF Bind, OffPath, OnPath
  <2>4. typ'[v] = t
    BY DEF Declare, Fragment, TypeOK, OwnTypeOK
  <2> HIDE DEF val
  <2>5. /\ WholeValue(typ'[v], val)
        /\ \A c \in CellsIn(val) : heap'[c] = "live" /\ \E w \in Names(ps) : c \in Held(w)
        /\ \A c \in Cells \ CellsIn(val) :
             IF \E w \in Names(ps) : c \in Held(w) THEN heap'[c] # "live" ELSE heap'[c] = heap[c]
        /\ \A c \in Cells : heap[c] # "unused" => heap'[c] # "unused"
    BY <2>2, <2>3, <2>4
  <2> QED BY <1>1, <1>3, <2>1, <2>2, <2>3, <2>5, BoundAgrees
<1> QED BY <1>2, <1>3, <1>4, <1>5, BoundQuiet

LEMMA DestructuredValues ==
  ASSUME env \in [Vars -> Value], NEW x \in Vars, NEW S, NEW dst \in [S -> Vars],
         \A f, g \in DOMAIN dst : dst[f] = dst[g] => f = g, RunDestructure(x, dst)
  PROVE  /\ \A v \in Vars \ Range(dst) : env'[v] = env[v]
         /\ On => \A f \in DOMAIN dst : env'[dst[f]] = FieldValue(x, f)
         /\ ~On => \A v \in Range(dst) : env'[v] \in {env[v], NoValue}
<1> DEFINE field(v) == CHOOSE f \in DOMAIN dst : dst[f] = v
           read == [v \in Vars |-> IF v \in Range(dst)
                                   THEN FieldValue(x, field(v)) ELSE env[v]]
           none == [v \in Vars |-> IF v \in Range(dst) THEN NoValue ELSE env[v]]
<1>1. env' = IF On THEN read ELSE IF exited THEN env ELSE none
  BY DEF RunDestructure
<1>2. \A f \in DOMAIN dst : field(dst[f]) = f /\ dst[f] \in Range(dst) /\ dst[f] \in Vars
  BY DEF Range
<1>3. Range(dst) \subseteq Vars
  BY DEF Range
<1>4. \A f \in DOMAIN dst : read[dst[f]] = FieldValue(x, f)
  BY <1>2
<1>5. \A v \in Vars \ Range(dst) : read[v] = env[v] /\ none[v] = env[v]
  OBVIOUS
<1>6. \A v \in Range(dst) : none[v] = NoValue
  BY <1>3
<1> HIDE DEF read, none, field
<1> QED BY <1>1, <1>3, <1>4, <1>5, <1>6

\* What a field of a whole tuple is read as.
LEMMA FieldCell ==
  ASSUME Fragment, Walk, Run, NEW x \in visible, typ[x] \in Tuples,
         NEW f \in Range(Element[typ[x]]), WholeValue(typ[x], env[x])
  PROVE  /\ FieldValue(x, f)[Root] = env[x][f] /\ env[x][f] # Nil
         /\ WholeValue(FieldType[typ[x]][f], FieldValue(x, f))
         /\ CellsIn(FieldValue(x, f)) = {env[x][f]}
<1>1. /\ f \in Fields /\ f # Star /\ f \in Layout[typ[x]]
      /\ Layout[FieldType[typ[x]][f]] = {Root}
  BY TupleFields
<1>2. \A s \in Slots : FieldValue(x, f)[s] = IF s = Root THEN env[x][f] ELSE Nil
  BY <1>1 DEF FieldValue, Load
<1>3. env[x][f] # Nil /\ Root \in Slots
  BY <1>1 DEF WholeValue, Slots
<1> QED BY <1>1, <1>2, <1>3 DEF WholeValue, CellsIn

LEMMA TupleLayout ==
  ASSUME Fragment, Walk, NEW x \in visible, typ[x] \in Tuples
  PROVE  Range(Element[typ[x]]) = Layout[typ[x]]
<1>1. x \in Vars /\ typ[x] \in dialect.types /\ typ[x] \in DOMAIN Element
  BY InFragment, ProgramAssumption DEF Walk, DeclaredAreWhole
<1> QED BY <1>1, FragmentTypes DEF WholeType

LEMMA LetDestructureQuiet ==
  ASSUME Fragment, Walk, Run, errors = {}, NEW x \in visible, typ[x] \in Tuples,
         NEW dst \in [Range(Element[typ[x]]) -> Vars], LetDestructure(x, dst)
  PROVE  Quiet
<1> DEFINE V == Range(dst)
<1>1. /\ Plain({x}, V) /\ \A f \in DOMAIN dst : typ'[dst[f]] = FieldType[typ[x]][f]
  BY LetDestructurePlain
<1>2. /\ x \in Vars /\ x \in Declared /\ Declared \subseteq Vars /\ env \in [Vars -> Value] /\ TypeOK
      /\ V \subseteq Vars \ Declared /\ Declared' = Declared \cup V /\ phase = "body"
  BY <1>1, InFragment DEF Plain, NewNames, Fragment, TypeOK, OwnTypeOK
<1>3. /\ \A f, g \in DOMAIN dst : dst[f] = dst[g] => f = g
      /\ RunDestructure(x, dst) /\ DOMAIN dst = Range(Element[typ[x]])
  BY DEF LetDestructure
<1>4. /\ \A v \in Vars \ V : env'[v] = env[v]
      /\ On => \A f \in DOMAIN dst : env'[dst[f]] = FieldValue(x, f)
      /\ ~On => \A v \in V : env'[v] \in {env[v], NoValue}
  BY <1>2, <1>3, DestructuredValues
<1>5. UNCHANGED <<path, exited, content, heap>> /\ errors \subseteq errors' /\ faults' = faults
  BY <1>3 DEF RunDestructure, Same, OffPath, OnPath, LetDestructure, CheckDestructure, Walked
<1>6. \A v \in Vars \ V : Held(v)' = Held(v)
  BY <1>4 DEF Held
<1>7. \A v \in V : Held(v) = {}
  BY <1>2 DEF Run, PlainMemory
<1>8. ~On => \A v \in V : Held(v)' = {}
  <2>1. CellsIn(NoValue) = {}
    BY <1>2 DEF CellsIn, NoValue
  <2> QED BY <1>4, <1>7, <2>1 DEF Held
<1>9. ASSUME On, errors' = {}
      PROVE  /\ Agree(scope, visible)'
             /\ \A v \in Vars : \A c \in Held(v)' : heap'[c] # "unused"
  <2>1. Agree(scope, visible)
    BY <1>2, <1>9, OnAgrees
  <2>2. At(scope, x) # "Consumed"
    BY <1>9 DEF LetDestructure, CheckDestructure, Walked, Report, At
  <2>3. /\ At(scope, x) = "Unconsumed" /\ WholeValue(typ[x], env[x])
        /\ Held(x) = {env[x][s] : s \in Layout[typ[x]]}
        /\ \A c \in Held(x) : c \in Cells /\ heap[c] = "live"
    BY <2>1, <2>2, UsableIsLive
  <2>4. \A f \in DOMAIN dst : /\ dst[f] \in Vars /\ f \in Layout[typ[x]]
                              /\ WholeValue(typ'[dst[f]], env'[dst[f]])
                              /\ Held(dst[f])' = {env[x][f]}
    <3> SUFFICES ASSUME NEW f \in DOMAIN dst
                 PROVE  /\ dst[f] \in Vars /\ f \in Layout[typ[x]]
                        /\ WholeValue(typ'[dst[f]], env'[dst[f]])
                        /\ Held(dst[f])' = {env[x][f]}
      OBVIOUS
    <3>1. /\ WholeValue(FieldType[typ[x]][f], FieldValue(x, f))
          /\ CellsIn(FieldValue(x, f)) = {env[x][f]} /\ f \in Layout[typ[x]]
      BY <1>3, <2>3, FieldCell, TupleFields
    <3> QED BY <1>1, <1>4, <1>9, <3>1 DEF Held
  <2>5. \A v \in V : \E f \in DOMAIN dst : v = dst[f]
    BY DEF Range
  <2>6. \A v \in V : /\ WholeValue(typ'[v], env'[v])
                     /\ \A c \in Held(v)' : c \in Held(x) /\ heap'[c] = "live"
    BY <1>5, <2>3, <2>4, <2>5
  <2>7. \A v, w \in V : v # w => Held(v)' \cap Held(w)' = {}
    <3>1. \A f, g \in DOMAIN dst : f # g => env[x][f] # env[x][g]
      BY <2>3, <2>4 DEF WholeValue
    <3> QED BY <2>4, <2>5, <3>1
  <2>8. \A c \in Held(x) : \E v \in V : c \in Held(v)'
    <3>1. \A f \in Layout[typ[x]] : f \in DOMAIN dst
      BY <1>3, TupleLayout
    <3>2. \A f \in DOMAIN dst : dst[f] \in V
      BY DEF Range
    <3> QED BY <2>3, <2>4, <3>1, <3>2
  <2>9. Agree(scope, visible)'
    <3>1. /\ \A w \in {x} : At(scope, w) = "Unconsumed"
          /\ V \subseteq V /\ V \subseteq V \cup visible /\ V \cap {x} = {} /\ path' = path
      BY <1>2, <1>5, <2>3
    <3>2. \A v \in V : /\ WholeValue(typ'[v], env'[v])
                       /\ \A c \in Held(v)' : heap'[c] = "live" /\ \E w \in {x} : c \in Held(w)
                       /\ \A y \in V : v # y => Held(v)' \cap Held(y)' = {}
      BY <2>6, <2>7
    <3>3. \A c \in Cells : heap'[c] = "live" =>
            \/ heap[c] = "live" /\ \A w \in {x} : c \notin Held(w)
            \/ \E v \in V : c \in Held(v)'
      BY <1>5, <2>8
    <3> HIDE DEF V
    <3> QED BY <1>1, <1>4, <1>5, <2>1, <3>1, <3>2, <3>3, HandedAgree
  <2>10. \A v \in Vars : \A c \in Held(v)' : heap'[c] # "unused"
    BY <1>5, <1>6, <2>6 DEF Run, PlainMemory
  <2> QED BY <2>9, <2>10
<1>10. \A v \in Declared : v \in Vars \ V /\ Held(v)' = Held(v) /\ env'[v] = env[v]
  BY <1>2, <1>4, <1>6
<1>11. ~On => \A v \in Vars : Held(v)' = Held(v)
  BY <1>6, <1>7, <1>8
<1>12. \A v \in Vars \ Declared' : Held(v)' = Held(v)
  BY <1>2, <1>6
<1> QED BY <1>5, <1>9, <1>10, <1>11, <1>12 DEF Quiet

-----------------------------------------------------------------------------
(* A store into a field: the old value of the field is forgotten *)

LEMMA StoreFieldQuiet ==
  ASSUME Fragment, Walk, Run, errors = {}, NEW b \in visible, NEW f \in Fields, NEW w \in visible,
         StoreField(b, f, w)
  PROVE  Quiet
<1> USE DEF StoreField, RunStoreField
<1>1. /\ b \in Vars /\ w \in Vars /\ b \in Declared /\ env \in [Vars -> Value] /\ TypeOK
      /\ typ[b] \in dialect.types /\ typ[w] \in dialect.types /\ Declared' = Declared
  BY InFragment DEF Fragment, TypeOK, OwnTypeOK, Walk, DeclaredAreWhole, Declared
<1>2. Layout[typ[w]] = {Root} /\ typ[w] # NoType
  BY <1>1, FragmentTypes DEF Pointer
<1>3. f \in Layout[typ[b]] /\ f # Root /\ f \in Slots
  <2>1. FieldType[typ[b]][f] # NoType /\ f # Star
    BY <1>2
  <2> QED BY <1>1, <2>1, FragmentTypes, ProgramVocabulary DEF WholeType, Slots
<1>4. b # w
  BY <1>2, <1>3
<1>5. /\ UNCHANGED <<path, exited, content, heap>> /\ errors \subseteq errors' /\ faults' = faults
      /\ phase = "body"
  BY DEF Same, OffPath, OnPath, CheckStoreField, Walked, Statement
<1>6. ~Without({"store_field"})
  BY DEF Statement, Without
<1>7. Load(<<w, Root>>) = env[w][Root]
  BY ProgramVocabulary DEF Load
<1>8. ~On => env' = env
  OBVIOUS
<1>9. (\A v \in Vars \ {b} : env'[v] = env[v]) /\ \A v \in Vars \ {b} : Held(v)' = Held(v)
  BY <1>1 DEF Held
<1>10. ASSUME On, errors' = {}
       PROVE  /\ Agree(scope, visible)'
              /\ \A v \in Vars : \A c \in Held(v)' : heap'[c] # "unused"
  <2>1. Agree(scope, visible)
    BY <1>1, <1>5, <1>10, OnAgrees
  <2>2. At(scope, w) # "Consumed"
    <3>1. <<w, Root>> \in Variables
      BY InFragment
    <3>2. ~Reused(scope, <<<<w, Root>>>>)
      BY <1>10 DEF CheckStoreField, Walked, Report
    <3> QED BY <3>1, <3>2, OneReused
  <2>3. /\ Held(w) = {env[w][Root]} /\ env[w][Root] \in Cells /\ env[w][Root] # Nil
        /\ heap[env[w][Root]] = "live" /\ At(scope, w) = "Unconsumed"
    BY <2>1, <2>2, PointerIsLive, UsableIsLive
  <2>4. env'[b] = [env[b] EXCEPT ![f] = env[w][Root]] /\ env[b] \in [Slots -> CellOrNil]
    BY <1>1, <1>7, <1>10
  <2>5. \A s \in Slots : env'[b][s] = IF s = f THEN env[w][Root] ELSE env[b][s]
    BY <1>3, <2>4
  <2>6. \A c \in Held(b)' : c \in Held(b) \/ c = env[w][Root]
    BY <2>5 DEF Held, CellsIn
  <2>7. Plain({w}, {}) /\ typ' = typ
    BY StoreFieldPlain
  <2>8. ASSUME At(scope', b) = "Unconsumed"
        PROVE  /\ WholeValue(typ'[b], env'[b])
               /\ \A c \in Held(b)' : heap'[c] = "live" /\ (c \in Held(b) \/ c \in Held(w))
    <3>1. At(scope, b) = "Unconsumed"
      BY <1>1, <1>4, <2>7, <2>8 DEF Plain
    <3>2. /\ WholeValue(typ[b], env[b])
          /\ \A c \in Held(b) : c \in Cells /\ c # Nil /\ heap[c] = "live"
      BY <2>1, <3>1, UsableIsLive
    <3>3. Held(b) \cap Held(w) = {}
      BY <1>1, <1>4, <2>1, <2>3, <3>1, OwnersApart
    <3>4. \A s \in Layout[typ[b]] : env[b][s] \in Held(b) /\ s \in Slots
      BY <1>1, <3>2, FragmentTypes DEF WholeValue, Held, CellsIn
    <3>5. \A s \in Layout[typ[b]] : env[b][s] # env[w][Root]
      BY <2>3, <3>3, <3>4
    <3>6. WholeValue(typ[b], env'[b])
      <4>1. \A s \in Slots : env'[b][s] # Nil <=> s \in Layout[typ[b]]
        BY <1>3, <2>3, <2>5, <3>2 DEF WholeValue
      <4>2. \A s, u \in Layout[typ[b]] : env'[b][s] = env'[b][u] => s = u
        <5>1. \A s, u \in Layout[typ[b]] : env[b][s] = env[b][u] => s = u
          BY <3>2 DEF WholeValue
        <5> QED BY <2>5, <3>4, <3>5, <5>1
      <4> QED BY <4>1, <4>2 DEF WholeValue
    <3> QED BY <1>5, <2>3, <2>6, <2>7, <3>2, <3>6
  <2>9. Agree(scope, visible)'
    <3>1. PICK V, X : V = {} /\ X = {b}
      OBVIOUS
    <3>2. /\ Plain({w}, V) /\ \A u \in {w} : At(scope, u) = "Unconsumed"
          /\ V \subseteq X /\ X \subseteq V \cup visible /\ X \cap {w} = {}
          /\ path' = path /\ \A v \in Vars \ X : env'[v] = env[v]
      BY <1>4, <1>5, <1>9, <2>3, <2>7, <3>1
    <3>3. \A x \in X : At(scope', x) = "Unconsumed" =>
            /\ WholeValue(typ'[x], env'[x])
            /\ \A c \in Held(x)' : heap'[c] = "live" /\ (c \in Held(x) \/ \E u \in {w} : c \in Held(u))
            /\ \A y \in X : x = y
      BY <2>8, <3>1
    <3> QED BY <1>5, <1>6, <2>1, <3>2, <3>3, HandedAgree
  <2>10. \A v \in Vars : \A c \in Held(v)' : heap'[c] # "unused"
    <3>1. \A v \in Vars : \A c \in Held(v) : heap[c] # "unused"
      BY DEF Run, PlainMemory
    <3> QED BY <1>1, <1>5, <1>9, <2>3, <2>6, <3>1
  <2> QED BY <2>9, <2>10
<1>11. ~On => (\A v \in Vars : Held(v)' = Held(v)) /\ \A v \in Declared : env'[v] = env[v]
  BY <1>8 DEF Held
<1>12. \A v \in Vars \ Declared' : Held(v)' = Held(v)
  BY <1>1, <1>9
<1> QED BY <1>5, <1>6, <1>10, <1>11, <1>12 DEF Quiet

-----------------------------------------------------------------------------
(* Every statement *)

\* A return hands over its operand; what is live then is lost, and shows.
LEMMA ReturnRun ==
  ASSUME Fragment, Walk, Run, errors = {}, errors' = {}, NEW ps \in OneOperand,
         EarlyReturn(ps) \/ Return(ps)
  PROVE  Run'
<1>0. /\ CheckReturn(ps) /\ RunReturn(ps) /\ ~sealed /\ phase = "body" /\ phase' = "body"
      /\ UNCHANGED <<frames, outer, dialect, visible>>
      /\ "early_return" \in dialect.ops \/ sealed'
  BY DEF EarlyReturn, Return, CheckReturn, Walked, Statement, NoDecl, programVars
<1>1. Plain(Names(ps), {}) /\ TypeOK
  BY ReturnPlain DEF Fragment
<1>2. ~Reused(scope, ps) /\ errors \subseteq errors'
  BY <1>0 DEF CheckReturn, Walked, Report
<1>3. CASE ~On
  <2>1. UNCHANGED <<env, path, exited, content, faults, heap>>
    BY <1>0, <1>3 DEF RunReturn
  <2>2. Quiet
    BY <1>2, <1>3, <2>1, QuietUnbound
  <2> QED BY <1>1, <2>2, QuietRun
<1>4. CASE On
  <2>1. Agree(scope, visible)
    BY <1>0, <1>1, <1>4, OnAgrees
  <2>2. /\ GiveFaults(ps) = {} /\ Names(ps) \subseteq visible
        /\ \A v \in Vars : At(scope', v) = IF v \in Names(ps) THEN "Consumed" ELSE At(scope, v)
    BY <1>1, <1>2, <2>1, GiveSafe DEF Plain
  <2>3. /\ exited' = TRUE /\ heap' = HeapAfter(Given(ps)) /\ faults' = faults \cup LeakIn(heap')
        /\ UNCHANGED <<env, typ, content, path>>
    BY <1>0, <1>4, <2>2 DEF RunReturn
  <2>4. /\ Agree(scope, visible)'
        /\ \A v \in Vars : \A c \in Held(v) : heap'[c] # "unused"
    BY <1>1, <1>2, <2>1, <2>3, GivingAgrees
  <2>5. /\ Open' = Open /\ Declared' = Declared /\ Frozen' = Frozen
        /\ \A i : Before(i)' = Before(i) /\ Executed(i)' = Executed(i) /\ Repeated(i)' = Repeated(i)
        /\ \A v : Held(v)' = Held(v)
        /\ \A ops : Without(ops)' = Without(ops)
    BY <1>0, <2>3 DEF Open, Before, Executed, Repeated, Held, Declared, Frozen, Without
  <2>6. NoDangling'
    BY <2>3 DEF Run, NoDangling, LeakIn
  <2>7. PathShape'
    BY <1>0, <2>3, <2>5 DEF Run, PathShape
  <2>8. PlainMemory'
    BY <2>3, <2>4, <2>5 DEF Run, PlainMemory
  <2>9. LoopEntries'
    BY <2>3, <2>5 DEF Run, LoopEntries
  <2>10. ExitIsLast'
    BY <1>0 DEF ExitIsLast, Without
  <2>11. LeaksShow'
    <3>1. ASSUME Without(Losing), "leak" \in faults
          PROVE  \E v \in Vars : At(scope', v) = "Unconsumed" /\ sealed'
      <4>1. PICK v \in Vars : At(scope, v) = "Unconsumed" /\ v \in Frozen
        BY <1>0, <3>1 DEF Run, LeaksShow
      <4>2. At(scope', v) = "Unconsumed"
        BY <2>2, <4>1 DEF Frozen
      <4>3. sealed'
        BY <1>0, <3>1 DEF Without, Losing
      <4> QED BY <4>2, <4>3
    <3>2. ASSUME Without(Losing), "leak" \in LeakIn(heap')
          PROVE  \E v \in Vars : At(scope', v) = "Unconsumed" /\ sealed'
      <4>1. PICK c \in Cells : heap'[c] = "live"
        BY <3>2 DEF LeakIn
      <4>2. Without({"store_field"})' /\ sealed'
        BY <1>0, <3>2 DEF Without, Losing
      <4>3. Knows(scope', Holdings', heap')
        BY <2>4, <4>2 DEF Agree
      <4> QED BY <4>1, <4>2, <4>3 DEF Knows
    <3>3. Without(Losing)' => Without(Losing)
      BY <2>5
    <3> QED BY <2>3, <3>1, <3>2, <3>3 DEF LeaksShow
  <2> QED BY <1>0, <2>3, <2>6, <2>7, <2>8, <2>9, <2>10, <2>11 DEF Run
<1> QED BY <1>3, <1>4

LEMMA StatementsRun ==
  ASSUME Fragment, Walk, Run, errors = {}, errors' = {},
         LetNext \/ DestructureNext \/ StatementNext
  PROVE  Run'
<1>1. ASSUME NEW v \in Vars, NEW t \in LinearTypes, NEW ps \in Arguments,
             NEW val \in FreshValues(t), LetFresh(v, t, ps, val)
      PROVE  Run'
  BY <1>1, LetFreshPlain, LetFreshQuiet, QuietRun
<1>2. ASSUME NEW v \in Vars, NEW p \in Variables, LetMove(v, p)  PROVE Run'
  BY <1>2, LetMovePlain, LetMoveQuiet, QuietRun
<1>3. ASSUME NEW v \in Vars, NEW t \in DOMAIN Element,
             NEW ps \in [DOMAIN Element[t] -> Operands], LetPack(v, t, ps)
      PROVE  Run'
  BY <1>3, LetPackPlain, LetPackQuiet, QuietRun
<1>4. ASSUME NEW x \in visible, typ[x] \in Tuples,
             NEW dst \in [Range(Element[typ[x]]) -> Vars], LetDestructure(x, dst)
      PROVE  Run'
  BY <1>4, LetDestructurePlain, LetDestructureQuiet, QuietRun
<1>5. ASSUME NEW ps \in Arguments, Call(ps)  PROVE Run'
  BY <1>5, CallPlain, CallQuiet, QuietRun
<1>6. ASSUME NEW p \in Variables, Free(p)  PROVE Run'
  BY <1>6, FreePlain, FreeQuiet, QuietRun
<1>7. ASSUME NEW p \in Variables, Use(p)  PROVE Run'
  BY <1>7, LookingPlain, UseQuiet, QuietRun
<1>8. ASSUME NEW p \in Variables, AddrOf(p)  PROVE Run'
  BY <1>8, LookingPlain, AddrOfQuiet, QuietRun
<1>9. ASSUME NEW b \in visible, NEW f \in Fields, NEW w \in visible, StoreField(b, f, w)
      PROVE  Run'
  BY <1>9, StoreFieldPlain, StoreFieldQuiet, QuietRun
<1>10. ASSUME NEW ps \in OneOperand, EarlyReturn(ps) \/ Return(ps)  PROVE Run'
  BY <1>10, ReturnRun
<1> QED
  BY <1>1, <1>2, <1>3, <1>4, <1>5, <1>6, <1>7, <1>8, <1>9, <1>10, FragmentStatements,
     DiscardRejected

-----------------------------------------------------------------------------
(* Constructs open *)

LEMMA OpenedPath ==
  ASSUME TypeOK, NEW runs, RunBegin(runs), NEW n \in Nat, n = Len(frames)
  PROVE  \E r \in IF On THEN runs ELSE {"skip"} :
           /\ \A i \in 1 .. n : path'[i] = path[i]
           /\ path'[n + 1] = [run |-> r, entry |-> IF r = "now" THEN LiveCells ELSE {}]
<1>1. PICK r \in IF On THEN runs ELSE {"skip"} :
        path' = Append(path, [run |-> r, entry |-> IF r = "now" THEN LiveCells ELSE {}])
  BY DEF RunBegin
<1>2. PICK hop : hop = [run |-> r, entry |-> IF r = "now" THEN LiveCells ELSE {}]
  OBVIOUS
<1>3. path \in Seq(Range(path) \cup {hop}) /\ Len(path) = n
  <2>1. Len(path) = n /\ path \in Seq([run : Runs, entry : SUBSET Cells])
    BY DEF TypeOK, ProgramTypeOK, OwnTypeOK
  <2>2. path \in [1 .. Len(path) -> Range(path) \cup {hop}]
    BY <2>1, LenProperties DEF Range
  <2> QED BY <2>1, <2>2
<1>4. /\ \A i \in 1 .. n : Append(path, hop)[i] = path[i]
      /\ Append(path, hop)[n + 1] = hop
  BY <1>3, AppendToSeq
<1> QED BY <1>1, <1>2, <1>4

\* Where the memory is as it was, a map that describes it still does; only
\* what a loop relies on is to be looked at.
LEMMA AgreeKept ==
  ASSUME NEW M, NEW D, Agree(M, D), UNCHANGED <<env, typ, heap, dialect>>,
         \A i \in Open' : Repeated(i)' => Keeps(Before(i)', M, Holdings, heap, path'[i].entry)
  PROVE  Agree(M, D)'
<1>1. Holdings' = Holdings /\ (Without({"store_field"})' <=> Without({"store_field"}))
  BY DEF Holdings, Held, Without
<1>2. Shaped(M)'
  BY DEF Agree, Shaped, WholeValue, Held
<1> QED BY <1>1, <1>2 DEF Agree

LEMMA OpenedRun ==
  ASSUME Fragment, Walk, Run, errors = {}, If \/ Case \/ Loop
  PROVE  Run'
<1>1. PICK kind \in {"if", "case", "loop"}, runs \in {{"now", "waiting"}, {"now", "skip"}} :
        /\ Opened(kind) /\ RunBegin(runs)
        /\ kind = "loop" <=> runs = {"now", "skip"}
  <2>1. \/ If /\ BeginBranch("if") /\ RunBegin({"now", "waiting"}) /\ Opened("if")
        \/ Case /\ BeginBranch("case") /\ RunBegin({"now", "waiting"}) /\ Opened("case")
        \/ Loop /\ BeginLoop /\ RunBegin({"now", "skip"}) /\ Opened("loop")
    BY DEF If, Case, Loop, Statement, BeginBranch, BeginLoop, Opens, Opened, RunBeginBranch,
           RunBeginLoop, RunBegin, Declared
  <2>2. {"now", "waiting"} # {"now", "skip"}
    OBVIOUS
  <2> QED BY <2>1, <2>2
<1>2. PICK n \in Nat : n = Len(frames)
  BY LenProperties DEF Fragment, TypeOK, CheckerTypeOK
<1>3. /\ Open = 1 .. n /\ Open' = 1 .. n + 1
      /\ \A i \in Open : frames'[i] = frames[i] /\ outer'[i] = outer[i]
      /\ frames'[n + 1] = [kind |-> kind, before |-> scope, arms |-> <<>>]
      /\ outer'[n + 1] = visible
  BY <1>1, <1>2, OpenedFrames DEF Fragment
<1>4. PICK r \in IF On THEN runs ELSE {"skip"} :
        /\ \A i \in 1 .. n : path'[i] = path[i]
        /\ path'[n + 1] = [run |-> r, entry |-> IF r = "now" THEN LiveCells ELSE {}]
  BY <1>1, <1>2, OpenedPath DEF Fragment
<1>5. /\ \A i \in Open : /\ Before(i)' = Before(i) /\ Executed(i)' = Executed(i)
                        /\ Repeated(i)' = Repeated(i)
      /\ Before(n + 1)' = scope /\ (Executed(n + 1)' <=> r = "now")
      /\ Repeated(n + 1)' => Executed(n + 1)'
  BY <1>3, <1>4 DEF Before, Executed, Repeated
<1>6. /\ UNCHANGED <<env, typ, heap, content, exited, faults, scope, visible, dialect, sealed>>
      /\ Declared' = Declared /\ Frozen' = Frozen /\ phase = "body" /\ phase' = "body"
      /\ \A v : Held(v)' = Held(v)
  BY <1>1 DEF RunBegin, Opened, Frozen, Held
<1>7. On <=> ~exited /\ \A i \in Open : Executed(i)
  BY StacksAlike DEF Fragment, On, Executed
<1>8. On => Agree(scope, visible)
  BY <1>6, OnAgrees DEF Fragment
<1>9. \A i \in Open' : i \in Open \/ i = n + 1
  BY <1>3
<1>10. PathShape'
  <2>1. ASSUME NEW i \in Open', frames'[i].kind = "loop"  PROVE path'[i].run \in {"now", "skip"}
    <3>1. CASE i \in Open
      BY <1>3, <1>4, <2>1, <3>1 DEF Run, PathShape
    <3>2. CASE i = n + 1
      BY <1>1, <1>3, <1>4, <2>1, <3>2
    <3> QED BY <1>9, <3>1, <3>2
  <2>2. ASSUME NEW i \in Open', NEW j \in Open', i < j, ~Executed(i)'
        PROVE  path'[j].run = "skip"
    <3>1. i \in Open
      BY <1>3, <2>2
    <3>2. CASE j \in Open
      BY <1>3, <1>4, <1>5, <2>2, <3>1, <3>2 DEF Run, PathShape
    <3>3. CASE j = n + 1
      <4>1. ~On
        BY <1>5, <1>7, <2>2, <3>1
      <4>2. r = "skip"
        BY <1>4, <4>1
      <4> QED BY <1>4, <3>3, <4>2
    <3> QED BY <1>9, <3>2, <3>3
  <2>3. ASSUME NEW i \in Open', ~exited', frames'[i].kind # "loop", path'[i].run = "skip"
        PROVE  \E j \in Open' : j < i /\ ~Executed(j)'
    <3>1. CASE i \in Open
      <4>1. PICK j \in Open : j < i /\ ~Executed(j)
        BY <1>3, <1>4, <1>6, <2>3, <3>1 DEF Run, PathShape
      <4> QED BY <1>3, <1>5, <4>1
    <3>2. CASE i = n + 1
      <4>1. PICK j \in Open : ~Executed(j)
        BY <1>1, <1>3, <1>4, <1>6, <1>7, <2>3, <3>2
      <4> QED BY <1>3, <1>5, <3>2, <4>1
    <3> QED BY <1>9, <3>1, <3>2
  <2> QED BY <2>1, <2>2, <2>3 DEF PathShape
<1>11. PlainMemory' /\ NoDangling' /\ LeaksShow' /\ ExitIsLast'
  <2>1. errors = {}
    OBVIOUS
  <2> QED BY <1>6, <2>1 DEF Run, PlainMemory, NoDangling, LeaksShow, ExitIsLast, Without
<1>12. LoopEntries'
  <2>1. ASSUME Without({"store_field"}), NEW i \in Open', Repeated(i)', NEW v \in Vars,
               At(Before(i)', v) = "Unconsumed"
        PROVE  Held(v) \subseteq path'[i].entry
    <3>1. CASE i \in Open
      BY <1>4, <1>5, <2>1, <3>1, <1>3 DEF Run, LoopEntries
    <3>2. CASE i = n + 1
      <4>1. r = "now" /\ On /\ path'[i].entry = LiveCells
        BY <1>4, <1>5, <2>1, <3>2
      <4>2. At(scope, v) = "Unconsumed" /\ Agree(scope, visible)
        BY <1>5, <1>8, <2>1, <3>2, <4>1
      <4>3. Holdings[v] = Held(v) /\ Held(v) \subseteq Cells
        BY HeldCells DEF Fragment
      <4> QED BY <4>1, <4>2, <4>3 DEF Agree, Owns, LiveCells
    <3> QED BY <1>9, <3>1, <3>2
  <2>2. Without({"store_field"})' => Without({"store_field"})
    BY <1>6 DEF Without
  <2> QED BY <1>6, <2>1, <2>2 DEF LoopEntries
<1>13. ASSUME ~exited  PROVE Owners'
  <2>0. ASSUME NEW M, NEW D, Agree(M, D), On => M = scope
        PROVE  Agree(M, D)'
    <3>1. ASSUME NEW i \in Open', Repeated(i)'
          PROVE  Keeps(Before(i)', M, Holdings, heap, path'[i].entry)
      <4>1. CASE i \in Open
        BY <1>3, <1>4, <1>5, <2>0, <3>1, <4>1 DEF Agree
      <4>2. CASE i = n + 1
        <5>1. r = "now" /\ On /\ path'[i].entry = LiveCells /\ Before(i)' = scope /\ M = scope
          BY <1>4, <1>5, <2>0, <3>1, <4>2
        <5> QED BY <5>1 DEF Keeps, LiveCells
      <4> QED BY <1>9, <4>1, <4>2
    <3> QED BY <1>6, <2>0, <3>1, AgreeKept
  <2>1. ASSUME \A i \in Open' : Executed(i)'  PROVE Agree(scope, visible)'
    <3>1. On
      BY <1>3, <1>5, <1>7, <1>13, <2>1
    <3> QED BY <1>6, <1>8, <2>0, <3>1
  <2>2. ASSUME NEW i \in Open', ~Executed(i)', \A j \in Open' : j < i => Executed(j)'
        PROVE  IF path'[i].run = "passed"
               THEN \E k \in DOMAIN frames'[i].arms : Agree(frames[i].arms[k], outer[i])'
               ELSE Agree(Before(i), outer[i])'
    <3>1. CASE i \in Open
      <4>1. ~Executed(i) /\ \A j \in Open : j < i => Executed(j)
        BY <1>3, <1>5, <2>2, <3>1
      <4>2. ~On /\ Owners
        BY <1>6, <1>7, <1>13, <3>1, <4>1 DEF Run
      <4> QED BY <1>3, <1>4, <1>5, <2>0, <3>1, <4>1, <4>2 DEF Owners
    <3>2. CASE i = n + 1
      <4>1. On
        BY <1>3, <1>5, <1>7, <1>13, <2>2, <3>2
      <4> QED BY <1>1, <1>3, <1>4, <1>5, <1>6, <1>8, <2>0, <3>2, <4>1
    <3> QED BY <1>9, <3>1, <3>2
  <2> QED BY <2>1, <2>2 DEF Owners
<1> QED BY <1>6, <1>10, <1>11, <1>12, <1>13 DEF Run
-----------------------------------------------------------------------------
(* Arms and constructs end *)

\* What is on the stack of the execution for the construct concerned.
LEMMA TopOfPath ==
  ASSUME TypeOK, NEW n, n = Len(frames), n \in Open
  PROVE  /\ Last(path) = path[n] /\ Len(path) = n /\ n \in Nat /\ n \in DOMAIN path
         /\ Open = 1 .. n
         /\ path[n] \in [run : Runs, entry : SUBSET Cells]
         /\ \A i \in 1 .. n - 1 : Front(path)[i] = path[i]
<1>1. path \in Seq([run : Runs, entry : SUBSET Cells]) /\ Len(path) = n /\ frames # <<>>
  BY EmptySeq DEF TypeOK, OwnTypeOK, ProgramTypeOK, Open
<1>2. PICK m \in Nat : Len(frames) = m + 1
  BY <1>1, NonEmptySeq DEF TypeOK, CheckerTypeOK
<1>3. /\ \A i \in 1 .. m : Front(path)[i] = path[i]
      /\ Last(path) \in [run : Runs, entry : SUBSET Cells] /\ Last(path) = path[m + 1]
  BY <1>1, <1>2, FrontOfSeq, ZenonT(60)
<1>4. DOMAIN path = 1 .. m + 1 /\ Open = 1 .. m + 1
  BY <1>1, <1>2, LenProperties DEF TypeOK, CheckerTypeOK, Open
<1> QED BY <1>1, <1>2, <1>3, <1>4

LEMMA TurnedKeeps ==
  ASSUME Fragment, Walk, Run, errors = {}, NEW n, Turned(n),
         UNCHANGED <<env, typ, heap, content, exited>>
  PROVE  /\ PlainMemory' /\ ExitIsLast' /\ Frozen' = Declared \ outer[n]
         /\ Without(Losing) /\ "leak" \in faults =>
              \E v \in Frozen' : At(scope', v) = "Unconsumed"
         /\ outer[n] \subseteq visible /\ Declared \subseteq Vars /\ ~sealed
         /\ \A v \in outer[n] : At(Before(n), v) # "none"
         /\ \A v \in Vars : At(Before(n), v) \in States /\ At(scope, v) \in States
<1> USE DEF Turned
<1>1. /\ Declared' = Declared /\ Frozen' = Declared \ outer[n] /\ outer[n] \subseteq visible
      /\ n \in Open /\ SetBack(n) /\ TypeOK /\ Declared \subseteq Vars
  BY InFragment DEF Fragment, Walk, BlocksNest, Frozen
<1>2. PlainMemory' /\ ExitIsLast'
  BY <1>1 DEF Run, PlainMemory, ExitIsLast, Held, Without
<1>3. ~sealed
  BY <1>1 DEF Walk, SealedIsLast, Open
<1>4. \A v \in Frozen : v \in Frozen' /\ At(scope', v) = At(scope, v)
  BY <1>1, InnerNamesStay DEF Frozen
<1>5. Without(Losing) /\ "leak" \in faults =>
        \E v \in Frozen' : At(scope', v) = "Unconsumed"
  BY <1>3, <1>4 DEF Run, LeaksShow
<1>6. \A v \in outer[n] : At(Before(n), v) # "none"
  BY <1>1 DEF Walk, VisibleAreTracked
<1>7. \A v \in Vars : At(Before(n), v) \in States /\ At(scope, v) \in States
  BY <1>1, SnapshotTypes, AtType
<1> QED BY <1>1, <1>2, <1>3, <1>5, <1>6, <1>7

\* The maps of the last construct know what those of the others know.
LEMMA BeforeIsKnown ==
  ASSUME TypeOK, Walk, NEW n, n = Len(frames), n \in Open, NEW M \in Snapshots(n) \cup {scope}
  PROVE  \A i \in Open : \A v \in Vars : At(Before(i), v) # "none" => At(M, v) # "none"
<1>1. \A i \in Open : i <= n
  BY TopOfPath
<1>2. ASSUME NEW i \in Open  PROVE Later(Before(i), M)
  BY <1>1 DEF Walk, MapsProgress
<1> QED BY <1>2 DEF Later

\* The map that is set back describes what the one before the construct did.
LEMMA RestoredAgrees ==
  ASSUME Fragment, Walk, NEW n, n = Len(frames), n \in Open, Restored(n),
         Agree(Before(n), outer[n])
  PROVE  Agree(scope', outer[n])
<1>1. outer[n] \in SUBSET Vars /\ Before(n) \in Snapshots(n)
  BY InFragment DEF Walk, BlocksNest, Snapshots
<1>2. \A v \in Vars : At(Before(n), v) = "none" => v \notin outer[n]
  BY DEF Walk, VisibleAreTracked
<1>3. SameButUnused(Before(n), scope', outer[n])
  BY <1>2 DEF Restored, SameButUnused
<1>4. \A i \in Open : \A v \in Vars : At(Before(i), v) # "none" => At(Before(n), v) # "none"
  BY <1>1, BeforeIsKnown DEF Fragment
<1> QED BY <1>1, <1>3, <1>4, AgreeTransfer

\* The map owns less names when those of the arm go out of scope.
LEMMA FewerNames ==
  ASSUME Fragment, Walk, NEW n, n \in Open, Agree(scope, visible)
  PROVE  Agree(scope, outer[n])
<1>1. visible \in SUBSET Vars /\ outer[n] \in SUBSET visible
  BY InFragment DEF Walk, BlocksNest
<1>2. SameButUnused(scope, scope, outer[n])
  BY DEF SameButUnused
<1>3. \A i \in Open : \A v \in Vars : At(Before(i), v) # "none" => At(scope, v) # "none"
  BY MapsBefore
<1> QED BY <1>1, <1>2, <1>3, AgreeTransfer

LEMMA ArmRun ==
  ASSUME Fragment, Walk, Run, errors = {}, Arm
  PROVE  Run'
<1>1. PICK n \in Nat : ArmEnds(n)
  BY ArmTurns DEF Fragment
<1>2. /\ Turned(n) /\ Restored(n) /\ Open' = Open /\ outer' = outer /\ visible' = outer[n]
      /\ phase = "body" /\ phase' = "body" /\ frames[n].kind # "loop" /\ n \in Open
      /\ n = Len(frames) /\ dialect' = dialect
      /\ \A i \in Open : /\ frames'[i].kind = frames[i].kind /\ Before(i)' = Before(i)
                         /\ i # n => frames'[i] = frames[i]
  BY <1>1 DEF ArmEnds, Turned
<1>3. PICK more : RunNextArm(more)
  BY DEF Arm
<1>4. UNCHANGED <<env, typ, heap, content, exited, faults>> /\ \A v : Held(v)' = Held(v)
  BY <1>3 DEF RunNextArm, Held
<1>5. /\ Last(path) = path[n] /\ Len(path) = n /\ Open = 1 .. n /\ DOMAIN path = Open
      /\ path[n] \in [run : Runs, entry : SUBSET Cells] /\ n \in DOMAIN path
  BY <1>2, TopOfPath, StacksAlike DEF Fragment
<1>6. PICK r : /\ path' = [path EXCEPT ![n].run = r]
               /\ path[n].run = "now" => r = "passed"
               /\ path[n].run = "waiting" => r \in {"now", "waiting"}
               /\ path[n].run \in {"passed", "skip"} => r = path[n].run
  <2>1. PICK r \in CASE path[n].run = "now"     -> {"passed"}
                     [] path[n].run = "waiting" -> IF more THEN {"now", "waiting"}
                                                   ELSE {"now"}
                     [] OTHER                   -> {path[n].run} :
          path' = [path EXCEPT ![n].run = r]
    BY <1>3, <1>5 DEF RunNextArm
  <2>2. path[n].run = "now" => r = "passed"
    BY <2>1
  <2>3. path[n].run = "waiting" => r \in {"now", "waiting"}
    BY <2>1
  <2>4. path[n].run \in {"passed", "skip"} => r = path[n].run
    BY <2>1
  <2> QED BY <2>1, <2>2, <2>3, <2>4
<1>7. /\ path'[n].run = r /\ path[n].run \in {"now", "waiting", "passed", "skip"}
      /\ \A i \in Open : i # n => path'[i] = path[i] /\ (Executed(i)' <=> Executed(i))
      /\ (Executed(n)' <=> r = "now") /\ (Executed(n) <=> path[n].run = "now")
      /\ \A i \in Open : i < n \/ i = n
      /\ \A i \in Open : Repeated(i)' => Repeated(i) /\ path'[i].entry = path[i].entry
  <2>1. /\ path'[n].run = r /\ path[n].run \in {"now", "waiting", "passed", "skip"}
        /\ \A i \in Open : i # n => path'[i] = path[i] /\ (Executed(i)' <=> Executed(i))
        /\ (Executed(n)' <=> r = "now") /\ (Executed(n) <=> path[n].run = "now")
        /\ \A i \in Open : i < n \/ i = n
    BY <1>5, <1>6 DEF Executed, Runs
  <2>2. \A i \in Open : Repeated(i)' => i # n /\ frames[i].kind = "loop" /\ Executed(i)'
    BY <1>2 DEF Repeated
  <2>3. \A i \in Open : Repeated(i)' => Repeated(i) /\ path'[i].entry = path[i].entry
    BY <2>1, <2>2 DEF Repeated
  <2> QED BY <2>1, <2>3
<1>8. PathShape'
  <2>1. \A i \in Open' : frames'[i].kind = "loop" => path'[i].run \in {"now", "skip"}
    BY <1>2, <1>7 DEF Run, PathShape
  <2>2. ASSUME NEW i \in Open', NEW j \in Open', i < j, ~Executed(i)'
        PROVE  path'[j].run = "skip"
    <3>1. i \in Open /\ j \in Open /\ i # n
      BY <1>2, <1>5, <1>7, <2>2
    <3>2. path[j].run = "skip"
      BY <1>7, <2>2, <3>1 DEF Run, PathShape
    <3> QED BY <1>6, <1>7, <3>1, <3>2
  <2>3. ASSUME NEW i \in Open', ~exited', frames'[i].kind # "loop", path'[i].run = "skip"
        PROVE  \E j \in Open' : j < i /\ ~Executed(j)'
    <3>1. i \in Open /\ frames[i].kind # "loop" /\ path[i].run = "skip"
      BY <1>2, <1>6, <1>7, <2>3
    <3>2. PICK j \in Open : j < i /\ ~Executed(j)
      BY <1>4, <2>3, <3>1 DEF Run, PathShape
    <3>3. j # n
      BY <1>5, <3>1, <3>2
    <3> QED BY <1>2, <1>7, <3>2, <3>3
  <2> QED BY <2>1, <2>2, <2>3 DEF PathShape
<1>9. PlainMemory' /\ ExitIsLast' /\ LeaksShow' /\ NoDangling'
  <2>1. /\ PlainMemory' /\ ExitIsLast' /\ Frozen' \subseteq Vars
        /\ Without(Losing) /\ "leak" \in faults =>
              \E v \in Frozen' : At(scope', v) = "Unconsumed"
    BY <1>2, <1>4, TurnedKeeps
  <2>2. errors = {}
    OBVIOUS
  <2>3. Without(Losing)' => Without(Losing)
    BY <1>2 DEF Without
  <2> QED BY <1>2, <1>4, <2>1, <2>2, <2>3 DEF LeaksShow, NoDangling, Run
<1>10. LoopEntries'
  BY <1>2, <1>4, <1>7 DEF Run, LoopEntries, Without
<1>11. ASSUME NEW M, NEW D, Agree(M, D)  PROVE Agree(M, D)'
  <2>1. \A i \in Open' : Repeated(i)' => Keeps(Before(i)', M, Holdings, heap, path'[i].entry)
    BY <1>2, <1>7, <1>11 DEF Agree
  <2> QED BY <1>2, <1>4, <1>11, <2>1, AgreeKept
<1>12. ASSUME ~exited  PROVE Owners'
  <2>0. Owners
    BY <1>2, <1>12 DEF Run
  <2>1. ASSUME \A i \in Open' : Executed(i)'  PROVE Agree(scope, visible)'
    <3>1. path[n].run = "waiting" /\ \A i \in Open : i < n => Executed(i)
      BY <1>2, <1>5, <1>6, <1>7, <2>1
    <3>2. Agree(Before(n), outer[n])
      BY <1>2, <1>7, <2>0, <3>1 DEF Owners
    <3>3. Agree(scope', outer[n])
      BY <1>2, <3>2, RestoredAgrees
    <3> QED BY <1>2, <1>11, <3>3
  <2>2. ASSUME NEW i \in Open', ~Executed(i)', \A j \in Open' : j < i => Executed(j)'
        PROVE  IF path'[i].run = "passed"
               THEN \E k \in DOMAIN frames'[i].arms : Agree(frames[i].arms[k], outer[i])'
               ELSE Agree(Before(i), outer[i])'
    <3>1. CASE i # n
      <4>1. i \in Open /\ ~Executed(i) /\ \A j \in Open : j < i => Executed(j)
        BY <1>2, <1>5, <1>7, <2>2, <3>1
      <4> QED BY <1>2, <1>7, <1>11, <2>0, <3>1, <4>1 DEF Owners
    <3>2. CASE i = n
      <4>1. r # "now" /\ \A j \in Open : j < n => Executed(j)
        BY <1>2, <1>5, <1>7, <2>2, <3>2
      <4>2. CASE path[n].run = "now"
        <5>1. Agree(scope, visible)
          BY <1>7, <2>0, <4>1, <4>2 DEF Owners
        <5>2. Agree(scope, outer[n])
          BY <1>2, <5>1, FewerNames
        <5>3. PICK k \in DOMAIN frames'[n].arms : frames'[n].arms[k] = scope
          BY <1>1 DEF ArmEnds
        <5>4. r = "passed"
          BY <1>6, <4>2
        <5> QED BY <1>2, <1>7, <1>11, <3>2, <5>2, <5>3, <5>4
      <4>3. CASE path[n].run = "waiting"
        <5>1. Agree(Before(n), outer[n])
          BY <1>2, <1>7, <2>0, <4>1, <4>3 DEF Owners
        <5> QED BY <1>2, <1>6, <1>7, <1>11, <3>2, <4>1, <4>3, <5>1
      <4>4. CASE path[n].run = "passed"
        <5>1. PICK k \in DOMAIN frames[n].arms : Agree(frames[n].arms[k], outer[n])
          BY <1>2, <1>7, <2>0, <4>1, <4>4 DEF Owners
        <5>2. k \in DOMAIN frames'[n].arms /\ frames'[n].arms[k] = frames[n].arms[k]
          BY <1>1 DEF ArmEnds
        <5> QED BY <1>2, <1>6, <1>7, <1>11, <3>2, <4>4, <5>1, <5>2
      <4>5. path[n].run # "skip"
        BY <1>2, <1>12, <4>1 DEF Run, PathShape
      <4> QED BY <1>7, <4>2, <4>3, <4>4, <4>5
    <3> QED BY <3>1, <3>2
  <2> QED BY <2>1, <2>2 DEF Owners
<1> QED BY <1>2, <1>4, <1>8, <1>9, <1>10, <1>12 DEF Run
\* With a join that reports nothing, the map after it agrees with the one of
\* every arm about all names that are still in scope.
LEMMA JoinAgrees ==
  ASSUME Fragment, Walk, NEW n, Turned(n), Joined(n), errors' = {},
         NEW l \in DOMAIN Arms(n)
  PROVE  SameButUnused(Arms(n)[l], scope', outer[n])
<1> SUFFICES ASSUME NEW v \in Vars
             PROVE  \/ At(scope', v) = At(Arms(n)[l], v)
                    \/ At(Arms(n)[l], v) = "none" /\ v \notin outer[n]
  BY DEF SameButUnused
<1> DEFINE A == Arms(n)[l]
<1>1. /\ n \in Open /\ TypeOK /\ A \in Snapshots(n) \cup {scope}
      /\ \A k \in DOMAIN Arms(n) : At(Arms(n)[k], v) \in States
      /\ At(Before(n), v) \in States /\ At(scope, v) \in States
  <2>1. n \in Open /\ TypeOK
    BY DEF Turned, Fragment
  <2>2. \A k \in DOMAIN Arms(n) : Arms(n)[k] \in Snapshots(n) \cup {scope}
    BY <2>1, ArmsAre
  <2>3. Before(n) \in Scope /\ scope \in Scope /\ \A M \in Snapshots(n) : M \in Scope
    BY <2>1, SnapshotTypes
  <2> QED BY <2>1, <2>2, <2>3, AtType
<1>2. /\ At(Before(n), v) # "none" => At(A, v) # "none"
      /\ At(Before(n), v) = "Consumed" => At(A, v) = "Consumed"
  <2>1. n <= n /\ Later(Before(n), scope) /\ \A M \in Snapshots(n) : Later(Before(n), M)
    BY <1>1, TopOfPath DEF Walk, MapsProgress, Turned
  <2> QED BY <1>1, <2>1 DEF Later
<1>3. CASE At(Before(n), v) = "none"
  <2>1. v \notin outer[n]
    BY <1>1, <1>3 DEF Walk, VisibleAreTracked
  <2>2. At(scope', v) = At(scope, v)
    BY <1>3 DEF Joined
  <2>3. ASSUME A \in Snapshots(n)  PROVE At(A, v) \in {"none", At(scope, v)}
    <3>1. CASE v \in visible
      BY <1>1, <2>1, <2>3, <3>1 DEF Walk, ArmNamesAreNew
    <3>2. CASE v \in Declared \ visible
      BY <1>1, <2>3, <3>2 DEF Walk, FrozenNames, Frozen
    <3>3. CASE v \notin Declared
      BY <1>1, <2>3, <3>3 DEF Walk, TrackedAreDeclared
    <3> QED BY <3>1, <3>2, <3>3
  <2> QED BY <1>1, <2>1, <2>2, <2>3
<1>4. CASE At(Before(n), v) = "Consumed"
  BY <1>2, <1>4 DEF Joined
<1>5. CASE At(Before(n), v) = "Unconsumed"
  <2>1. CASE \E k \in DOMAIN Arms(n) : At(Arms(n)[k], v) = "Consumed"
    <3>1. At(scope', v) = "Consumed" /\ ~Mismatch(Before(n), Arms(n))
      BY <1>5, <2>1 DEF Joined
    <3>2. At(A, v) # "Unconsumed"
      BY <1>1, <1>5, <2>1, <3>1, ArmsAgree
    <3> QED BY <1>1, <1>2, <1>5, <3>1, <3>2
  <2>2. CASE ~ \E k \in DOMAIN Arms(n) : At(Arms(n)[k], v) = "Consumed"
    <3>1. At(scope', v) = "Unconsumed"
      BY <1>5, <2>2 DEF Joined
    <3> QED BY <1>1, <1>2, <1>5, <2>2, <3>1
  <2> QED BY <2>1, <2>2
<1> QED BY <1>1, <1>3, <1>4, <1>5

\* What the end of a join and of a loop have in common.
LEMMA ClosedRun ==
  ASSUME Fragment, Walk, Run, errors = {}, NEW n, Closed(n), path' = Front(path),
         UNCHANGED <<env, typ, heap, content, exited>>,
         faults' \cap {"double_free", "use_after_free", "wild"} = {},
         "leak" \in faults' /\ Without(Losing) =>
            "leak" \in faults \/ \E v \in Frozen' : At(scope', v) = "Unconsumed",
         ~exited /\ (\A i \in Open : i < n => Executed(i)) => Agree(scope', outer[n])
  PROVE  Run'
<1>1. /\ Turned(n) /\ n = Len(frames) /\ n \in Open /\ Open = 1 .. n /\ Open' = 1 .. n - 1
      /\ n - 1 \in Nat /\ visible' = outer[n] /\ dialect' = dialect
      /\ \A i \in Open' : frames'[i] = frames[i] /\ outer'[i] = outer[i] /\ Before(i)' = Before(i)
      /\ phase = "body" /\ phase' = "body"
  BY DEF Closed, Turned
<1>2. /\ \A i \in Open' : /\ path'[i] = path[i] /\ (Executed(i)' <=> Executed(i))
                         /\ (Repeated(i)' <=> Repeated(i))
      /\ \A v : Held(v)' = Held(v)
  BY <1>1, TopOfPath DEF Fragment, Executed, Repeated, Held
<1>3. Open' \subseteq Open /\ \A i \in Open : i \in Open' <=> i < n
  BY <1>1
<1>4. PathShape'
  <2>0. PathShape
    BY DEF Run
  <2>1. ASSUME NEW i \in Open', frames'[i].kind = "loop"  PROVE path'[i].run \in {"now", "skip"}
    BY <1>1, <1>2, <1>3, <2>0, <2>1 DEF PathShape
  <2>2. ASSUME NEW i \in Open', NEW j \in Open', i < j, ~Executed(i)'
        PROVE  path'[j].run = "skip"
    <3>1. i \in Open /\ j \in Open /\ ~Executed(i) /\ path'[j] = path[j]
      BY <1>2, <1>3, <2>2
    <3> QED BY <2>0, <2>2, <3>1 DEF PathShape
  <2>3. ASSUME NEW i \in Open', ~exited', frames'[i].kind # "loop", path'[i].run = "skip"
        PROVE  \E j \in Open' : j < i /\ ~Executed(j)'
    <3>1. PICK j \in Open : j < i /\ ~Executed(j)
      BY <1>1, <1>2, <1>3, <2>3 DEF Run, PathShape
    <3>2. j \in Open'
      BY <1>1, <3>1
    <3> QED BY <1>2, <3>1, <3>2
  <2> QED BY <2>1, <2>2, <2>3 DEF PathShape
<1>5. PlainMemory' /\ ExitIsLast' /\ LeaksShow' /\ NoDangling'
  <2>1. /\ PlainMemory' /\ ExitIsLast' /\ Frozen' \subseteq Vars
        /\ Without(Losing) /\ "leak" \in faults =>
              \E v \in Frozen' : At(scope', v) = "Unconsumed"
    BY <1>1, TurnedKeeps
  <2>2. Without(Losing)' => Without(Losing)
    BY <1>1 DEF Without
  <2> QED BY <1>1, <2>1, <2>2 DEF LeaksShow, NoDangling
<1>6. LoopEntries'
  BY <1>1, <1>2, <1>3 DEF Run, LoopEntries, Without
<1>7. ASSUME NEW M, NEW D, Agree(M, D)  PROVE Agree(M, D)'
  <2>1. \A i \in Open' : Repeated(i)' => Keeps(Before(i)', M, Holdings, heap, path'[i].entry)
    BY <1>1, <1>2, <1>3, <1>7 DEF Agree
  <2> QED BY <1>1, <1>7, <2>1, AgreeKept
<1>8. ASSUME ~exited  PROVE Owners'
  <2>0. Owners
    BY <1>1, <1>8 DEF Run
  <2>1. ASSUME \A i \in Open' : Executed(i)'  PROVE Agree(scope, visible)'
    BY <1>1, <1>2, <1>3, <1>8, <1>7, <2>1
  <2>2. ASSUME NEW i \in Open', ~Executed(i)', \A j \in Open' : j < i => Executed(j)'
        PROVE  IF path'[i].run = "passed"
               THEN \E k \in DOMAIN frames'[i].arms : Agree(frames[i].arms[k], outer[i])'
               ELSE Agree(Before(i), outer[i])'
    <3>1. i \in Open /\ ~Executed(i) /\ \A j \in Open : j < i => j \in Open' /\ Executed(j)
      <4>1. \A j \in Open : j < i => j \in Open'
        BY <1>1, <2>2
      <4> QED BY <1>2, <1>3, <2>2, <4>1
    <3> QED BY <1>1, <1>2, <1>7, <2>0, <2>2, <3>1 DEF Owners
  <2> QED BY <2>1, <2>2 DEF Owners
<1> QED BY <1>1, <1>4, <1>5, <1>6, <1>8 DEF Run

LEMMA JoinRun ==
  ASSUME Fragment, Walk, Run, errors = {}, errors' = {}, NEW n, Closed(n), Join,
         frames[n].kind # "loop", Joined(n)
  PROVE  Run'
<1>1. /\ Turned(n) /\ n = Len(frames) /\ n \in Open /\ phase = "body" /\ Open = 1 .. n
  BY DEF Closed, Turned
<1>2. /\ path' = Front(path) /\ path[n].run # "waiting"
      /\ UNCHANGED <<env, typ, heap, content, exited, faults>>
  BY <1>1, TopOfPath DEF Fragment, Join, RunEndBranch
<1>3. path[n].run \in {"now", "waiting", "passed", "skip"}
  BY <1>1, TopOfPath DEF Fragment, Runs
<1>4. outer[n] \in SUBSET Vars
  BY <1>1, InFragment DEF Walk, BlocksNest
<1>5. ASSUME ~exited, \A i \in Open : i < n => Executed(i)
      PROVE  Agree(scope', outer[n])
  <2>1. Owners
    BY <1>1, <1>5 DEF Run
  <2>2. path[n].run # "skip"
    BY <1>1, <1>5 DEF Run, PathShape
  <2>3. \E l \in DOMAIN Arms(n) : Agree(Arms(n)[l], outer[n])
    <3>1. CASE path[n].run = "now"
      <4>1. \A i \in Open : Executed(i)
        <5>1. \A i \in Open : i < n \/ i = n
          BY <1>1, TopOfPath DEF Fragment
        <5> QED BY <1>5, <3>1, <5>1 DEF Executed
      <4>2. Agree(scope, outer[n])
        BY <1>1, <2>1, <4>1, FewerNames DEF Owners
      <4>3. PICK l \in DOMAIN Arms(n) : Arms(n)[l] = scope
        BY <1>1, ArmsAre DEF Fragment
      <4> QED BY <4>2, <4>3
    <3>2. CASE path[n].run = "passed"
      <4>1. PICK k \in DOMAIN frames[n].arms : Agree(frames[n].arms[k], outer[n])
        BY <1>1, <1>5, <2>1, <3>2 DEF Owners, Executed
      <4>2. PICK l \in DOMAIN Arms(n) : Arms(n)[l] = frames[n].arms[k]
        BY <1>1, ArmsAre DEF Fragment
      <4> QED BY <4>1, <4>2
    <3> QED BY <1>2, <1>3, <2>2, <3>1, <3>2
  <2>4. PICK l \in DOMAIN Arms(n) : Agree(Arms(n)[l], outer[n])
    BY <2>3
  <2>5. SameButUnused(Arms(n)[l], scope', outer[n])
    BY <1>1, JoinAgrees
  <2>6. \A i \in Open : \A v \in Vars : At(Before(i), v) # "none" => At(Arms(n)[l], v) # "none"
    <3>1. Arms(n)[l] \in Snapshots(n) \cup {scope}
      BY <1>1, ArmsAre DEF Fragment
    <3> QED BY <1>1, <3>1, BeforeIsKnown DEF Fragment
  <2> QED BY <1>4, <2>4, <2>5, <2>6, AgreeTransfer
<1>6. faults' \cap {"double_free", "use_after_free", "wild"} = {}
  BY <1>2 DEF Run, NoDangling
<1> QED BY <1>2, <1>5, <1>6, ClosedRun

LEMMA LoopEndRun ==
  ASSUME Fragment, Walk, Run, errors = {}, errors' = {}, NEW n, Closed(n), LoopEnd,
         frames[n].kind = "loop", LoopTurned(n)
  PROVE  Run'
<1>1. /\ Turned(n) /\ n = Len(frames) /\ n \in Open /\ phase = "body" /\ Restored(n)
      /\ \A v \in Vars : ~(At(Before(n), v) = "Unconsumed" /\ At(scope, v) = "Consumed")
  BY DEF Closed, Turned, LoopTurned
<1>2. /\ path' = Front(path) /\ UNCHANGED <<env, typ, heap, content, exited>>
      /\ faults' = faults \cup
           IF ~On THEN {}
           ELSE {f \in {"double_free", "leak"} :
                   IF f = "leak" THEN LiveCells \ path[n].entry # {}
                                 ELSE path[n].entry \ LiveCells # {}}
  BY <1>1, TopOfPath DEF Fragment, LoopEnd, RunEndLoop
<1>3. path[n].run \in {"now", "skip"} /\ path[n].entry \subseteq Cells /\ DOMAIN path = Open
  BY <1>1, TopOfPath, StacksAlike DEF Fragment, Run, PathShape
<1>4. /\ Frozen' = Declared \ outer[n] /\ outer[n] \subseteq visible /\ Declared \subseteq Vars
      /\ \A v \in outer[n] : At(Before(n), v) # "none"
      /\ \A v \in Vars : At(Before(n), v) \in States /\ At(scope, v) \in States
  BY <1>1, <1>2, TurnedKeeps
\* The body took nothing from outside: the map is as it was at its end.
<1>5. \A v \in Vars : At(scope', v) = At(scope, v)
  <2>1. \A v \in Vars : /\ At(Before(n), v) # "none" => At(scope, v) # "none"
                        /\ At(Before(n), v) = "Consumed" => At(scope, v) = "Consumed"
    BY <1>1 DEF Walk, MapsProgress, Later
  <2> QED BY <1>1, <1>4, <2>1 DEF Restored
<1>6. ASSUME On
      PROVE  /\ path[n].entry \subseteq LiveCells
             /\ Without(Losing) /\ LiveCells \ path[n].entry # {} =>
                  \E v \in Frozen' : At(scope', v) = "Unconsumed"
  <2>1. Agree(scope, visible) /\ Repeated(n)
    BY <1>1, <1>3, <1>6, OnAgrees DEF On, Executed, Repeated, Fragment
  <2>2. \A v \in Vars : At(Before(n), v) = "Unconsumed" => At(scope, v) = "Unconsumed"
    BY <1>5, <1>1 DEF Restored
  <2>3. \A c \in path[n].entry : heap[c] = "live"
    BY <1>1, <2>1, <2>2 DEF Agree, Keeps
  <2>4. ASSUME Without(Losing), NEW c \in LiveCells, c \notin path[n].entry
        PROVE  \E v \in Frozen' : At(scope', v) = "Unconsumed"
    <3>1. Without({"store_field"}) /\ c \in Cells /\ heap[c] = "live"
      BY <2>4 DEF Without, Losing, LiveCells
    <3>2. PICK v \in Vars : At(scope, v) = "Unconsumed" /\ c \in Held(v)
      BY <2>1, <3>1 DEF Agree, Knows, Holdings
    <3>3. At(Before(n), v) # "Unconsumed"
      BY <1>1, <2>1, <2>4, <3>1, <3>2 DEF Run, LoopEntries
    <3>4. v \notin outer[n]
      BY <1>1, <1>4, <1>5, <3>2, <3>3 DEF Restored
    <3>5. v \in Declared
      BY <3>2 DEF Walk, TrackedAreDeclared
    <3> QED BY <1>4, <1>5, <3>2, <3>4, <3>5
  <2> QED BY <1>3, <2>3, <2>4 DEF LiveCells
<1>7. ASSUME ~exited, \A i \in Open : i < n => Executed(i)
      PROVE  Agree(scope', outer[n])
  <2>1. Owners
    BY <1>1, <1>7 DEF Run
  <2>2. CASE path[n].run = "now"
    <3>1. \A i \in Open : Executed(i)
      <4>1. \A i \in Open : i < n \/ i = n
        BY <1>1, TopOfPath DEF Fragment
      <4> QED BY <1>7, <2>2, <4>1 DEF Executed
    <3>2. Agree(scope, outer[n])
      BY <1>1, <2>1, <3>1, FewerNames DEF Owners
    <3>3. outer[n] \in SUBSET Vars
      BY <1>4, InFragment
    <3>4. SameButUnused(scope, scope', outer[n])
      BY <1>5 DEF SameButUnused
    <3>5. \A i \in Open : \A v \in Vars : At(Before(i), v) # "none" => At(scope, v) # "none"
      BY MapsBefore
    <3> QED BY <3>2, <3>3, <3>4, <3>5, AgreeTransfer
  <2>3. CASE path[n].run = "skip"
    <3>1. Agree(Before(n), outer[n])
      BY <1>1, <1>7, <2>1, <2>3 DEF Owners, Executed
    <3> QED BY <1>1, <3>1, RestoredAgrees
  <2> QED BY <1>3, <2>2, <2>3
<1>8. faults' \cap {"double_free", "use_after_free", "wild"} = {}
  <2>1. On => path[n].entry \ LiveCells = {}
    BY <1>6
  <2> QED BY <1>2, <2>1 DEF Run, NoDangling
<1>9. "leak" \in faults' /\ Without(Losing) =>
        "leak" \in faults \/ \E v \in Frozen' : At(scope', v) = "Unconsumed"
  BY <1>2, <1>6
<1> QED BY <1>2, <1>7, <1>8, <1>9, ClosedRun

-----------------------------------------------------------------------------
(* The function begins and ends *)

\* At the end every cell has been handed over: an owner would be reported.
LEMMA EndFunctionRun ==
  ASSUME Fragment, Walk, Run, errors = {}, errors' = {}, EndFunction
  PROVE  Run'
<1>1. /\ frames = <<>> /\ frames' = <<>> /\ phase = "body" /\ phase' = "done"
      /\ UNCHANGED <<env, typ, heap, content, path, dialect>>
      /\ faults' = faults \cup (IF exited THEN {} ELSE LeakIn(heap))
      /\ ~ \E v \in Vars : Forgotten(scope[v])
  BY DEF EndFunction, PopScopeAndCheck, InBody, RunFallOff, NoDecl, programVars, Report
<1>2. /\ Open = {} /\ Open' = {} /\ Declared' = Declared /\ \A v : Held(v)' = Held(v)
      /\ \A ops : Without(ops)' = Without(ops)
  BY <1>1 DEF Open, Declared, Held, Without
\* The parts of an unconsumed variable still are as they were registered.
<1>3. \A v \in Vars : At(scope, v) # "Unconsumed"
  <2> SUFFICES ASSUME NEW v \in Vars, At(scope, v) = "Unconsumed"  PROVE Forgotten(scope[v])
    BY <1>1
  <2>1. typ[v] \in dialect.types
    BY DEF Walk, TrackedAreDeclared, DeclaredAreWhole
  <2>2. \A f \in Fields : scope[v][f] = Inner[typ[v]][f]
    BY DEF Walk, PartsStay, LikeRegistered
  <2>3. ASSUME HasChildren(scope[v])  PROVE ~ChildrenConsumed(scope[v])
    <3>1. /\ Layout[typ[v]] # {} /\ Layout[typ[v]] \subseteq Slots
          /\ \A s \in Layout[typ[v]] : Inner[typ[v]][s] = "Unconsumed"
          /\ Root \in Layout[typ[v]] => \A f \in Fields : Inner[typ[v]][f] = "none"
      BY <2>1, FragmentTypes
    <3>2. PICK f \in Fields : f \in Layout[typ[v]]
      BY <2>2, <2>3, <3>1 DEF HasChildren, Slots
    <3> QED BY <2>2, <3>1, <3>2 DEF ChildrenConsumed
  <2> QED BY <2>3 DEF Forgotten, At
<1>4. ~exited /\ Without(Losing) => LeakIn(heap) = {}
  <2>1. ~exited => Agree(scope, visible)
    BY <1>1, <1>2 DEF Run, Owners
  <2>2. Without(Losing) => Without({"store_field"})
    BY DEF Without, Losing
  <2> QED BY <1>3, <2>1, <2>2 DEF Agree, Knows, LeakIn
<1>5. Without(Losing) => "leak" \notin faults
  BY <1>1, <1>3 DEF Run, LeaksShow
<1>6. PathShape' /\ LoopEntries' /\ PlainMemory' /\ ExitIsLast'
  BY <1>1, <1>2 DEF PathShape, LoopEntries, Run, PlainMemory, ExitIsLast
<1>7. NoDangling'
  BY <1>1 DEF Run, NoDangling, LeakIn
<1>8. Without(Losing)' => "leak" \notin faults'
  BY <1>1, <1>2, <1>4, <1>5
<1> QED BY <1>1, <1>6, <1>7, <1>8 DEF Run

\* Only the parameter, if there is one, owns something.
LEMMA BeginRun ==
  ASSUME Fragment, Walk, NEW params, NEW val, BeginFunction(params, val),
         \/ DOMAIN params = {} /\ CellsIn(val) = {}
         \/ \E v \in Vars, t \in LinearTypes :
              DOMAIN params = {v} /\ params[v] = t /\ val \in FreshValues(t)
  PROVE  Run'
<1>1. Init
  BY DEF Walk, NothingBefore, BeginFunction, CheckFunc
<1>2. /\ frames = <<>> /\ exited = FALSE /\ faults = {} /\ heap = [c \in Cells |-> "unused"]
      /\ content = [c \in Cells |-> Nil]
      /\ \A v \in Vars : env[v] = NoValue /\ scope[v] = Untracked
  BY <1>1 DEF Init, CheckerInit, OwnInit
<1>3. /\ frames' = <<>> /\ Open' = {} /\ phase' = "body" /\ exited' = FALSE /\ faults' = {}
      /\ content' = [c \in Cells |-> Nil] /\ heap' = HeapWith(heap, CellsIn(val))
      /\ visible' = DOMAIN params
      /\ \A v \in Vars :
           /\ env'[v] = IF v \in DOMAIN params THEN val ELSE NoValue
           /\ scope'[v] = IF v \in DOMAIN params THEN Inner[params[v]] ELSE Untracked
           /\ typ'[v] = IF v \in DOMAIN params THEN params[v] ELSE NoType
  BY <1>2 DEF BeginFunction, CheckFunc, Open
<1>4. /\ \A v \in Vars : Held(v)' = IF v \in DOMAIN params THEN CellsIn(val) ELSE {}
      /\ \A v \in Vars : Holdings'[v] = Held(v)'
      /\ \A c \in Cells : heap'[c] = IF c \in CellsIn(val) THEN "live" ELSE "unused"
  <2>1. CellsIn(NoValue) = {}
    BY DEF CellsIn, NoValue
  <2> QED BY <1>2, <1>3, <2>1 DEF Held, Holdings, HeapWith
<1>5. ASSUME Agree(scope, visible)', PlainMemory'  PROVE Run'
  BY <1>3, <1>5 DEF Run, NoDangling, PathShape, LoopEntries, ExitIsLast, Owners, LeaksShow
<1>6. CASE DOMAIN params = {} /\ CellsIn(val) = {}
  <2>1. /\ \A c \in Cells : heap'[c] = "unused"
        /\ \A v \in Vars : Held(v)' = {} /\ Holdings'[v] = {} /\ At(scope', v) = "none"
    BY <1>3, <1>4, <1>6 DEF Untracked, At
  <2>2. Owns(scope', visible', Holdings', heap') /\ Knows(scope', Holdings', heap')
    BY <1>3, <1>6, <2>1 DEF Owns, Knows
  <2>3. Shaped(scope)'
    BY <2>1 DEF Shaped
  <2>4. Agree(scope, visible)'
    BY <1>3, <2>2, <2>3 DEF Agree
  <2>5. PlainMemory'
    BY <1>3, <2>1 DEF PlainMemory
  <2> QED BY <1>5, <2>4, <2>5
<1>7. ASSUME NEW v \in Vars, NEW t \in LinearTypes,
             DOMAIN params = {v}, params[v] = t, val \in FreshValues(t)
      PROVE  Run'
  <2>1. /\ t \in dialect.types /\ t # NoType /\ Inner[t][Root] = "Unconsumed"
        /\ Layout[t] # {} /\ Layout[t] \subseteq Slots
    BY FragmentTypes DEF LinearTypes
  <2>2. WholeValue(t, val) /\ CellsIn(val) \subseteq Cells
    BY <1>7 DEF FreshValues, WholeValue, CellsIn
  <2>3. CellsIn(val) # {}
    <3>1. PICK s \in Layout[t] : s \in Slots /\ val[s] # Nil
      BY <2>1, <2>2 DEF WholeValue
    <3> QED BY <3>1 DEF CellsIn
  <2>4. /\ \A w \in Vars : At(scope', w) = IF w = v THEN "Unconsumed" ELSE "none"
        /\ \A w \in Vars : Holdings'[w] = IF w = v THEN CellsIn(val) ELSE {}
        /\ visible' = {v} /\ typ'[v] = t /\ env'[v] = val
    <3>1. \A w \in Vars : w \in DOMAIN params <=> w = v
      BY <1>7
    <3>2. \A w \in Vars : At(scope', w) = IF w = v THEN "Unconsumed" ELSE "none"
      <4>1. At(scope', v) = "Unconsumed"
        BY <1>3, <1>7, <2>1, <3>1 DEF At
      <4>2. \A w \in Vars : w # v => At(scope', w) = "none"
        BY <1>3, <3>1 DEF At, Untracked, Slots
      <4> QED BY <4>1, <4>2
    <3> QED BY <1>3, <1>4, <1>7, <3>1, <3>2
  <2>5. Owns(scope', visible', Holdings', heap')
    <3>1. \A w \in visible' : At(scope', w) = "Unconsumed" => Holdings'[w] # {}
      BY <2>3, <2>4
    <3>2. \A w \in Vars : /\ At(scope', w) = "Unconsumed" => \A c \in Holdings'[w] : heap'[c] = "live"
                          /\ At(scope', w) = "none" => Holdings'[w] = {}
      BY <1>4, <2>2, <2>4
    <3>3. \A w, x \in Vars : At(scope', w) = "Unconsumed" /\ At(scope', x) = "Unconsumed" => w = x
      BY <2>4
    <3> QED BY <3>1, <3>2, <3>3 DEF Owns
  <2>6. Knows(scope', Holdings', heap')
    BY <1>4, <2>4 DEF Knows
  <2>7. Shaped(scope)'
    <3>1. WholeValue(typ'[v], env'[v])
      BY <2>2, <2>4
    <3> QED BY <2>4, <3>1 DEF Shaped, WholeValue
  <2>8. Agree(scope, visible)'
    BY <1>3, <2>5, <2>6, <2>7 DEF Agree
  <2>9. v \in Declared'
    BY <2>1, <2>4 DEF Declared
  <2>10. PlainMemory'
    BY <1>3, <1>4, <1>7, <2>2, <2>9 DEF PlainMemory
  <2> QED BY <1>5, <2>8, <2>10
<1> QED BY <1>6, <1>7

LEMMA InitRun == Init => Run
<1> SUFFICES ASSUME Init  PROVE Run
  OBVIOUS
<1>1. \A v \in Vars : Held(v) = {}
  BY DEF Init, OwnInit, Held, CellsIn, NoValue
<1> QED
  BY <1>1 DEF Init, CheckerInit, OwnInit, Open, Run, NoDangling, PathShape, PlainMemory, LoopEntries,
              ExitIsLast

LEMMA StaysRun ==
  ASSUME Run, errors = {}, UNCHANGED vars
  PROVE  Run'
<1>1. /\ UNCHANGED <<scope, frames, errors, phase, env, typ, heap, content, path, exited, faults,
                     dialect, visible, outer, sealed>>
  BY DEF vars, checkerVars, ownVars, programVars
<1>2. /\ Open' = Open /\ Declared' = Declared /\ Frozen' = Frozen
      /\ \A i : Before(i)' = Before(i) /\ Executed(i)' = Executed(i) /\ Repeated(i)' = Repeated(i)
      /\ \A v : Held(v)' = Held(v)
      /\ \A ops : Without(ops)' = Without(ops)
  BY <1>1 DEF Open, Declared, Frozen, Before, Executed, Repeated, Held, Without
<1>3. PathShape' /\ PlainMemory' /\ LoopEntries' /\ ExitIsLast' /\ NoDangling'
  BY <1>1, <1>2 DEF Run, PathShape, PlainMemory, LoopEntries, ExitIsLast, NoDangling
<1>4. \A M, D : Agree(M, D) => Agree(M, D)'
  BY <1>1, <1>2, AgreeKept DEF Agree
<1>5. ~exited /\ phase = "body" => Owners'
  BY <1>1, <1>2, <1>4 DEF Run, Owners
<1>6. LeaksShow <=> LeaksShow'
  BY <1>1, <1>2 DEF LeaksShow
<1> QED BY <1>1, <1>2, <1>3, <1>5, <1>6 DEF Run

-----------------------------------------------------------------------------
(* Every step *)

LEMMA ErrorsStay == [Next]_vars => errors \subseteq errors'
<1> USE DEF Walked
<1>1. CASE UNCHANGED vars
  BY <1>1 DEF vars, checkerVars
<1>2. CASE \E params, val : BeginFunction(params, val)
  BY <1>2 DEF BeginFunction, CheckFunc
<1>3. CASE LetNext \/ DestructureNext
  BY <1>3 DEF LetNext, LetFresh, LetMove, LetValue, LetField, LetDeref, LetPack,
              DestructureNext, LetDestructure, CheckVarDef, CheckVarDefDeref, CheckDestructure
<1>4. CASE StatementNext
  BY <1>4 DEF StatementNext, Call, Discard, Free, FreeInner, AddrOf, Other, Use, StoreDeref,
              StoreField, EarlyReturn, Return, CheckCallStmt, CheckFree, CheckAddrOf, CheckOther,
              CheckUse, CheckStoreDeref, CheckStoreField, CheckReturn
<1>5. CASE If \/ Case \/ Loop \/ Arm \/ Join \/ LoopEnd
  BY <1>5 DEF If, Case, Loop, Arm, Join, LoopEnd, BeginBranch, BeginLoop, NextArm, EndBranch,
              EndLoop
<1>6. CASE EndFunction
  BY <1>6 DEF EndFunction, PopScopeAndCheck
<1> QED BY <1>1, <1>2, <1>3, <1>4, <1>5, <1>6 DEF Next

LEMMA RunStep ==
  ASSUME Fragment, Walk, errors = {} => Run, [Next]_vars, errors' = {}
  PROVE  Run'
<1>0. errors = {} /\ Run /\ TypeOK
  BY ErrorsStay DEF Fragment
<1>1. CASE UNCHANGED vars
  BY <1>0, <1>1, StaysRun
<1>2. CASE BeginFunction(<<>>, NoValue)
  <2>1. DOMAIN <<>> = {} /\ CellsIn(NoValue) = {}
    BY DEF CellsIn, NoValue
  <2> QED BY <1>2, <2>1, BeginRun
<1>3. ASSUME NEW v \in Vars, NEW t \in LinearTypes, NEW val \in FreshValues(t),
             BeginFunction([x \in {v} |-> t], val)
      PROVE  Run'
  <2>1. DOMAIN [x \in {v} |-> t] = {v} /\ [x \in {v} |-> t][v] = t
    OBVIOUS
  <2> QED BY <1>3, <2>1, BeginRun
<1>4. CASE LetNext \/ DestructureNext \/ StatementNext
  BY <1>0, <1>4, StatementsRun
<1>5. CASE If \/ Case \/ Loop
  BY <1>0, <1>5, OpenedRun
<1>6. CASE Arm
  BY <1>0, <1>6, ArmRun
<1>7. CASE Join \/ LoopEnd
  BY <1>0, <1>7, CloseTurns, JoinRun, LoopEndRun
<1>8. CASE EndFunction
  BY <1>0, <1>8, EndFunctionRun
<1> QED
  BY <1>1, <1>2, <1>3, <1>4, <1>5, <1>6, <1>7, <1>8 DEF Next

LEMMA WholeStep ==
  ASSUME WholeInvariant, [Next]_vars
  PROVE  WholeInvariant'
<1>1. TypeOK' /\ dialect' = dialect
  BY TypeOKStep, DialectStep DEF WholeInvariant
<1>2. Whole' => Whole
  BY <1>1 DEF Whole, WholeDialect, WholeType
<1>3. ASSUME Whole  PROVE Walk' /\ (errors' = {} => Run')
  BY <1>3, WalkStep, RunStep DEF WholeInvariant, Fragment
<1> QED BY <1>1, <1>2, <1>3 DEF WholeInvariant

\* For every function that keeps to the fragment the checker's maps fit
\* together at every point of its walk, and as long as LinearTypeChecker.cpp
\* has reported nothing, the map it holds, or the snapshot of the branch that
\* runs, says which variable owns which cells of the generated code.
THEOREM WholeInvariantHolds == Spec => []WholeInvariant
<1>1. Init => WholeInvariant
  BY TypeOKInit, InitWalk, InitRun DEF WholeInvariant, Init, ProgramInit
<1> QED BY <1>1, WholeStep, PTL DEF Spec

-----------------------------------------------------------------------------
(***************************************************************************)
(* The promises of the checker.  Names are declared once and end with      *)
(* their block; every function without the kinds of statement a promise    *)
(* excepts keeps to the fragment.                                          *)
(***************************************************************************)

OthersAreWhole(ops) ==
  /\ Naming = "unique" /\ Lexical
  /\ \A d \in Dialects : d.ops \cap ops = {} => WholeDialect(d)

LEMMA OtherIsWhole ==
  ASSUME NEW ops, OthersAreWhole(ops), WholeInvariant, Without(ops)
  PROVE  Fragment /\ Walk /\ (errors = {} => Run)
BY DEF OthersAreWhole, WholeInvariant, Without, Whole, Fragment

\* "Linear pointers must be consumed exactly once", the first half: whatever
\* branches run and however often a loop does, a function without the kinds of
\* statement LinearTypeChecker.cpp does not see as a move frees no cell twice
\* and uses no freed cell and no pointer that was never set, unless it is
\* rejected.
THEOREM SafeUnlessDuplicatingHolds ==
  ASSUME OthersAreWhole(Duplicating)
  PROVE  Spec => []SafeUnlessDuplicating
<1>1. WholeInvariant => SafeUnlessDuplicating
  BY OtherIsWhole DEF SafeUnlessDuplicating, Run, NoDangling
<1> QED BY <1>1, WholeInvariantHolds, PTL

\* The second half: no execution of an accepted function loses a cell, where
\* nothing returns before the end and nothing is stored over a pointer.
THEOREM NoLeakUnlessLosingHolds ==
  ASSUME OthersAreWhole(Losing)
  PROVE  Spec => []NoLeakUnlessLosing
<1>1. WholeInvariant => NoLeakUnlessLosing
  BY OtherIsWhole DEF NoLeakUnlessLosing, NoLeak, Accepted, Run
<1> QED BY <1>1, WholeInvariantHolds, PTL

\* A whole variable hands over the cells it holds and no other.
LEMMA HeldAtRoot ==
  ASSUME Fragment, Walk, Run, Agree(scope, visible), NEW v \in Vars, At(scope, v) = "Unconsumed",
         NEW c \in Cells
  PROVE  c \in HeldAt(<<v, Root>>) <=> c \in Held(v)
<1>1. CASE Held(v) # {}
  BY <1>1, OwnedValue DEF Agree
<1>2. CASE Held(v) = {}
  <2>1. v \in Declared /\ typ[v] \in dialect.types
    BY DEF Walk, TrackedAreDeclared, DeclaredAreWhole
  <2>2. Layout[typ[v]] \subseteq Slots
    BY <2>1, FragmentTypes
  <2>3. \A s \in Slots : env[v][s] = Nil
    BY <1>2 DEF Held, CellsIn
  <2>4. Star2(env[v][Root]) = Nil
    BY <2>3 DEF Star2
  <2>5. HeldAt(<<v, Root>>) \subseteq {Nil}
    BY <2>2, <2>3, <2>4 DEF HeldAt
  <2> QED BY <1>2, <2>5, OwnershipAssumption
<1> QED BY <1>1, <1>2

\* Every live cell is held by one variable, and that one is unconsumed.
LEMMA LiveHasOwner ==
  ASSUME Fragment, Walk, Run, On, phase = "body", Without({"store_field"}), NEW c \in LiveCells
  PROVE  /\ Agree(scope, visible) /\ c \in Cells
         /\ \E v \in Vars : At(scope, v) = "Unconsumed" /\ c \in Held(v)
<1>1. Agree(scope, visible) /\ c \in Cells /\ heap[c] = "live"
  BY OnAgrees DEF Fragment, LiveCells
<1>2. PICK v \in Vars : At(scope, v) = "Unconsumed" /\ c \in Holdings[v]
  BY <1>1 DEF Agree, Knows
<1> QED BY <1>1, <1>2, HeldCells DEF Fragment

LEMMA WholeHasOneOwner ==
  ASSUME Fragment, Walk, errors = {} => Run, Without({"store_field"})
  PROVE  OneOwner
<1>1. SUFFICES ASSUME On, phase = "body", errors = {}, NEW c \in LiveCells
               PROVE  \E v \in Vars :
                        /\ scope[v][Root] = "Unconsumed" /\ c \in HeldAt(<<v, Root>>)
                        /\ \A w \in Vars \ {v} :
                             scope[w][Root] = "Unconsumed" => c \notin HeldAt(<<w, Root>>)
  BY DEF OneOwner
<1>2. Run
  BY <1>1
<1>3. PICK v \in Vars : At(scope, v) = "Unconsumed" /\ c \in Held(v)
  BY <1>1, <1>2, LiveHasOwner
<1>4. Agree(scope, visible) /\ c \in Cells
  BY <1>1, <1>2, LiveHasOwner
<1>5. c \in HeldAt(<<v, Root>>)
  BY <1>2, <1>3, <1>4, HeldAtRoot
<1>6. ASSUME NEW w \in Vars \ {v}, At(scope, w) = "Unconsumed"
      PROVE  c \notin HeldAt(<<w, Root>>)
  <2>1. c \notin Held(w)
    BY <1>3, <1>4, <1>6, OwnersApart DEF Fragment
  <2> QED BY <1>2, <1>4, <1>6, <2>1, HeldAtRoot
<1> QED BY <1>3, <1>5, <1>6 DEF At

LEMMA WholeForgetsNone ==
  ASSUME Fragment, Walk, errors = {} => Run, Without({"store_field"})
  PROVE  NoneForgotten
<1>1. SUFFICES ASSUME On, phase = "body", errors = {}, NEW c \in LiveCells
               PROVE  \E p \in Places : scope[p[1]][p[2]] = "Unconsumed" /\ Load(p) = c
  BY DEF NoneForgotten
<1>2. Run
  BY <1>1
<1>3. PICK v \in Vars : At(scope, v) = "Unconsumed" /\ c \in Held(v)
  BY <1>1, <1>2, LiveHasOwner
<1>4. /\ typ[v] \in dialect.types /\ Layout[typ[v]] \subseteq Slots
      /\ Held(v) = {env[v][s] : s \in Layout[typ[v]]}
  BY <1>1, <1>2, <1>3, LiveHasOwner, OwnedValue DEF Agree
<1>5. PICK s \in Layout[typ[v]] : env[v][s] = c
  BY <1>3, <1>4
<1>6. s \in Slots /\ s # Star /\ typ[v] \in Types
  BY <1>4, <1>5, FragmentTypes, OwnershipAssumption
<1>7. scope[v][s] = "Unconsumed"
  <2>1. CASE s = Root
    BY <1>3, <2>1 DEF At
  <2>2. CASE s # Root
    <3>1. s \in Fields /\ Inner[typ[v]][s] = "Unconsumed"
      BY <1>4, <1>5, <1>6, <2>2, FragmentTypes
    <3> QED BY <1>3, <3>1 DEF Walk, PartsStay, LikeRegistered
  <2> QED BY <2>1, <2>2
<1>8. Load(<<v, s>>) = c /\ <<v, s>> \in Places
  BY <1>5, <1>6 DEF Load, Places
<1> QED BY <1>7, <1>8

\* In every function without the kinds of statement that duplicate or drop a
\* cell, as long as nothing is reported, the generated code's live cells each
\* have exactly one variable that LinearTypeChecker.cpp lists as unconsumed.
THEOREM OneOwnerUnlessEitherHolds ==
  ASSUME OthersAreWhole(Duplicating \cup Losing)
  PROVE  Spec => []OneOwnerUnlessEither
<1>1. WholeInvariant => OneOwnerUnlessEither
  <2>1. Without(Duplicating \cup Losing) => Without({"store_field"})
    BY DEF Without, Losing
  <2> QED BY <2>1, OtherIsWhole, WholeHasOneOwner DEF OneOwnerUnlessEither
<1> QED BY <1>1, WholeInvariantHolds, PTL

\* In every function of the fragment that neither returns early nor stores
\* into a field, as long as nothing is reported, LinearTypeChecker.cpp has not
\* lost sight of a live cell: a variable or a part it lists as unconsumed
\* holds it.
THEOREM NoneForgottenUnlessDroppedHolds == Spec => [](Whole => NoneForgottenUnlessDropped)
<1>1. WholeInvariant => (Whole => NoneForgottenUnlessDropped)
  <2>1. Without({"early_return", "store_field"}) => Without({"store_field"})
    BY DEF Without
  <2> QED BY <2>1, WholeForgetsNone DEF WholeInvariant, Fragment, NoneForgottenUnlessDropped
<1> QED BY <1>1, WholeInvariantHolds, PTL

\* The two halves where every function keeps to the fragment: none that is
\* not rejected frees a cell twice or uses a freed or unset one, ...
THEOREM NoDanglingHolds ==
  ASSUME OthersAreWhole({})
  PROVE  Spec => []NoDangling
<1>1. WholeInvariant => NoDangling
  <2>1. Without({})
    BY DEF Without
  <2> QED BY <2>1, OtherIsWhole DEF Run, NoDangling
<1> QED BY <1>1, WholeInvariantHolds, PTL

\* ... and none that is accepted loses one, where no function returns before
\* its end or stores over a pointer.
THEOREM NoLeakHolds ==
  ASSUME OthersAreWhole({}), \A d \in Dialects : d.ops \cap Losing = {}
  PROVE  Spec => []NoLeak
<1>1. WholeInvariant => NoLeak
  <2>1. WholeInvariant => Without({}) /\ Without(Losing)
    BY DEF WholeInvariant, Without
  <2> QED BY <2>1, OtherIsWhole DEF NoLeak, Accepted, Run
<1> QED BY <1>1, WholeInvariantHolds, PTL
=============
