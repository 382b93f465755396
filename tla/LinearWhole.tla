----------------------------- MODULE LinearWhole -----------------------------
(***************************************************************************)
(* The fragment of the language for which the linear checker keeps its     *)
(* promise, and the inductive invariant that shows it: variables that are  *)
(* linear pointers, or structs and tuples of them, which move as a whole;  *)
(* names that are declared once and end with their block; and the          *)
(* statements of the language that do not take a variable apart unseen.    *)
(***************************************************************************)
EXTENDS LinearSoundness

WholeOps == {"let", "call", "move", "pack", "destructure", "free", "use", "store_field",
             "addr", "discard", "early_return", "if", "case", "loop"}

\* The checker tracks every pointer a variable of type t holds; the elements
\* of a literal are the slots of the layout, one pointer each.
WholeType(t, types) ==
  /\ Layout[t] # {} /\ Inner[t][Root] = "Unconsumed"
  /\ \A s \in Layout[t] : Inner[t][s] = "Unconsumed"
  /\ Root \in Layout[t] => Layout[t] = {Root} /\ ~HasChildren(Inner[t])
  /\ \A f \in Fields \ {Star} : FieldType[t][f] # NoType => f \in Layout[t]
  /\ t \in DOMAIN Element =>
       /\ Range(Element[t]) = Layout[t]
       /\ \A i, j \in DOMAIN Element[t] : Element[t][i] = Element[t][j] => i = j
       /\ \A f \in Layout[t] : /\ FieldType[t][f] \in types
                               /\ \E s \in Slots : Layout[FieldType[t][f]] = {s}
  /\ t \in Tuples => \A f \in Layout[t] : Root \in Layout[FieldType[t][f]]

WholeDialect(d) == d.ops \subseteq WholeOps /\ \A t \in d.types : WholeType(t, d.types)

\* The function keeps to the fragment.
Whole == Naming = "unique" /\ Lexical /\ WholeDialect(dialect)

At(M, v)      == M[v][Root]
Held(v)       == CellsIn(env[v])
Holdings      == [v \in Vars |-> Held(v)]
Before(i)     == frames[i].before
Snapshots(i)  == {Before(i)} \cup {frames[i].arms[k] : k \in DOMAIN frames[i].arms}
Open          == DOMAIN frames
Frozen        == Declared \ visible

-----------------------------------------------------------------------------
(* The walk: how the maps the checker holds relate to each other *)

\* A variable is tracked from its declaration on and never becomes
\* unconsumed again.
Later(M, N) == \A v \in Vars : /\ At(M, v) # "none" => At(N, v) # "none"
                               /\ At(M, v) = "Consumed" => At(N, v) = "Consumed"

NothingBefore == phase = "start" => Init

DeclaredAreWhole == \A v \in Declared : typ[v] \in dialect.types

TrackedAreDeclared ==
  \A v \in Vars \ Declared :
    At(scope, v) = "none" /\ \A i \in Open : \A M \in Snapshots(i) : At(M, v) = "none"

VisibleAreTracked == /\ \A v \in visible : At(scope, v) # "none"
                     /\ \A i \in Open : \A v \in outer[i] : At(Before(i), v) # "none"

BlocksNest == \A i \in Open : /\ outer[i] \subseteq visible
                              /\ \A j \in Open : i < j => outer[i] \subseteq outer[j]

\* The maps of a construct do not know the names of the arm that is open.
ArmNamesAreNew ==
  \A i \in Open : \A v \in visible \ outer[i] : \A M \in Snapshots(i) : At(M, v) = "none"

MapsProgress ==
  \A i \in Open : /\ Later(Before(i), scope)
                  /\ \A j \in Open : i <= j => \A M \in Snapshots(j) : Later(Before(i), M)

\* Nothing changes the state of a name whose block is closed.
FrozenNames ==
  \A i \in Open : \A M \in Snapshots(i) : \A v \in Frozen :
    At(M, v) \in {"none", At(scope, v)}

\* Parts keep the state they were registered with.
LikeRegistered(M) ==
  \A v \in Vars, f \in Fields :
    M[v][f] = IF At(M, v) = "none" THEN "none" ELSE Inner[typ[v]][f]
PartsStay ==
  LikeRegistered(scope) /\ \A i \in Open : \A M \in Snapshots(i) : LikeRegistered(M)

SealedIsLast == sealed => frames = <<>>

Walk == /\ NothingBefore /\ DeclaredAreWhole /\ TrackedAreDeclared /\ VisibleAreTracked
        /\ BlocksNest /\ ArmNamesAreNew /\ MapsProgress /\ FrozenNames /\ PartsStay
        /\ SealedIsLast

-----------------------------------------------------------------------------
(* The execution: which of those maps describes the memory *)

\* With the cells held as held says and heap h, map M says who owns which;
\* D are the names that can be used.
Owns(M, D, held, h) ==
  /\ \A v \in D : At(M, v) = "Unconsumed" => held[v] # {}
  /\ \A v \in Vars : /\ At(M, v) = "Unconsumed" => \A c \in held[v] : h[c] = "live"
                     /\ At(M, v) = "none" => held[v] = {}
  /\ \A v, w \in Vars :
       At(M, v) = "Unconsumed" /\ At(M, w) = "Unconsumed" /\ v # w => held[v] \cap held[w] = {}

\* Every live cell has an owner.
Knows(M, held, h) ==
  \A c \in Cells : h[c] = "live" => \E v \in Vars : At(M, v) = "Unconsumed" /\ c \in held[v]

\* As long as nothing map B owns is consumed, the cells E that were live with
\* B still are, and no other name owns one of them.
Keeps(B, M, held, h, E) ==
  (\A v \in Vars : At(B, v) = "Unconsumed" => At(M, v) = "Unconsumed") =>
    /\ \A c \in E : h[c] = "live"
    /\ \A v \in Vars : At(M, v) = "Unconsumed" /\ At(B, v) # "Unconsumed"
                         => held[v] \cap E = {}

\* All pointers of a value are set, to different cells.
WholeValue(t, val) == /\ \A s \in Slots : val[s] # Nil <=> s \in Layout[t]
                      /\ \A s, u \in Layout[t] : val[s] = val[u] => s = u
Shaped(M) ==
  \A v \in Vars : At(M, v) = "Unconsumed" /\ Held(v) # {} => WholeValue(typ[v], env[v])

Executed(i) == path[i].run = "now"
Repeated(i) == frames[i].kind = "loop" /\ Executed(i)

Agree(M, D) ==
  /\ Owns(M, D, Holdings, heap) /\ Shaped(M)
  /\ Without({"store_field"}) => Knows(M, Holdings, heap)
  /\ \A i \in Open : Repeated(i) => Keeps(Before(i), M, Holdings, heap, path[i].entry)

\* A branch is skipped only inside a construct that is not executed.
PathShape ==
  \A i \in Open :
    /\ frames[i].kind = "loop" => path[i].run \in {"now", "skip"}
    /\ \A j \in Open : i < j /\ ~Executed(i) => path[j].run = "skip"
    /\ ~exited /\ frames[i].kind # "loop" /\ path[i].run = "skip" =>
         \E j \in Open : j < i /\ ~Executed(j)

PlainMemory ==
  /\ \A c \in Cells : content[c] = Nil
  /\ \A v \in Vars \ Declared : Held(v) = {}
  /\ \A v \in Vars : \A c \in Held(v) : heap[c] # "unused"

\* The first construct off the executed path holds the map the execution
\* stopped at: the one before it, or the one after the arm that ran.
Owners ==
  /\ (\A i \in Open : Executed(i)) => Agree(scope, visible)
  /\ \A i \in Open :
       ~Executed(i) /\ (\A j \in Open : j < i => Executed(j)) =>
         IF path[i].run = "passed"
         THEN \E k \in DOMAIN frames[i].arms : Agree(frames[i].arms[k], outer[i])
         ELSE Agree(Before(i), outer[i])

\* What the map before a loop owns was live when its body was entered.
LoopEntries ==
  Without({"store_field"}) =>
    \A i \in Open : Repeated(i) =>
      \A v \in Vars : At(Before(i), v) = "Unconsumed" => Held(v) \subseteq path[i].entry

\* A lost cell has an owner that no statement can consume any more.
LeaksShow ==
  Without(Losing) /\ "leak" \in faults =>
    \E v \in Vars : At(scope, v) = "Unconsumed" /\ (sealed \/ v \in Frozen)

ExitIsLast == Without({"early_return"}) /\ exited => sealed \/ phase = "done"

Run == /\ NoDangling
       /\ PathShape /\ PlainMemory /\ LoopEntries /\ ExitIsLast
       /\ ~exited /\ phase = "body" => Owners
       /\ phase = "body" => LeaksShow
       /\ phase = "done" /\ Without(Losing) => "leak" \notin faults

\* The inductive invariant: in the fragment the maps of the walk fit together
\* and, as long as nothing was reported, one of them describes the memory.
WholeInvariant ==
  TypeOK /\ dialect \in Dialects /\ (Whole => Walk /\ (errors = {} => Run))
=============================================================================
