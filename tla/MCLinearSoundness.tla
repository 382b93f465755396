-------------------------- MODULE MCLinearSoundness --------------------------
(***************************************************************************)
(* Instances of LinearSoundness.  The types: "ptr" is 'ptr<i32>, "pptr" is *)
(* 'ptr<'ptr<i32>>, "box" is struct { 0: 'ptr<i32> }, "pair" is            *)
(* ('ptr<i32>, 'ptr<i32>), "nest" is (box, 'ptr<i32>).                     *)
(***************************************************************************)
EXTENDS LinearWhole, TLC

MCRoot == "root"
MCStar == "*"

(* The types as trees; LinearTypes says what the checker records for them. *)
I32        == [kind |-> "scalar", linear |-> FALSE, inner |-> <<>>]
Owning(t)  == [kind |-> "pointer", linear |-> TRUE, inner |-> <<t>>]
Tuple(ts)  == [kind |-> "tuple", linear |-> FALSE, inner |-> ts]
Ptr == Owning(I32)
Box == [kind |-> "struct", linear |-> FALSE, inner |-> <<Ptr>>]

Tree(t) == CASE t = "ptr"  -> Ptr
             [] t = "pptr" -> Owning(Ptr)
             [] t = "box"  -> Box
             [] t = "pair" -> Tuple(<<Ptr, Ptr>>)
             [] OTHER      -> Tuple(<<Box, Ptr>>)

LT == INSTANCE LinearTypes
        WITH Universe <- {I32, Ptr, Box} \cup {Tree(t) : t \in Types}

\* The slot of a tree's first-level part, and the part of a slot.
Part(t, s) == CASE s = "0" -> 1 [] s = "1" -> 2
                [] OTHER -> IF t.linear THEN 1 ELSE 0
HasPart(t, s) == /\ s # "root" /\ (s = "*" <=> t.linear)
                 /\ Part(t, s) \in DOMAIN t.inner

MCInner ==
  [t \in Types |-> LET info == LT!register_if_linear(Tree(t)) IN
     [s \in Slots |->
        IF s = "root" THEN info[<<>>]
        ELSE IF HasPart(Tree(t), s) /\ <<Part(Tree(t), s)>> \in DOMAIN info
             THEN info[<<Part(Tree(t), s)>>] ELSE "none"]]

MCLayout ==
  [t \in Types |->
     {s \in Slots \ {"*"} :
        IF s = "root" THEN Tree(t).linear
        ELSE /\ HasPart(Tree(t), s)
             /\ LT!Owned[Tree(t).inner[Part(Tree(t), s)]] # {}}]

MCFieldType ==
  [t \in Types |-> [f \in Fields |->
     IF HasPart(Tree(t), f) /\ \E u \in Types : Tree(u) = Tree(t).inner[Part(Tree(t), f)]
     THEN CHOOSE u \in Types : Tree(u) = Tree(t).inner[Part(Tree(t), f)]
     ELSE NoType]]

MCElement == [t \in Types \ {"ptr", "pptr"} |->
                IF t = "box" THEN <<"0">> ELSE <<"0", "1">>]
MCTuples == Types \cap {"pair", "nest"}

\* The functions of each run.
Over(types, ops) == [types |-> types, ops |-> ops \cup {"let", "free"}]
MCRaw   == {Over({"ptr"}, {"call", "move", "use", "addr", "discard", "if", "case", "loop"})}
MCEarly == {Over({"ptr"}, {"early_return", "if"})}
MCWrapped ==
  {Over({"ptr", "box", "pair"}, {"call", "move", "pack", "destructure", "if", "loop"}),
   Over({"ptr", "pptr"}, {"use", "store", "free_inner", "deref_move"})}
MCOpen ==
  {Over({"ptr", "box"}, {"move", "use", "pack", "store_field", "early_return",
                         "if", "case", "loop"}),
   Over({"ptr", "box"}, {"pack", "field", "free_inner", "other", "value", "if", "loop"})}

\* Every property checked here is about functions that are not rejected, and
\* errors only grows: nothing is lost by not walking past the first error.
NotRejected == errors = {}

\* The execution ends in a branch, at the branch's last statement.
EndsInBranch == /\ exited' /\ ~exited => frames # <<>>
                /\ exited /\ frames # <<>> => frames' # frames

Symmetric == Permutations(Vars) \cup Permutations(Cells)
=============================================================================
