------------------------ MODULE LinearVariableProofs ------------------------
(***************************************************************************)
(* The exit of a scope reports a variable when it still owns something and *)
(* only then, for types of any shape and depth.  Types are finite trees:   *)
(* in the code a type is built of finished ones and holds them by value,   *)
(* so there is a rank that falls from a type to the types nested in it.    *)
(***************************************************************************)
EXTENDS LinearVariable, SequenceLemmas

Ranked(rank) ==
  /\ rank \in [Universe -> Nat]
  /\ \A t \in Universe : \A i \in DOMAIN t.inner : rank[t.inner[i]] < rank[t]

States == {"Consumed", "Unconsumed"}
Path == Seq(Nat)

-----------------------------------------------------------------------------
(* What is registered and what is owned, as it can be read off the tree *)

\* The paths that are registered below a variable.
Paths(t) == {k[1] : k \in register_inner_linear[t]}

Leaf(D, p) == p \in D /\ ~\E q \in D : IsStrictPrefix(p, q)

-----------------------------------------------------------------------------
(* The invariants *)

\* The tree keeps its paths, and below the first level the states it had.
Shape ==
  /\ ty \in Universe
  /\ owed \subseteq Path
  /\ open \in BOOLEAN /\ wrong \in BOOLEAN
  /\ info \in [DOMAIN register_if_linear(ty) -> States]
  /\ \A q \in DOMAIN info : Len(q) > 1 => info[q] = register_if_linear(ty)[q]

\* What is owned is a leaf of the tree, with nothing consumed on the way to it.
OwedIsSeen ==
  NoPointerToLinear[ty] =>
    /\ \A p \in owed : /\ Leaf(DOMAIN info, p)
                       /\ \A q \in DOMAIN info : IsPrefix(q, p) => info[q] = "Unconsumed"
    /\ ty.linear => owed \subseteq {<<>>}
    /\ ~open /\ ~wrong => owed = {}

\* A child that the exit of the scope would report.
Live(p) ==
  /\ p # <<>> /\ Leaf(DOMAIN info, p)
  /\ \A q \in DOMAIN info : q # <<>> /\ IsPrefix(q, p) => info[q] = "Unconsumed"

\* As long as the variable itself is not consumed, what would be reported of it
\* is owned.
SeenIsOwed ==
  NoLinearFunction[ty] /\ <<>> \in DOMAIN info /\ info[<<>>] = "Unconsumed" =>
    /\ ty.linear => <<>> \in owed
    /\ \A p \in DOMAIN info : Live(p) => p \in owed
-----------------------------------------------------------------------------
(* Paths *)

LEMMA PrefixIs ==
  ASSUME NEW s \in Path, NEW u \in Path
  PROVE  IsPrefix(s, u) <=> Len(s) <= Len(u) /\ \A k \in 1 .. Len(s) : s[k] = u[k]
<1>1. ASSUME Len(s) <= Len(u)
      PROVE  SubSeq(s, 1, Len(s)) = SubSeq(u, 1, Len(s)) <=> \A k \in 1 .. Len(s) : s[k] = u[k]
  <2> DEFINE n == Len(s)
  <2>0. n \in Nat /\ Len(u) \in Nat /\ n <= Len(u)
    BY <1>1, LenProperties DEF Path
  <2>1. SubSeq(s, 1, n) = [k \in 1 .. n |-> s[k]]
    <3>1. SubSeq(s, 1, n) = [k \in 1 .. n - 1 + 1 |-> s[1 + k - 1]]
      BY <2>0 DEF Path
    <3> QED BY <2>0, <3>1
  <2>2. SubSeq(u, 1, n) = [k \in 1 .. n |-> u[k]]
    <3>1. SubSeq(u, 1, n) = [k \in 1 .. n - 1 + 1 |-> u[1 + k - 1]]
      BY <2>0 DEF Path
    <3> QED BY <2>0, <3>1
  <2> HIDE DEF n
  <2>3. [k \in 1 .. n |-> s[k]] = [k \in 1 .. n |-> u[k]] <=> \A k \in 1 .. n : s[k] = u[k]
    <3>1. ASSUME [k \in 1 .. n |-> s[k]] = [k \in 1 .. n |-> u[k]], NEW k \in 1 .. n
          PROVE  s[k] = u[k]
      <4>1. [i \in 1 .. n |-> s[i]][k] = [i \in 1 .. n |-> u[i]][k]
        BY <3>1
      <4> QED BY <4>1
    <3> QED BY <3>1
  <2> QED BY <2>1, <2>2, <2>3 DEF n
<1> QED BY <1>1 DEF IsPrefix

\* The path to s below the part i.
LEMMA Deeper ==
  ASSUME NEW i \in Nat, NEW s \in Path
  PROVE  /\ <<i>> \o s \in Path /\ Len(<<i>> \o s) = Len(s) + 1
         /\ (<<i>> \o s)[1] = i /\ \A k \in 1 .. Len(s) : (<<i>> \o s)[k + 1] = s[k]
<1>1. <<i>> \in Seq(Nat) /\ Len(<<i>>) = 1 /\ <<i>>[1] = i
  OBVIOUS
<1>2. /\ <<i>> \o s \in Seq(Nat) /\ Len(<<i>> \o s) = Len(<<i>>) + Len(s)
      /\ \A k \in 1 .. Len(<<i>>) + Len(s) :
           (<<i>> \o s)[k] = IF k <= Len(<<i>>) THEN <<i>>[k] ELSE s[k - Len(<<i>>)]
  BY <1>1, ConcatProperties DEF Path
<1>3. Len(s) \in Nat
  BY DEF Path
<1>4. (<<i>> \o s)[1] = i
  BY <1>1, <1>2, <1>3
<1>5. ASSUME NEW k \in 1 .. Len(s) PROVE (<<i>> \o s)[k + 1] = s[k]
  <2>1. k + 1 \in 1 .. 1 + Len(s) /\ ~(k + 1 <= 1) /\ k + 1 - 1 = k
    BY <1>3
  <2> QED BY <2>1, <1>1, <1>2
<1> QED BY <1>1, <1>2, <1>3, <1>4, <1>5 DEF Path

LEMMA DeeperPrefix ==
  ASSUME NEW i \in Nat, NEW j \in Nat, NEW s \in Path, NEW u \in Path
  PROVE  /\ IsPrefix(<<i>> \o s, <<j>> \o u) <=> i = j /\ IsPrefix(s, u)
         /\ <<i>> \o s = <<j>> \o u <=> i = j /\ s = u
<1> DEFINE x == <<i>> \o s
           y == <<j>> \o u
<1>1. /\ x \in Path /\ Len(x) = Len(s) + 1 /\ x[1] = i /\ \A k \in 1 .. Len(s) : x[k + 1] = s[k]
      /\ y \in Path /\ Len(y) = Len(u) + 1 /\ y[1] = j /\ \A k \in 1 .. Len(u) : y[k + 1] = u[k]
  BY Deeper
<1>2. Len(s) \in Nat /\ Len(u) \in Nat
  BY DEF Path
<1> HIDE DEF x, y
<1>3. ASSUME i = j, IsPrefix(s, u) PROVE IsPrefix(x, y)
  <2>1. Len(s) <= Len(u) /\ \A k \in 1 .. Len(s) : s[k] = u[k]
    BY <1>3, PrefixIs
  <2>2. Len(x) <= Len(y)
    BY <1>1, <1>2, <2>1
  <2>3. ASSUME NEW k \in 1 .. Len(x) PROVE x[k] = y[k]
    <3>1. CASE k = 1
      BY <3>1, <1>1, <1>3
    <3>2. CASE k # 1
      <4> DEFINE m == k - 1
      <4>1. m \in 1 .. Len(s) /\ m \in 1 .. Len(u) /\ m + 1 = k
        BY <3>2, <1>1, <1>2, <2>1
      <4> HIDE DEF m
      <4>2. x[m + 1] = s[m] /\ y[m + 1] = u[m] /\ s[m] = u[m]
        BY <4>1, <1>1, <2>1
      <4> QED BY <4>1, <4>2
    <3> QED BY <3>1, <3>2
  <2> QED BY <1>1, <2>2, <2>3, PrefixIs
<1>4. ASSUME IsPrefix(x, y) PROVE i = j /\ IsPrefix(s, u)
  <2>1. Len(x) <= Len(y) /\ \A k \in 1 .. Len(x) : x[k] = y[k]
    BY <1>1, <1>4, PrefixIs
  <2>2. 1 \in 1 .. Len(x) /\ Len(s) <= Len(u)
    BY <1>1, <1>2, <2>1
  <2>3. ASSUME NEW k \in 1 .. Len(s) PROVE s[k] = u[k]
    <3>1. k + 1 \in 1 .. Len(x) /\ k \in 1 .. Len(u)
      BY <1>1, <1>2, <2>2
    <3>2. x[k + 1] = s[k] /\ y[k + 1] = u[k] /\ x[k + 1] = y[k + 1]
      BY <3>1, <1>1, <2>1
    <3> QED BY <3>2
  <2> QED BY <1>1, <2>1, <2>2, <2>3, PrefixIs
<1>5. ASSUME x = y PROVE i = j /\ s = u
  <2>1. i = j
    BY <1>1, <1>5
  <2>2. Len(s) = Len(u)
    BY <1>1, <1>2, <1>5
  <2>3. ASSUME NEW k \in 1 .. Len(s) PROVE s[k] = u[k]
    <3>1. x[k + 1] = s[k] /\ y[k + 1] = u[k]
      BY <1>1, <2>2
    <3> QED BY <3>1, <1>5
  <2> QED BY <2>1, <2>2, <2>3, SeqEqual DEF Path
<1>6. (i = j /\ s = u) => x = y
  BY DEF x, y
<1> QED BY <1>3, <1>4, <1>5, <1>6 DEF x, y

LEMMA SamePart ==
  ASSUME NEW i \in Nat, NEW s \in Path, NEW u \in Path
  PROVE  /\ IsPrefix(<<i>> \o s, <<i>> \o u) <=> IsPrefix(s, u)
         /\ <<i>> \o s = <<i>> \o u <=> s = u
<1>1. IsPrefix(<<i>> \o s, <<i>> \o u) <=> i = i /\ IsPrefix(s, u)
  BY DeeperPrefix
<1>2. <<i>> \o s = <<i>> \o u <=> i = i /\ s = u
  BY DeeperPrefix
<1> QED BY <1>1, <1>2

LEMMA TopPath ==
  /\ <<>> \in Path
  /\ \A u \in Path : IsPrefix(<<>>, u) /\ IsPrefix(u, u) /\ (IsPrefix(u, <<>>) => u = <<>>)
  /\ \A i \in Nat : <<i>> \in Path /\ <<i>> = <<i>> \o <<>> /\ Len(<<i>>) = 1
  /\ \A i \in Nat : \A u \in Path : <<i>> \o u # <<>>
<1>1. <<>> \in Path /\ Len(<<>>) = 0
  BY DEF Path
<1>2. ASSUME NEW u \in Path
      PROVE  IsPrefix(<<>>, u) /\ IsPrefix(u, u) /\ (IsPrefix(u, <<>>) => u = <<>>)
  <2>1. Len(u) \in Nat /\ (Len(u) = 0 => u = <<>>)
    BY EmptySeq DEF Path
  <2>2. IsPrefix(u, <<>>) => Len(u) <= Len(<<>>)
    BY DEF IsPrefix
  <2>3. IsPrefix(<<>>, u) /\ IsPrefix(u, u)
    BY <1>1, <2>1, PrefixIs
  <2> QED BY <1>1, <2>1, <2>2, <2>3
<1>3. ASSUME NEW i \in Nat PROVE <<i>> \in Path /\ <<i>> = <<i>> \o <<>> /\ Len(<<i>>) = 1
  BY ConcatEmptySeq DEF Path
<1>4. ASSUME NEW i \in Nat, NEW u \in Path PROVE <<i>> \o u # <<>>
  <2>1. Len(<<i>> \o u) = Len(u) + 1 /\ Len(u) \in Nat
    BY Deeper DEF Path
  <2> QED BY <1>1, <2>1
<1> QED BY <1>1, <1>2, <1>3, <1>4

------------------------------------------------------------------------------
(* The recursive definitions satisfy their equations *)

LEMMA Parts ==
  ASSUME NEW t \in Universe
  PROVE  /\ \A i \in DOMAIN t.inner : i \in Nat /\ t.inner[i] \in Universe
         /\ t.kind \in Kinds /\ t.linear \in BOOLEAN
         /\ t.linear => t.kind = "pointer"
         /\ t.kind = "scalar" => DOMAIN t.inner = {}
         /\ t.kind = "pointer" => DOMAIN t.inner = {1}
<1>1. t.inner \in Seq(Universe)
  BY UniverseAssumption
<1>2. DOMAIN t.inner = 1 .. Len(t.inner) /\ Len(t.inner) \in Nat
  BY <1>1
<1>3. \A i \in 1 .. Len(t.inner) : t.inner[i] \in Universe
  BY <1>1, ElementOfSeq
<1>4. t.kind = "scalar" => Len(t.inner) = 0
  BY UniverseAssumption
<1>5. t.kind = "pointer" => Len(t.inner) = 1
  BY UniverseAssumption
<1> QED BY <1>2, <1>3, <1>4, <1>5, UniverseAssumption

LEMMA ContainsIs ==
  ASSUME NEW rank, Ranked(rank)
  PROVE  containsLinearTypes =
           [t \in Universe |-> t.linear \/ \E i \in DOMAIN t.inner : containsLinearTypes[t.inner[i]]]
<1> DEFINE body(f, t) == t.linear \/ \E i \in DOMAIN t.inner : f[t.inner[i]]
           F == BOOLEAN
           G == [f \in [Universe -> F] |-> [t \in Universe |-> body(f, t)]]
<1>1. G \in [[Universe -> F] -> [Universe -> F]]
  <2>1. ASSUME NEW f, NEW t \in Universe PROVE body(f, t) \in BOOLEAN
    BY Zenon, Parts
  <2> QED BY <2>1
<1>2. ASSUME NEW t \in Universe, NEW f \in [Universe -> F], NEW h \in [Universe -> F],
             \A u \in Universe : rank[u] < rank[t] => f[u] = h[u]
      PROVE  G[f][t] = G[h][t]
  <2>1. \A i \in DOMAIN t.inner : f[t.inner[i]] = h[t.inner[i]]
    BY <1>2, Parts DEF Ranked
  <2>2. body(f, t) = body(h, t)
    BY <2>1
  <2> HIDE DEF body
  <2> QED BY <2>2
<1>3. \E f \in [Universe -> F] : f = G[f]
  <2>1. F # {} /\ rank \in [Universe -> Nat]
    BY DEF Ranked
  <2> HIDE DEF G, F
  <2>2. LooksBelow(G, Universe, F, rank)
    BY <1>1, <1>2 DEF LooksBelow
  <2> QED BY <2>1, <2>2, RankedRecursion
<1>4. \E f : f = [t \in Universe |-> body(f, t)]
  BY <1>3
<1> QED BY <1>4 DEF containsLinearTypes

LEMMA NoPointerIs ==
  ASSUME NEW rank, Ranked(rank)
  PROVE  NoPointerToLinear =
           [t \in Universe |-> \A i \in DOMAIN t.inner :
              /\ t.kind = "pointer" => ~containsLinearTypes[t.inner[i]]
              /\ NoPointerToLinear[t.inner[i]]]
<1> DEFINE body(f, t) == \A i \in DOMAIN t.inner :
                           /\ t.kind = "pointer" => ~containsLinearTypes[t.inner[i]]
                           /\ f[t.inner[i]]
           F == BOOLEAN
           G == [f \in [Universe -> F] |-> [t \in Universe |-> body(f, t)]]
<1>1. G \in [[Universe -> F] -> [Universe -> F]]
  OBVIOUS
<1>2. ASSUME NEW t \in Universe, NEW f \in [Universe -> F], NEW h \in [Universe -> F],
             \A u \in Universe : rank[u] < rank[t] => f[u] = h[u]
      PROVE  G[f][t] = G[h][t]
  <2>1. \A i \in DOMAIN t.inner : f[t.inner[i]] = h[t.inner[i]]
    BY <1>2, Parts DEF Ranked
  <2>2. body(f, t) = body(h, t)
    BY <2>1
  <2> HIDE DEF body
  <2> QED BY <2>2
<1>3. \E f \in [Universe -> F] : f = G[f]
  <2>1. F # {} /\ rank \in [Universe -> Nat]
    BY DEF Ranked
  <2> HIDE DEF G, F
  <2>2. LooksBelow(G, Universe, F, rank)
    BY <1>1, <1>2 DEF LooksBelow
  <2> QED BY <2>1, <2>2, RankedRecursion
<1>4. \E f : f = [t \in Universe |-> body(f, t)]
  BY <1>3
<1> QED BY <1>4 DEF NoPointerToLinear

LEMMA NoFunctionIs ==
  ASSUME NEW rank, Ranked(rank)
  PROVE  NoLinearFunction =
           [t \in Universe |-> /\ t.kind = "function" => ~containsLinearTypes[t]
                               /\ \A i \in DOMAIN t.inner : NoLinearFunction[t.inner[i]]]
<1> DEFINE body(f, t) == /\ t.kind = "function" => ~containsLinearTypes[t]
                         /\ \A i \in DOMAIN t.inner : f[t.inner[i]]
           F == BOOLEAN
           G == [f \in [Universe -> F] |-> [t \in Universe |-> body(f, t)]]
<1>1. G \in [[Universe -> F] -> [Universe -> F]]
  OBVIOUS
<1>2. ASSUME NEW t \in Universe, NEW f \in [Universe -> F], NEW h \in [Universe -> F],
             \A u \in Universe : rank[u] < rank[t] => f[u] = h[u]
      PROVE  G[f][t] = G[h][t]
  <2>1. \A i \in DOMAIN t.inner : f[t.inner[i]] = h[t.inner[i]]
    BY <1>2, Parts DEF Ranked
  <2>2. body(f, t) = body(h, t)
    BY <2>1
  <2> HIDE DEF body
  <2> QED BY <2>2
<1>3. \E f \in [Universe -> F] : f = G[f]
  <2>1. F # {} /\ rank \in [Universe -> Nat]
    BY DEF Ranked
  <2> HIDE DEF G, F
  <2>2. LooksBelow(G, Universe, F, rank)
    BY <1>1, <1>2 DEF LooksBelow
  <2> QED BY <2>1, <2>2, RankedRecursion
<1>4. \E f : f = [t \in Universe |-> body(f, t)]
  BY <1>3
<1> QED BY <1>4 DEF NoLinearFunction

LEMMA OwnedIs ==
  ASSUME NEW rank, Ranked(rank)
  PROVE  /\ Owned = [t \in Universe |->
                       IF t.linear THEN {<<>>}
                       ELSE IF t.kind \in {"pointer", "function"} THEN {}
                       ELSE UNION {{<<i>> \o p : p \in Owned[t.inner[i]]} : i \in DOMAIN t.inner}]
         /\ \A t \in Universe : Owned[t] \subseteq Path
<1> DEFINE part(f, t, i) == {<<i>> \o p : p \in f[t.inner[i]]}
           body(f, t) == IF t.linear THEN {<<>>}
                         ELSE IF t.kind \in {"pointer", "function"} THEN {}
                         ELSE UNION {part(f, t, i) : i \in DOMAIN t.inner}
           F == SUBSET Path
           G == [f \in [Universe -> F] |-> [t \in Universe |-> body(f, t)]]
<1>0. ASSUME NEW f, NEW t \in Universe, \A i \in DOMAIN t.inner : f[t.inner[i]] \subseteq Path
      PROVE  body(f, t) \subseteq Path
  <2>1. ASSUME NEW i \in DOMAIN t.inner, NEW p \in f[t.inner[i]] PROVE <<i>> \o p \in Path
    BY <1>0, Parts, Deeper
  <2>2. {<<>>} \subseteq Path
    BY TopPath
  <2>3. \A i \in DOMAIN t.inner : {<<i>> \o p : p \in f[t.inner[i]]} \subseteq Path
    BY <2>1
  <2>4. UNION {{<<i>> \o p : p \in f[t.inner[i]]} : i \in DOMAIN t.inner} \subseteq Path
    BY <2>3
  <2> QED BY <2>2, <2>4
<1>1. G \in [[Universe -> F] -> [Universe -> F]]
  <2>1. ASSUME NEW f \in [Universe -> F], NEW t \in Universe PROVE body(f, t) \in F
    <3>1. \A i \in DOMAIN t.inner : f[t.inner[i]] \subseteq Path
      BY Parts
    <3> HIDE DEF body
    <3> QED BY <3>1, <1>0
  <2> HIDE DEF body, F
  <2> QED BY <2>1
<1>2. ASSUME NEW t \in Universe, NEW f \in [Universe -> F], NEW h \in [Universe -> F],
             \A u \in Universe : rank[u] < rank[t] => f[u] = h[u]
      PROVE  G[f][t] = G[h][t]
  <2>1. \A i \in DOMAIN t.inner : f[t.inner[i]] = h[t.inner[i]]
    BY <1>2, Parts DEF Ranked
  <2>2. \A i \in DOMAIN t.inner : part(f, t, i) = part(h, t, i)
    BY <2>1
  <2> HIDE DEF part
  <2>3. body(f, t) = body(h, t)
    BY <2>2
  <2> HIDE DEF body, F
  <2> QED BY <2>3
<1>3. \E f \in [Universe -> F] : f = G[f]
  <2>1. F # {} /\ rank \in [Universe -> Nat]
    BY DEF Ranked
  <2> HIDE DEF G, F
  <2>2. LooksBelow(G, Universe, F, rank)
    BY <1>1, <1>2 DEF LooksBelow
  <2> QED BY <2>1, <2>2, RankedRecursion
<1>4. \E f : f = [t \in Universe |-> body(f, t)]
  BY <1>3
<1>5. Owned = [t \in Universe |-> body(Owned, t)]
  BY <1>4 DEF Owned
<1> DEFINE S == {t \in Universe : Owned[t] \subseteq Path}
<1>6. ASSUME NEW t \in Universe, \A u \in Universe : rank[u] < rank[t] => u \in S
      PROVE  t \in S
  <2>1. \A i \in DOMAIN t.inner : Owned[t.inner[i]] \subseteq Path
    BY <1>6, Parts DEF Ranked
  <2> HIDE DEF body
  <2>2. body(Owned, t) \subseteq Path
    BY <2>1, <1>0
  <2> QED BY <2>2, <1>5
<1>7. \A t \in Universe : t \in S
  <2> HIDE DEF S
  <2> QED BY <1>6, RankInduction DEF Ranked
<1> QED BY <1>5, <1>7

LEMMA RegisterIs ==
  ASSUME NEW rank, Ranked(rank)
  PROVE  /\ register_inner_linear = [t \in Universe |->
              IF t.kind \in {"scalar", "function"} THEN {}
              ELSE UNION {{<<<<i>>, IF t.kind = "pointer" THEN "Consumed" ELSE "Unconsumed">>}
                            \cup (IF t.inner[i].linear THEN {}
                                  ELSE Below(i, register_inner_linear[t.inner[i]])) :
                          i \in {j \in DOMAIN t.inner : containsLinearTypes[t.inner[j]]}}]
         /\ \A t \in Universe : register_inner_linear[t] \subseteq Path \X States
<1> DEFINE mark(t) == IF t.kind = "pointer" THEN "Consumed" ELSE "Unconsumed"
           part(f, t, i) == {<<<<i>>, mark(t)>>}
                              \cup (IF t.inner[i].linear THEN {} ELSE Below(i, f[t.inner[i]]))
           body(f, t) == IF t.kind \in {"scalar", "function"} THEN {}
                         ELSE UNION {part(f, t, i) :
                                i \in {j \in DOMAIN t.inner : containsLinearTypes[t.inner[j]]}}
           F == SUBSET (Path \X States)
           G == [f \in [Universe -> F] |-> [t \in Universe |-> body(f, t)]]
<1>0. ASSUME NEW f, NEW t \in Universe, \A i \in DOMAIN t.inner : f[t.inner[i]] \in F
      PROVE  body(f, t) \in F
  <2>1. ASSUME NEW i \in DOMAIN t.inner PROVE part(f, t, i) \in F
    <3>1. i \in Nat /\ f[t.inner[i]] \in F
      BY <1>0, Parts
    <3>2. <<i>> \in Path /\ mark(t) \in States
      BY <3>1, TopPath DEF States
    <3>3. ASSUME NEW k \in f[t.inner[i]] PROVE <<<<i>> \o k[1], k[2]>> \in Path \X States
      <4>1. k[1] \in Path /\ k[2] \in States
        BY <3>1
      <4> QED BY <3>1, <4>1, Deeper
    <3>4. Below(i, f[t.inner[i]]) \in F
      BY <3>3 DEF Below
    <3> HIDE DEF mark
    <3>5. {<<<<i>>, mark(t)>>} \in F
      BY <3>2
    <3> QED BY <3>4, <3>5
  <2> HIDE DEF part
  <2> QED BY <2>1
<1>1. G \in [[Universe -> F] -> [Universe -> F]]
  <2>1. ASSUME NEW f \in [Universe -> F], NEW t \in Universe PROVE body(f, t) \in F
    <3>1. \A i \in DOMAIN t.inner : f[t.inner[i]] \in F
      BY Parts
    <3> HIDE DEF body, F
    <3> QED BY <3>1, <1>0
  <2> HIDE DEF body, F
  <2> QED BY <2>1
<1>2. ASSUME NEW t \in Universe, NEW f \in [Universe -> F], NEW h \in [Universe -> F],
             \A u \in Universe : rank[u] < rank[t] => f[u] = h[u]
      PROVE  G[f][t] = G[h][t]
  <2>1. \A i \in DOMAIN t.inner : f[t.inner[i]] = h[t.inner[i]]
    BY <1>2, Parts DEF Ranked
  <2>2. \A i \in DOMAIN t.inner : part(f, t, i) = part(h, t, i)
    BY <2>1
  <2> HIDE DEF part
  <2>3. body(f, t) = body(h, t)
    BY <2>2
  <2> HIDE DEF body, F
  <2> QED BY <2>3
<1>3. \E f \in [Universe -> F] : f = G[f]
  <2>1. F # {} /\ rank \in [Universe -> Nat]
    BY DEF Ranked
  <2> HIDE DEF G, F
  <2>2. LooksBelow(G, Universe, F, rank)
    BY <1>1, <1>2 DEF LooksBelow
  <2> QED BY <2>1, <2>2, RankedRecursion
<1>4. \E f : f = [t \in Universe |-> body(f, t)]
  <2> HIDE DEF body, F
  <2> QED BY <1>3
<1>5. register_inner_linear = [t \in Universe |-> body(register_inner_linear, t)]
  BY <1>4 DEF register_inner_linear
<1> DEFINE S == {t \in Universe : register_inner_linear[t] \in F}
<1>6. ASSUME NEW t \in Universe, \A u \in Universe : rank[u] < rank[t] => u \in S
      PROVE  t \in S
  <2>1. \A i \in DOMAIN t.inner : register_inner_linear[t.inner[i]] \in F
    BY <1>6, Parts DEF Ranked
  <2> HIDE DEF body, F
  <2>2. body(register_inner_linear, t) \in F
    BY <2>1, <1>0
  <2> QED BY <2>2, <1>5
<1>7. \A t \in Universe : t \in S
  <2> HIDE DEF S
  <2> QED BY <1>6, RankInduction DEF Ranked
<1> QED BY <1>5, <1>7

LEMMA ContainsPart ==
  ASSUME NEW rank, Ranked(rank), NEW t \in Universe
  PROVE  /\ containsLinearTypes[t] <=>
              t.linear \/ \E i \in DOMAIN t.inner : containsLinearTypes[t.inner[i]]
         /\ NoPointerToLinear[t] <=>
              \A i \in DOMAIN t.inner : /\ t.kind = "pointer" => ~containsLinearTypes[t.inner[i]]
                                        /\ NoPointerToLinear[t.inner[i]]
         /\ NoLinearFunction[t] <=>
              /\ t.kind = "function" => ~containsLinearTypes[t]
              /\ \A i \in DOMAIN t.inner : NoLinearFunction[t.inner[i]]
<1> DEFINE C(u) == u.linear \/ \E i \in DOMAIN u.inner : containsLinearTypes[u.inner[i]]
           P(u) == \A i \in DOMAIN u.inner : /\ u.kind = "pointer" => ~containsLinearTypes[u.inner[i]]
                                             /\ NoPointerToLinear[u.inner[i]]
           N(u) == /\ u.kind = "function" => ~containsLinearTypes[u]
                   /\ \A i \in DOMAIN u.inner : NoLinearFunction[u.inner[i]]
<1>1. containsLinearTypes = [u \in Universe |-> C(u)]
  BY ContainsIs
<1>2. NoPointerToLinear = [u \in Universe |-> P(u)]
  BY NoPointerIs
<1>3. NoLinearFunction = [u \in Universe |-> N(u)]
  BY NoFunctionIs
<1> HIDE DEF C, P, N
<1>4. containsLinearTypes[t] = C(t) /\ NoPointerToLinear[t] = P(t) /\ NoLinearFunction[t] = N(t)
  BY <1>1, <1>2, <1>3
<1> QED BY Zenon, <1>4 DEF C, P, N

LEMMA OwnedPart ==
  ASSUME NEW rank, Ranked(rank), NEW t \in Universe, NEW p
  PROVE  p \in Owned[t] <=>
           \/ t.linear /\ p = <<>>
           \/ /\ ~t.linear /\ t.kind \notin {"pointer", "function"}
              /\ \E i \in DOMAIN t.inner : \E q \in Owned[t.inner[i]] : p = <<i>> \o q
<1> DEFINE part(i) == {<<i>> \o q : q \in Owned[t.inner[i]]}
           parts == UNION {part(i) : i \in DOMAIN t.inner}
<1>1. Owned[t] = IF t.linear THEN {<<>>}
                 ELSE IF t.kind \in {"pointer", "function"} THEN {} ELSE parts
  BY OwnedIs
<1>2. \A i : p \in part(i) <=> \E q \in Owned[t.inner[i]] : p = <<i>> \o q
  OBVIOUS
<1> HIDE DEF part
<1>3. p \in parts <=> \E i \in DOMAIN t.inner : p \in part(i)
  OBVIOUS
<1> HIDE DEF parts
<1> QED BY <1>1, <1>2, <1>3

Mark(t) == IF t.kind = "pointer" THEN "Consumed" ELSE "Unconsumed"

\* The pair k is registered for the i-th part of t, or below it.
RegisteredAt(t, i, k) ==
  /\ containsLinearTypes[t.inner[i]]
  /\ \/ k = <<<<i>>, Mark(t)>>
     \/ /\ ~t.inner[i].linear
        /\ \E l \in register_inner_linear[t.inner[i]] : k = <<<<i>> \o l[1], l[2]>>

LEMMA RegisteredPart ==
  ASSUME NEW rank, Ranked(rank), NEW t \in Universe, NEW k
  PROVE  k \in register_inner_linear[t] <=>
           /\ t.kind \notin {"scalar", "function"}
           /\ \E i \in DOMAIN t.inner : RegisteredAt(t, i, k)
<1> DEFINE part(i) == {<<<<i>>, Mark(t)>>}
                        \cup (IF t.inner[i].linear THEN {} ELSE Below(i, register_inner_linear[t.inner[i]]))
           parts == UNION {part(i) : i \in {j \in DOMAIN t.inner : containsLinearTypes[t.inner[j]]}}
<1>1. register_inner_linear[t] = IF t.kind \in {"scalar", "function"} THEN {} ELSE parts
  BY RegisterIs DEF Mark
<1>2. ASSUME NEW i
      PROVE  k \in part(i) <=>
               \/ k = <<<<i>>, Mark(t)>>
               \/ /\ ~t.inner[i].linear
                  /\ \E l \in register_inner_linear[t.inner[i]] : k = <<<<i>> \o l[1], l[2]>>
  <2> DEFINE m == Mark(t)
  <2> HIDE DEF m
  <2>1. k \in Below(i, register_inner_linear[t.inner[i]])
          <=> \E l \in register_inner_linear[t.inner[i]] : k = <<<<i>> \o l[1], l[2]>>
    BY DEF Below
  <2> QED BY <2>1 DEF m
<1>3. k \in parts <=> \E i \in DOMAIN t.inner : containsLinearTypes[t.inner[i]] /\ k \in part(i)
  <2> HIDE DEF part
  <2> QED OBVIOUS
<1>4. \A i : RegisteredAt(t, i, k) <=> containsLinearTypes[t.inner[i]] /\ k \in part(i)
  BY <1>2 DEF RegisteredAt
<1> HIDE DEF part, parts
<1> QED BY <1>1, <1>3, <1>4

-----------------------------------------------------------------------------
(* What is owned and what is registered *)

\* Only what contains linear types owns something.
LEMMA OwnersAreLinear ==
  ASSUME NEW rank, Ranked(rank)
  PROVE  \A t \in Universe : Owned[t] # {} => containsLinearTypes[t]
<1> DEFINE S == {t \in Universe : Owned[t] # {} => containsLinearTypes[t]}
<1>1. ASSUME NEW t \in Universe, \A u \in Universe : rank[u] < rank[t] => u \in S
      PROVE  t \in S
  <2>1. SUFFICES ASSUME NEW p \in Owned[t] PROVE containsLinearTypes[t]
    OBVIOUS
  <2>2. CASE t.linear
    BY <2>2, ContainsPart
  <2>3. CASE ~t.linear
    <3>1. PICK i \in DOMAIN t.inner : \E q \in Owned[t.inner[i]] : p = <<i>> \o q
      BY <2>1, <2>3, OwnedPart
    <3>2. t.inner[i] \in S /\ Owned[t.inner[i]] # {}
      BY <3>1, <1>1, Parts DEF Ranked
    <3> QED BY <3>2, ContainsPart
  <2> QED BY <2>2, <2>3
<1> HIDE DEF S
<1>2. \A t \in Universe : t \in S
  BY <1>1, RankInduction DEF Ranked
<1> QED BY <1>2 DEF S

\* Without pointers to linear values each owned path is the path of a leaf, and
\* all that is registered starts unconsumed.
OwnsLeaves(t) ==
  NoPointerToLinear[t] =>
    /\ \A p \in Owned[t] : /\ t.linear \/ p \in Paths(t)
                           /\ \A k \in register_inner_linear[t] : ~IsStrictPrefix(p, k[1])
    /\ \A k \in register_inner_linear[t] : k[2] = "Unconsumed"
    /\ t.kind = "pointer" => register_inner_linear[t] = {}

LEMMA OwnedAreLeaves ==
  ASSUME NEW rank, Ranked(rank)
  PROVE  \A t \in Universe : OwnsLeaves(t)
<1> DEFINE S == {t \in Universe : OwnsLeaves(t)}
<1>1. ASSUME NEW t \in Universe, \A u \in Universe : rank[u] < rank[t] => u \in S, NoPointerToLinear[t]
      PROVE  t \in S
  <2>1. ASSUME NEW i \in DOMAIN t.inner
        PROVE  /\ i \in Nat /\ t.inner[i] \in Universe /\ OwnsLeaves(t.inner[i])
               /\ NoPointerToLinear[t.inner[i]]
               /\ t.kind = "pointer" => ~containsLinearTypes[t.inner[i]]
    BY <1>1, Parts, ContainsPart DEF Ranked
  <2>2. ASSUME t.kind = "pointer" PROVE register_inner_linear[t] = {}
    BY <2>1, <2>2, RegisteredPart DEF RegisteredAt
  <2>3. ASSUME NEW k \in register_inner_linear[t] PROVE k[2] = "Unconsumed"
    <3>1. t.kind # "pointer"
      BY <2>2, <2>3
    <3>2. PICK i \in DOMAIN t.inner : RegisteredAt(t, i, k)
      BY <2>3, RegisteredPart
    <3>3. CASE k = <<<<i>>, Mark(t)>>
      BY <3>1, <3>3 DEF Mark
    <3>4. ASSUME NEW l \in register_inner_linear[t.inner[i]], k = <<<<i>> \o l[1], l[2]>>
          PROVE  k[2] = "Unconsumed"
      <4>1. l[2] = "Unconsumed"
        BY <2>1 DEF OwnsLeaves
      <4> QED BY <3>4, <4>1
    <3> QED BY <3>2, <3>3, <3>4 DEF RegisteredAt
  <2>4. ASSUME NEW p \in Owned[t]
        PROVE  /\ t.linear \/ p \in Paths(t)
               /\ \A k \in register_inner_linear[t] : ~IsStrictPrefix(p, k[1])
    <3>1. CASE t.linear
      <4>1. register_inner_linear[t] = {}
        BY <3>1, <2>2, Parts
      <4> QED BY <3>1, <4>1
    <3>2. CASE ~t.linear
      <4>0. PICK i \in DOMAIN t.inner : \E q \in Owned[t.inner[i]] : p = <<i>> \o q
        BY <2>4, <3>2, OwnedPart
      <4>1. PICK q \in Owned[t.inner[i]] : p = <<i>> \o q
        BY <4>0
      <4> DEFINE u == t.inner[i]
      <4>2. /\ i \in Nat /\ u \in Universe /\ OwnsLeaves(u) /\ NoPointerToLinear[u]
            /\ containsLinearTypes[u] /\ t.kind \notin {"scalar", "function", "pointer"}
        BY <2>1, <4>1, <2>4, <3>2, OwnersAreLinear, OwnedPart, Parts
      <4>3. q \in Path /\ p \in Path
        BY <4>1, <4>2, <2>4, OwnedIs
      <4>4. CASE u.linear
        <5>1. q = <<>> /\ p = <<i>>
          BY <4>1, <4>2, <4>4, OwnedPart, TopPath
        <5>2. <<<<i>>, Mark(t)>> \in register_inner_linear[t]
          BY <4>2, RegisteredPart DEF RegisteredAt
        <5>3. p \in Paths(t)
          <6>1. <<<<i>>, Mark(t)>>[1] = p
            BY <5>1
          <6> QED BY <5>2, <6>1 DEF Paths
        <5>4. ASSUME NEW k \in register_inner_linear[t] PROVE ~IsStrictPrefix(p, k[1])
          <6>1. PICK j \in DOMAIN t.inner : RegisteredAt(t, j, k)
            BY <5>4, RegisteredPart
          <6>2. j \in Nat /\ t.inner[j] \in Universe
            BY <2>1
          <6>3. CASE k = <<<<j>>, Mark(t)>>
            <7>1. k[1] = <<j>> \o <<>> /\ p = <<i>> \o <<>> /\ <<>> \in Path
              BY <6>2, <6>3, <5>1, <4>2, TopPath
            <7>2. IsPrefix(p, k[1]) => i = j
              BY <7>1, <6>2, <4>2, DeeperPrefix
            <7> QED BY <7>1, <7>2 DEF IsStrictPrefix
          <6>4. ASSUME ~t.inner[j].linear,
                       NEW l \in register_inner_linear[t.inner[j]], k = <<<<j>> \o l[1], l[2]>>
                PROVE  ~IsStrictPrefix(p, k[1])
            <7>1. l[1] \in Path
              BY <6>2, <6>4, RegisterIs
            <7>2. k[1] = <<j>> \o l[1] /\ p = <<i>> \o <<>> /\ <<>> \in Path
              BY <6>4, <5>1, <4>2, TopPath
            <7>3. IsPrefix(p, k[1]) => i = j
              BY <7>1, <7>2, <6>2, <4>2, DeeperPrefix
            <7> QED BY <7>3, <6>4, <4>4 DEF IsStrictPrefix
          <6> QED BY <6>1, <6>3, <6>4 DEF RegisteredAt
        <5> QED BY <5>3, <5>4
      <4>5. CASE ~u.linear
        <5>1. q \in Paths(u) /\ \A l \in register_inner_linear[u] : ~IsStrictPrefix(q, l[1])
          BY <4>1, <4>2, <4>5 DEF OwnsLeaves
        <5>2. p \in Paths(t)
          <6>1. PICK l \in register_inner_linear[u] : q = l[1]
            BY <5>1 DEF Paths
          <6>2. <<<<i>> \o l[1], l[2]>> \in register_inner_linear[t]
            BY <6>1, <4>2, <4>5, RegisteredPart DEF RegisteredAt
          <6>3. <<<<i>> \o l[1], l[2]>>[1] = p
            BY <6>1, <4>1
          <6> QED BY <6>2, <6>3 DEF Paths
        <5>3. ASSUME NEW k \in register_inner_linear[t] PROVE ~IsStrictPrefix(p, k[1])
          <6>1. PICK j \in DOMAIN t.inner : RegisteredAt(t, j, k)
            BY <5>3, RegisteredPart
          <6>2. j \in Nat /\ t.inner[j] \in Universe
            BY <2>1
          <6>3. CASE k = <<<<j>>, Mark(t)>>
            <7>1. k[1] = <<j>> \o <<>> /\ <<>> \in Path
              BY <6>2, <6>3, TopPath
            <7>2. IsPrefix(p, k[1]) => i = j /\ IsPrefix(q, <<>>)
              <8>1. IsPrefix(<<i>> \o q, <<j>> \o <<>>) => i = j /\ IsPrefix(q, <<>>)
                BY <7>1, <6>2, <4>2, <4>3, DeeperPrefix
              <8> QED BY <8>1, <7>1, <4>1
            <7>3. IsPrefix(p, k[1]) => i = j /\ q = <<>>
              BY <7>2, <4>3, TopPath
            <7> QED BY <7>1, <7>3, <4>1 DEF IsStrictPrefix
          <6>4. ASSUME NEW l \in register_inner_linear[t.inner[j]], k = <<<<j>> \o l[1], l[2]>>
                PROVE  ~IsStrictPrefix(p, k[1])
            <7>1. l[1] \in Path /\ k[1] = <<j>> \o l[1]
              BY <6>2, <6>4, RegisterIs
            <7>2. IsPrefix(p, k[1]) => i = j /\ IsPrefix(q, l[1])
              <8>1. \A x \in Path : IsPrefix(<<i>> \o q, <<j>> \o x) => i = j /\ IsPrefix(q, x)
                BY <6>2, <4>2, <4>3, DeeperPrefix
              <8> QED BY <8>1, <7>1, <4>1
            <7>3. i = j => ~IsStrictPrefix(q, l[1])
              BY <5>1, <6>4
            <7> QED BY <7>1, <7>2, <7>3, <4>1 DEF IsStrictPrefix
          <6> QED BY <6>1, <6>3, <6>4 DEF RegisteredAt
        <5> QED BY <5>2, <5>3
      <4> QED BY <4>4, <4>5
    <3> QED BY <3>1, <3>2
  <2> QED BY <2>2, <2>3, <2>4 DEF OwnsLeaves
<1>2. ASSUME NEW t \in Universe, ~NoPointerToLinear[t] PROVE t \in S
  BY <1>2 DEF OwnsLeaves
<1> HIDE DEF S
<1>3. \A t \in Universe : t \in S
  BY <1>1, <1>2, RankInduction DEF Ranked
<1> QED BY <1>3 DEF S

LEMMA RegisteredNotTop ==
  ASSUME NEW rank, Ranked(rank), NEW t \in Universe
  PROVE  \A k \in register_inner_linear[t] :
           /\ k = <<k[1], k[2]>> /\ k[1] \in Path /\ k[2] \in States /\ k[1] # <<>>
<1>1. ASSUME NEW k \in register_inner_linear[t] PROVE k[1] # <<>>
  <2>1. PICK i \in DOMAIN t.inner : RegisteredAt(t, i, k)
    BY <1>1, RegisteredPart
  <2>2. i \in Nat /\ t.inner[i] \in Universe
    BY Parts
  <2>3. CASE k = <<<<i>>, Mark(t)>>
    BY <2>3
  <2>4. ASSUME NEW l \in register_inner_linear[t.inner[i]], k = <<<<i>> \o l[1], l[2]>>
        PROVE  k[1] # <<>>
    <3>1. l[1] \in Path
      BY <2>2, RegisterIs
    <3>2. \A x \in Path : <<i>> \o x # <<>>
      BY <2>2, TopPath
    <3> QED BY <3>1, <3>2, <2>4
  <2> QED BY <2>1, <2>3, <2>4 DEF RegisteredAt
<1>2. \A k \in register_inner_linear[t] : k \in Path \X States
  BY RegisterIs
<1>3. \A k \in Path \X States : k = <<k[1], k[2]>> /\ k[1] \in Path /\ k[2] \in States
  OBVIOUS
<1> QED BY <1>1, <1>2, <1>3

LEMMA PartIsPrefix ==
  ASSUME NEW rank, Ranked(rank), NEW t \in Universe, NEW i \in DOMAIN t.inner, NEW k,
         RegisteredAt(t, i, k)
  PROVE  IsPrefix(<<i>>, k[1])
<1>1. i \in Nat /\ t.inner[i] \in Universe /\ <<i>> \in Path /\ <<i>> = <<i>> \o <<>> /\ <<>> \in Path
  BY Parts, TopPath
<1>2. CASE k = <<<<i>>, Mark(t)>>
  BY <1>1, <1>2, TopPath
<1>3. ASSUME NEW l \in register_inner_linear[t.inner[i]], k = <<<<i>> \o l[1], l[2]>>
      PROVE  IsPrefix(<<i>>, k[1])
  <2>1. l[1] \in Path
    BY <1>1, RegisteredNotTop
  <2>2. \A x \in Path : IsPrefix(<<i>> \o <<>>, <<i>> \o x) <=> IsPrefix(<<>>, x)
    BY <1>1, SamePart
  <2>3. IsPrefix(<<>>, l[1]) /\ k[1] = <<i>> \o l[1]
    BY <2>1, TopPath, <1>3
  <2> QED BY <2>1, <2>2, <2>3, <1>1
<1> QED BY <1>2, <1>3 DEF RegisteredAt

\* A path is registered once.
LEMMA RegisteredOnce ==
  ASSUME NEW rank, Ranked(rank)
  PROVE  \A t \in Universe : \A k, l \in register_inner_linear[t] : k[1] = l[1] => k = l
<1> DEFINE S == {t \in Universe : \A k, l \in register_inner_linear[t] : k[1] = l[1] => k = l}
<1>1. ASSUME NEW t \in Universe, \A u \in Universe : rank[u] < rank[t] => u \in S,
             NEW k \in register_inner_linear[t], NEW l \in register_inner_linear[t], k[1] = l[1]
      PROVE  k = l
  <2>1. PICK i \in DOMAIN t.inner : RegisteredAt(t, i, k)
    BY <1>1, RegisteredPart
  <2>2. PICK j \in DOMAIN t.inner : RegisteredAt(t, j, l)
    BY <1>1, RegisteredPart
  <2>3. /\ i \in Nat /\ j \in Nat /\ t.inner[i] \in Universe /\ t.inner[j] \in Universe
        /\ \A m, n \in register_inner_linear[t.inner[i]] : m[1] = n[1] => m = n
    BY <1>1, Parts DEF Ranked
  <2> DEFINE top(n, x)  == x = <<<<n>>, Mark(t)>>
             deep(n, x) == \E m \in register_inner_linear[t.inner[n]] : x = <<<<n>> \o m[1], m[2]>>
  <2>4. (top(i, k) \/ deep(i, k)) /\ (top(j, l) \/ deep(j, l))
    BY <2>1, <2>2 DEF RegisteredAt
  <2>5. \A x, y \in Path : <<i>> \o x = <<j>> \o y => i = j /\ x = y
    BY <2>3, DeeperPrefix, SMTT(30)
  <2>6. <<>> \in Path /\ <<i>> = <<i>> \o <<>> /\ <<j>> = <<j>> \o <<>>
    BY <2>3, TopPath
  <2>7. \A m \in register_inner_linear[t.inner[i]] : m[1] \in Path /\ m[1] # <<>>
    BY <2>3, RegisteredNotTop
  <2>8. \A m \in register_inner_linear[t.inner[j]] : m[1] \in Path /\ m[1] # <<>>
    BY <2>3, RegisteredNotTop
  <2>9. CASE top(i, k) /\ top(j, l)
    <3>1. i = j
      BY <1>1, <2>5, <2>6, <2>9
    <3> QED BY <3>1, <2>9
  <2>10. CASE top(i, k) /\ deep(j, l)
    <3>1. PICK m \in register_inner_linear[t.inner[j]] : l = <<<<j>> \o m[1], m[2]>>
      BY <2>10
    <3>2. <<i>> \o <<>> = <<j>> \o m[1]
      BY <1>1, <2>6, <2>10, <3>1
    <3> QED BY <3>2, <2>5, <2>6, <2>8
  <2>11. CASE deep(i, k) /\ top(j, l)
    <3>1. PICK m \in register_inner_linear[t.inner[i]] : k = <<<<i>> \o m[1], m[2]>>
      BY <2>11
    <3>2. <<i>> \o m[1] = <<j>> \o <<>>
      BY <1>1, <2>6, <2>11, <3>1
    <3> QED BY <3>2, <2>5, <2>6, <2>7
  <2>12. CASE deep(i, k) /\ deep(j, l)
    <3>1. PICK m \in register_inner_linear[t.inner[i]] : k = <<<<i>> \o m[1], m[2]>>
      BY <2>12
    <3>2. PICK n \in register_inner_linear[t.inner[j]] : l = <<<<j>> \o n[1], n[2]>>
      BY <2>12
    <3>3. <<i>> \o m[1] = <<j>> \o n[1]
      BY <1>1, <3>1, <3>2
    <3>4. i = j /\ m[1] = n[1]
      BY <3>3, <2>5, <2>7, <2>8
    <3>5. m = n
      BY <3>4, <2>3
    <3> QED BY <3>1, <3>2, <3>4, <3>5
  <2> HIDE DEF top, deep
  <2> QED BY <2>4, <2>9, <2>10, <2>11, <2>12
<1>2. ASSUME NEW t \in Universe, \A u \in Universe : rank[u] < rank[t] => u \in S  PROVE t \in S
  BY <1>1, <1>2
<1> HIDE DEF S
<1>3. \A t \in Universe : t \in S
  BY <1>2, RankInduction DEF Ranked
<1> QED BY <1>3 DEF S

\* A value that contains linear types has a part registered, unless it is a
\* linear pointer itself.
LEMMA SomethingRegistered ==
  ASSUME NEW rank, Ranked(rank), NEW t \in Universe,
         containsLinearTypes[t], ~t.linear, NoLinearFunction[t]
  PROVE  \E i \in DOMAIN t.inner : <<<<i>>, Mark(t)>> \in register_inner_linear[t]
<1>1. PICK i \in DOMAIN t.inner : containsLinearTypes[t.inner[i]]
  BY ContainsPart
<1>2. t.kind \notin {"scalar", "function"}
  BY <1>1, Parts, ContainsPart
<1> QED BY <1>1, <1>2, RegisteredPart DEF RegisteredAt

\* Without functions of linear values, a leaf that starts unconsumed, and all
\* above it, is the path of something owned.
StartsLive(t, p) ==
  /\ p \in Paths(t)
  /\ \A l \in register_inner_linear[t] :
       /\ ~IsStrictPrefix(p, l[1])
       /\ IsPrefix(l[1], p) => l[2] = "Unconsumed"

LEMMA LeavesAreOwned ==
  ASSUME NEW rank, Ranked(rank)
  PROVE  \A t \in Universe :
           NoLinearFunction[t] /\ ~t.linear => \A p : StartsLive(t, p) => p \in Owned[t]
<1> DEFINE S == {t \in Universe :
                   NoLinearFunction[t] /\ ~t.linear => \A p : StartsLive(t, p) => p \in Owned[t]}
<1>1. ASSUME NEW t \in Universe, \A u \in Universe : rank[u] < rank[t] => u \in S,
             NoLinearFunction[t], ~t.linear, NEW p, StartsLive(t, p)
      PROVE  p \in Owned[t]
  <2>1. PICK k \in register_inner_linear[t] : k[1] = p
    BY <1>1 DEF StartsLive, Paths
  <2>2. PICK i \in DOMAIN t.inner : RegisteredAt(t, i, k)
    BY <2>1, RegisteredPart
  <2> DEFINE u == t.inner[i]
  <2>3. /\ i \in Nat /\ u \in Universe /\ u \in S /\ NoLinearFunction[u]
        /\ containsLinearTypes[u] /\ <<i>> \in Path /\ <<i>> = <<i>> \o <<>> /\ <<>> \in Path
    BY <1>1, <2>2, Parts, ContainsPart, TopPath DEF Ranked, RegisteredAt
  <2>4. <<<<i>>, Mark(t)>> \in register_inner_linear[t]
    BY <2>1, <2>3, RegisteredPart DEF RegisteredAt
  <2>5. IsPrefix(<<i>>, p)
    BY <2>1, <2>2, PartIsPrefix
  <2>6. t.kind \notin {"pointer", "function"}
    <3>1. \A l \in register_inner_linear[t] : IsPrefix(l[1], p) => l[2] = "Unconsumed"
      BY <1>1 DEF StartsLive
    <3>2. Mark(t) = "Unconsumed"
      BY <3>1, <2>4, <2>5
    <3> QED BY <3>2, <2>1, RegisteredPart DEF Mark
  <2>7. CASE u.linear
    <3>1. k = <<<<i>>, Mark(t)>>
      BY <2>2, <2>7 DEF RegisteredAt
    <3>2. p = <<i>> \o <<>> /\ <<>> \in Owned[u]
      BY <2>1, <3>1, <2>3, <2>7, OwnedPart
    <3> QED BY <3>2, <2>6, <1>1, OwnedPart
  <2>8. CASE ~u.linear
    <3>1. PICK j \in DOMAIN u.inner : <<<<j>>, Mark(u)>> \in register_inner_linear[u]
      BY <2>3, <2>8, SomethingRegistered
    <3>2. PICK l \in register_inner_linear[u] : k = <<<<i>> \o l[1], l[2]>>
      <4>1. <<<<i>> \o <<j>>, Mark(u)>> \in register_inner_linear[t]
        <5> DEFINE x == <<<<j>>, Mark(u)>>
        <5>1. x \in register_inner_linear[u] /\ x[1] = <<j>> /\ x[2] = Mark(u)
          BY <3>1
        <5> HIDE DEF x
        <5>2. <<<<i>> \o x[1], x[2]>> \in register_inner_linear[t]
          BY <5>1, <2>1, <2>3, <2>8, RegisteredPart DEF RegisteredAt
        <5> QED BY <5>1, <5>2
      <4>2. ~IsStrictPrefix(p, <<i>> \o <<j>>)
        <5> DEFINE x == <<<<i>> \o <<j>>, Mark(u)>>
        <5>1. x \in register_inner_linear[t] /\ x[1] = <<i>> \o <<j>>
          BY <4>1
        <5> HIDE DEF x
        <5>2. ~IsStrictPrefix(p, x[1])
          BY <5>1, <1>1 DEF StartsLive
        <5> QED BY <5>1, <5>2
      <4>3. k # <<<<i>>, Mark(t)>>
        <5>1. <<j>> \in Path /\ IsPrefix(<<>>, <<j>>) /\ <<j>> # <<>>
          BY <2>3, Parts, TopPath
        <5>2. IsPrefix(<<i>> \o <<>>, <<i>> \o <<j>>) /\ <<i>> \o <<>> # <<i>> \o <<j>>
          BY <5>1, <2>3, SamePart
        <5> QED BY <5>2, <4>2, <2>1, <2>3 DEF IsStrictPrefix
      <4> QED BY <4>3, <2>2 DEF RegisteredAt
    <3>3. l[1] \in Path /\ p = <<i>> \o l[1] /\ l[1] \in Paths(u)
      BY <3>2, <2>1, <2>3, RegisteredNotTop DEF Paths
    <3>4. ASSUME NEW m \in register_inner_linear[u]
          PROVE  /\ ~IsStrictPrefix(l[1], m[1])
                 /\ IsPrefix(m[1], l[1]) => m[2] = "Unconsumed"
      <4>1. <<<<i>> \o m[1], m[2]>> \in register_inner_linear[t]
        BY <2>1, <2>3, <2>8, RegisteredPart DEF RegisteredAt
      <4>2. m[1] \in Path
        BY <2>3, RegisteredNotTop
      <4>3. /\ ~IsStrictPrefix(p, <<i>> \o m[1])
            /\ IsPrefix(<<i>> \o m[1], p) => m[2] = "Unconsumed"
        <5> DEFINE x == <<<<i>> \o m[1], m[2]>>
        <5>1. x \in register_inner_linear[t] /\ x[1] = <<i>> \o m[1] /\ x[2] = m[2]
          BY <4>1
        <5> HIDE DEF x
        <5>2. ~IsStrictPrefix(p, x[1]) /\ (IsPrefix(x[1], p) => x[2] = "Unconsumed")
          BY <5>1, <1>1 DEF StartsLive
        <5> QED BY <5>1, <5>2
      <4>4. \A x, y \in Path : /\ IsPrefix(<<i>> \o x, <<i>> \o y) <=> IsPrefix(x, y)
                               /\ <<i>> \o x = <<i>> \o y <=> x = y
        BY <2>3, SamePart
      <4> QED BY <4>2, <4>3, <4>4, <3>3 DEF IsStrictPrefix
    <3>5. l[1] \in Owned[u]
      BY <3>3, <3>4, <2>3, <2>8 DEF StartsLive
    <3> QED BY <3>3, <3>5, <2>6, <1>1, OwnedPart
  <2> QED BY <2>7, <2>8
<1>2. ASSUME NEW t \in Universe, \A u \in Universe : rank[u] < rank[t] => u \in S  PROVE t \in S
  BY <1>1, <1>2
<1> HIDE DEF S
<1>3. \A t \in Universe : t \in S
  BY <1>2, RankInduction DEF Ranked
<1> QED BY <1>3 DEF S

-----------------------------------------------------------------------------
(* The tree of a fresh variable *)

LEMMA FreshTree ==
  ASSUME NEW rank, Ranked(rank), NEW t \in Universe, NEW d, d = register_if_linear(t)
  PROVE  /\ d \in [DOMAIN d -> States] /\ DOMAIN d \subseteq Path
         /\ ~containsLinearTypes[t] => DOMAIN d = {}
         /\ containsLinearTypes[t] =>
              /\ DOMAIN d = {<<>>} \cup Paths(t)
              /\ d[<<>>] = "Unconsumed"
              /\ \A k \in register_inner_linear[t] : d[k[1]] = k[2]
<1>1. CASE ~containsLinearTypes[t]
  <2>1. d = <<>>
    BY <1>1 DEF register_if_linear
  <2>2. DOMAIN d = {}
    BY <2>1
  <2>3. d \in [DOMAIN d -> States]
    BY <2>1, <2>2
  <2> QED BY <1>1, <2>2, <2>3
<1>2. CASE containsLinearTypes[t]
  <2> DEFINE kids == register_inner_linear[t]
             val(p) == IF p = <<>> THEN "Unconsumed" ELSE (CHOOSE k \in kids : k[1] = p)[2]
             D == {<<>>} \cup Paths(t)
  <2>1. d = [p \in D |-> val(p)]
    BY <1>2 DEF register_if_linear, Paths
  <2>2. ASSUME NEW k \in kids PROVE val(k[1]) = k[2]
    <3>1. k[1] # <<>>
      BY RegisteredNotTop
    <3>2. PICK l \in kids : l = CHOOSE m \in kids : m[1] = k[1]
      OBVIOUS
    <3>3. l[1] = k[1] /\ val(k[1]) = l[2]
      BY <3>1, <3>2
    <3>4. l = k
      BY <3>3, RegisteredOnce
    <3> QED BY <3>3, <3>4
  <2>3. val(<<>>) = "Unconsumed"
    OBVIOUS
  <2>4. ASSUME NEW p \in D PROVE val(p) \in States /\ p \in Path
    <3>1. CASE p = <<>>
      BY <3>1, <2>3, TopPath DEF States
    <3>2. CASE p \in Paths(t)
      <4>1. PICK k \in kids : p = k[1]
        BY <3>2 DEF Paths
      <4>2. val(k[1]) = k[2] /\ k[2] \in States /\ k[1] \in Path
        BY <2>2, RegisteredNotTop
      <4> HIDE DEF val
      <4> QED BY <4>1, <4>2
    <3> HIDE DEF val
    <3> QED BY <3>1, <3>2
  <2>5. \A k \in kids : k[1] \in D
    BY DEF Paths
  <2>6. <<>> \in D
    OBVIOUS
  <2> HIDE DEF val, D
  <2>7. d \in [D -> States] /\ DOMAIN d = D /\ D \subseteq Path
    BY <2>1, <2>4
  <2>8. d[<<>>] = "Unconsumed" /\ \A k \in kids : d[k[1]] = k[2]
    BY <2>1, <2>2, <2>3, <2>5, <2>6
  <2> QED BY <1>2, <2>7, <2>8 DEF D
<1> QED BY <1>1, <1>2

\* What the invariants say of a tree that keeps its paths.
LEMMA TreeOf ==
  ASSUME NEW rank, Ranked(rank), Shape
  PROVE  /\ ty \in Universe /\ DOMAIN info \subseteq Path /\ owed \subseteq Path
         /\ DOMAIN info # {} => containsLinearTypes[ty]
         /\ containsLinearTypes[ty] => DOMAIN info = {<<>>} \cup Paths(ty)
<1>1. ty \in Universe /\ owed \subseteq Path /\ DOMAIN info = DOMAIN register_if_linear(ty)
  BY DEF Shape
<1> QED BY <1>1, FreshTree

-----------------------------------------------------------------------------
(* The initial states *)

LEMMA Starts ==
  ASSUME NEW rank, Ranked(rank), Init
  PROVE  Shape /\ OwedIsSeen /\ SeenIsOwed
<1>0. ty \in Universe /\ info = register_if_linear(ty) /\ owed = Owned[ty] /\ open = TRUE /\ wrong = FALSE
  BY DEF Init
<1>1. Shape
  BY <1>0, FreshTree, OwnedIs DEF Shape
<1>2. OwedIsSeen
  <2>1. SUFFICES ASSUME NoPointerToLinear[ty]
                 PROVE  /\ \A p \in owed : /\ Leaf(DOMAIN info, p)
                                           /\ \A q \in DOMAIN info : IsPrefix(q, p) => info[q] = "Unconsumed"
                        /\ ty.linear => owed \subseteq {<<>>}
    BY <1>0 DEF OwedIsSeen
  <2>2. OwnsLeaves(ty)
    BY <1>0, OwnedAreLeaves
  <2>3. ASSUME NEW p \in owed
        PROVE  /\ Leaf(DOMAIN info, p)
               /\ \A q \in DOMAIN info : IsPrefix(q, p) => info[q] = "Unconsumed"
    <3>1. containsLinearTypes[ty] /\ p \in Path
      BY <1>0, <2>3, OwnersAreLinear, OwnedIs
    <3>2. /\ DOMAIN info = {<<>>} \cup Paths(ty) /\ info[<<>>] = "Unconsumed"
          /\ \A k \in register_inner_linear[ty] : info[k[1]] = k[2]
      BY <3>1, <1>0, FreshTree
    <3>3. p \in DOMAIN info
      BY <1>0, <2>1, <2>2, <2>3, <3>2, OwnedPart DEF OwnsLeaves
    <3>4. ASSUME NEW q \in DOMAIN info PROVE ~IsStrictPrefix(p, q)
      <4>1. CASE q = <<>>
        BY <4>1, <3>1, TopPath DEF IsStrictPrefix
      <4>2. CASE q \in Paths(ty)
        <5>1. PICK k \in register_inner_linear[ty] : k[1] = q
          BY <4>2 DEF Paths
        <5>2. ~IsStrictPrefix(p, k[1])
          BY <1>0, <2>1, <2>2, <2>3 DEF OwnsLeaves
        <5> QED BY <5>1, <5>2
      <4> QED BY <3>2, <4>1, <4>2
    <3>5. ASSUME NEW q \in DOMAIN info PROVE info[q] = "Unconsumed"
      <4>1. CASE q \in Paths(ty)
        <5>1. PICK k \in register_inner_linear[ty] : k[1] = q
          BY <4>1 DEF Paths
        <5>2. k[2] = "Unconsumed"
          BY <2>1, <2>2 DEF OwnsLeaves
        <5> QED BY <5>1, <5>2, <3>2
      <4> QED BY <3>2, <4>1
    <3> QED BY <3>3, <3>4, <3>5 DEF Leaf
  <2>4. ty.linear => owed \subseteq {<<>>}
    BY <1>0, OwnedPart
  <2> QED BY <2>3, <2>4
<1>3. SeenIsOwed
  <2>1. SUFFICES ASSUME NoLinearFunction[ty], <<>> \in DOMAIN info
                 PROVE  /\ ty.linear => <<>> \in owed
                        /\ \A p \in DOMAIN info : Live(p) => p \in owed
    BY DEF SeenIsOwed
  <2>2. ty.linear => <<>> \in owed
    BY <1>0, OwnedPart
  <2>3. ASSUME NEW p \in DOMAIN info, Live(p) PROVE p \in owed
    <3>1. containsLinearTypes[ty]
      BY <1>1, <2>1, TreeOf
    <3>2. /\ DOMAIN info = {<<>>} \cup Paths(ty)
          /\ \A k \in register_inner_linear[ty] : info[k[1]] = k[2]
      BY <3>1, <1>0, FreshTree
    <3>3. StartsLive(ty, p)
      <4>1. p \in Paths(ty)
        BY <2>3, <3>2 DEF Live
      <4>2. ASSUME NEW l \in register_inner_linear[ty]
            PROVE  ~IsStrictPrefix(p, l[1]) /\ (IsPrefix(l[1], p) => l[2] = "Unconsumed")
        <5>1. l[1] \in DOMAIN info /\ l[1] # <<>> /\ info[l[1]] = l[2]
          BY <1>0, <3>2, RegisteredNotTop DEF Paths
        <5> QED BY <5>1, <2>3 DEF Live, Leaf
      <4> QED BY <4>1, <4>2 DEF StartsLive
    <3>4. ~ty.linear
      <4>1. ASSUME ty.linear PROVE FALSE
        <5>1. ty.kind = "pointer" /\ Mark(ty) = "Consumed" /\ DOMAIN ty.inner = {1}
          BY <4>1, <1>0, Parts DEF Mark
        <5>2. PICK k \in register_inner_linear[ty] : k[1] = p
          BY <3>3 DEF StartsLive, Paths
        <5>3. RegisteredAt(ty, 1, k)
          BY <1>0, <5>1, <5>2, RegisteredPart
        <5>4. <<<<1>>, "Consumed">> \in register_inner_linear[ty]
          BY <1>0, <5>1, <5>2, <5>3, RegisteredPart DEF RegisteredAt
        <5>5. IsPrefix(<<1>>, p)
          BY <1>0, <5>1, <5>2, <5>3, PartIsPrefix
        <5>6. \A l \in register_inner_linear[ty] : IsPrefix(l[1], p) => l[2] = "Unconsumed"
          BY <3>3 DEF StartsLive
        <5> QED BY <5>4, <5>5, <5>6
      <4> QED BY <4>1, <1>0, Parts
    <3> QED BY <1>0, <2>1, <3>3, <3>4, LeavesAreOwned
  <2> QED BY <2>2, <2>3
<1> QED BY <1>1, <1>2, <1>3

-----------------------------------------------------------------------------
(* The steps *)

\* Moving a place, when it is found consumed and when it is not.
LEMMA ConsumeIs ==
  ASSUME NEW rank, Ranked(rank), Shape, NEW path \in DOMAIN info, ConsumePlace(path)
  PROVE  /\ info' = [info EXCEPT ![path] = "Consumed"]
         /\ owed' = {p \in owed : ~IsPrefix(path, p)}
         /\ ty' = ty /\ open' = open /\ open = TRUE /\ wrong' \in BOOLEAN
         /\ path \in Path /\ Len(path) <= 1
<1>1. info \in [DOMAIN info -> States] /\ path \in Path /\ wrong \in BOOLEAN
  BY TreeOf DEF Shape
<1>2. info' = [info EXCEPT ![path] = "Consumed"]
  <2>1. CASE info[path] = "Consumed"
    BY <2>1, <1>1 DEF ConsumePlace
  <2>2. CASE info[path] # "Consumed"
    BY <2>2 DEF ConsumePlace
  <2> QED BY <2>1, <2>2
<1>3. owed' = {p \in owed : ~IsPrefix(path, p)}
  BY DEF ConsumePlace, Under
<1>4. ty' = ty /\ open' = open /\ open = TRUE /\ wrong' \in BOOLEAN
  BY <1>1 DEF ConsumePlace, Shape
<1> QED BY <1>1, <1>2, <1>3, <1>4 DEF ConsumePlace

\* A place becomes consumed and what is owned shrinks; below the first level
\* the tree stays.
LEMMA ShapeKept ==
  ASSUME Shape, NEW path \in DOMAIN info, Len(path) <= 1, NEW s \in States,
         info' = [info EXCEPT ![path] = s],
         ty' = ty, owed' \subseteq Path, open' \in BOOLEAN, wrong' \in BOOLEAN
  PROVE  Shape'
<1>1. DOMAIN info' = DOMAIN info /\ info' \in [DOMAIN info -> States]
  BY DEF Shape
<1>2. ASSUME NEW q \in DOMAIN info, Len(q) > 1 PROVE info'[q] = register_if_linear(ty)[q]
  <2>1. q # path
    BY <1>2
  <2> QED BY <2>1, <1>2 DEF Shape
<1>3. register_if_linear(ty)' = register_if_linear(ty)
  BY DEF register_if_linear
<1>4. DOMAIN info = DOMAIN register_if_linear(ty)
  BY DEF Shape
<1> QED BY <1>1, <1>2, <1>3, <1>4 DEF Shape

LEMMA ConsumeKeeps ==
  ASSUME NEW rank, Ranked(rank), Shape, OwedIsSeen, SeenIsOwed,
         NEW path \in DOMAIN info, ConsumePlace(path)
  PROVE  Shape' /\ OwedIsSeen' /\ SeenIsOwed'
<1>1. /\ info' = [info EXCEPT ![path] = "Consumed"]
      /\ owed' = {p \in owed : ~IsPrefix(path, p)}
      /\ ty' = ty /\ open' = open /\ open = TRUE /\ wrong' \in BOOLEAN
      /\ path \in Path /\ Len(path) <= 1
  BY ConsumeIs
<1>2. /\ DOMAIN info \subseteq Path /\ owed \subseteq Path /\ DOMAIN info' = DOMAIN info
      /\ info'[path] = "Consumed"
      /\ \A q \in DOMAIN info : q # path => info'[q] = info[q]
  BY <1>1, TreeOf DEF Shape
<1>3. Shape'
  BY <1>1, <1>2, ShapeKept DEF States
<1>4. OwedIsSeen'
  <2>1. SUFFICES ASSUME NoPointerToLinear[ty]
                 PROVE  /\ \A p \in owed' : /\ Leaf(DOMAIN info, p)
                                            /\ \A q \in DOMAIN info : IsPrefix(q, p) => info'[q] = "Unconsumed"
                        /\ ty.linear => owed' \subseteq {<<>>}
    BY <1>1, <1>2 DEF OwedIsSeen
  <2> QED BY <2>1, <1>1, <1>2 DEF OwedIsSeen
<1>5. SeenIsOwed'
  <2>1. SUFFICES ASSUME NoLinearFunction[ty], <<>> \in DOMAIN info, info'[<<>>] = "Unconsumed"
                 PROVE  /\ ty.linear => <<>> \in owed'
                        /\ \A p \in DOMAIN info : Live(p)' => p \in owed'
    BY <1>1, <1>2 DEF SeenIsOwed, Live
  <2>2. path # <<>> /\ info[<<>>] = "Unconsumed"
    BY <2>1, <1>2
  <2>3. ty.linear => <<>> \in owed'
    <3>1. ~IsPrefix(path, <<>>)
      BY <2>2, <1>1, TopPath
    <3> QED BY <3>1, <2>1, <2>2, <1>1 DEF SeenIsOwed
  <2>4. ASSUME NEW p \in DOMAIN info, Live(p)' PROVE p \in owed'
    <3>1. /\ p # <<>> /\ Leaf(DOMAIN info, p)
          /\ \A q \in DOMAIN info : q # <<>> /\ IsPrefix(q, p) => info'[q] = "Unconsumed"
      BY <2>4, <1>2 DEF Live
    <3>2. ~IsPrefix(path, p)
      BY <3>1, <2>2, <1>2
    <3>3. Live(p)
      BY <3>1, <3>2, <1>2 DEF Live
    <3> QED BY <3>2, <3>3, <2>1, <2>2, <1>1 DEF SeenIsOwed
  <2> QED BY <2>3, <2>4
<1> QED BY <1>3, <1>4, <1>5

LEMMA FreeKeeps ==
  ASSUME NEW rank, Ranked(rank), Shape, OwedIsSeen, SeenIsOwed, FreeVariable
  PROVE  Shape' /\ OwedIsSeen' /\ SeenIsOwed'
<1>1. /\ <<>> \in DOMAIN info /\ ty.linear /\ Len(<<>>) <= 1
      /\ info' = [info EXCEPT ![<<>>] = "Consumed"]
      /\ owed' = owed \ {<<>>} /\ ty' = ty /\ open' = open /\ open = TRUE
      /\ wrong' \in BOOLEAN
  BY DEF FreeVariable, Shape
<1>2. /\ DOMAIN info \subseteq Path /\ owed \subseteq Path /\ DOMAIN info' = DOMAIN info
      /\ info'[<<>>] = "Consumed"
  BY <1>1, TreeOf DEF Shape
<1>3. Shape'
  BY <1>1, <1>2, ShapeKept DEF States
<1>4. OwedIsSeen'
  <2>1. NoPointerToLinear[ty] => owed' = {}
    BY <1>1 DEF OwedIsSeen
  <2> QED BY <2>1, <1>1 DEF OwedIsSeen
<1>5. SeenIsOwed'
  BY <1>1, <1>2 DEF SeenIsOwed
<1> QED BY <1>3, <1>4, <1>5

LEMMA PopKeeps ==
  ASSUME NEW rank, Ranked(rank), Shape, OwedIsSeen, SeenIsOwed, pop_scope_and_check
  PROVE  Shape' /\ OwedIsSeen' /\ SeenIsOwed'
<1>1. /\ ty' = ty /\ info' = info /\ owed' = owed /\ open' = FALSE /\ wrong' \in BOOLEAN
      /\ wrong' = \/ wrong
                  \/ /\ <<>> \in DOMAIN info /\ info[<<>>] = "Unconsumed"
                     /\ HasChildren(<<>>) => ~ChildrenConsumed(<<>>)
  BY DEF pop_scope_and_check, Shape
<1>2. Shape'
  <2>1. register_if_linear(ty)' = register_if_linear(ty)
    BY <1>1 DEF register_if_linear
  <2> QED BY <1>1, <2>1 DEF Shape
<1>3. SeenIsOwed'
  BY <1>1 DEF SeenIsOwed, Live
<1>4. ASSUME NoPointerToLinear[ty], ~wrong' PROVE owed = {}
  <2>1. SUFFICES ASSUME NEW p \in owed PROVE FALSE
    OBVIOUS
  <2>2. /\ Leaf(DOMAIN info, p)
        /\ \A q \in DOMAIN info : IsPrefix(q, p) => info[q] = "Unconsumed"
    BY <1>4, <2>1 DEF OwedIsSeen
  <2>3. p \in DOMAIN info /\ p \in Path /\ DOMAIN info = {<<>>} \cup Paths(ty)
    BY <2>2, TreeOf DEF Leaf
  <2>4. <<>> \in DOMAIN info /\ info[<<>>] = "Unconsumed"
    BY <2>2, <2>3, TopPath
  <2>5. HasChildren(<<>>) /\ ChildrenConsumed(<<>>)
    BY <1>1, <1>4, <2>4
  <2>6. PICK r \in DOMAIN info : IsStrictPrefix(<<>>, r)
    BY <2>5 DEF HasChildren
  <2>7. p # <<>>
    BY <2>2, <2>6 DEF Leaf
  <2>8. IsStrictPrefix(<<>>, p)
    BY <2>3, <2>7, TopPath DEF IsStrictPrefix
  <2> QED BY <2>2, <2>3, <2>5, <2>8 DEF ChildrenConsumed, Leaf
<1>5. OwedIsSeen'
  BY <1>1, <1>4 DEF OwedIsSeen
<1> QED BY <1>2, <1>3, <1>5

LEMMA StoreKeeps ==
  ASSUME NEW rank, Ranked(rank), Shape, OwedIsSeen, SeenIsOwed, StoreThrough
  PROVE  Shape' /\ OwedIsSeen' /\ SeenIsOwed'
<1> DEFINE u == ty.inner[1]
<1>1. /\ ty.kind = "pointer" /\ <<1>> \in DOMAIN info /\ info[<<>>] = "Unconsumed"
      /\ ty' = ty /\ open' = open /\ open = TRUE
      /\ owed' = owed \cup {<<1>> \o p : p \in Owned[u]}
  BY DEF StoreThrough
<1>2. /\ ty \in Universe /\ DOMAIN info \subseteq Path /\ owed \subseteq Path
      /\ containsLinearTypes[ty] /\ DOMAIN info = {<<>>} \cup Paths(ty)
      /\ 1 \in DOMAIN ty.inner /\ u \in Universe /\ DOMAIN ty.inner = {1}
      /\ <<1>> \in Path /\ <<1>> = <<1>> \o <<>> /\ Len(<<1>>) <= 1 /\ <<1>> # <<>>
  <2>1. ty \in Universe /\ DOMAIN info \subseteq Path /\ owed \subseteq Path
    BY TreeOf
  <2>2. containsLinearTypes[ty] /\ DOMAIN info = {<<>>} \cup Paths(ty)
    BY <1>1, TreeOf
  <2>3. DOMAIN ty.inner = {1}
    BY <1>1, <2>1, Parts
  <2>4. 1 \in DOMAIN ty.inner /\ u \in Universe
    BY <2>1, <2>3, Parts
  <2>5. 1 \in Nat
    OBVIOUS
  <2>6. <<1>> \in Path /\ <<1>> = <<1>> \o <<>> /\ Len(<<1>>) <= 1 /\ <<1>> # <<>>
    BY <2>5, TopPath
  <2> QED BY <2>1, <2>2, <2>3, <2>4, <2>6
<1>3. /\ info' = info \/ info' = [info EXCEPT ![<<1>>] = "Unconsumed"]
      /\ wrong' \in BOOLEAN /\ info \in [DOMAIN info -> States]
      /\ info'[<<1>>] = "Unconsumed"
  <2>1. info \in [DOMAIN info -> States] /\ wrong \in BOOLEAN
    BY DEF Shape
  <2>2. CASE info[<<1>>] = "Unconsumed" /\ u.linear
    BY <2>1, <2>2 DEF StoreThrough
  <2>3. CASE ~(info[<<1>>] = "Unconsumed" /\ u.linear)
    BY <2>1, <2>3, <1>1 DEF StoreThrough
  <2> QED BY <2>2, <2>3, <2>1
<1>4. info' = [info EXCEPT ![<<1>>] = "Unconsumed"]
  BY <1>3
<1>5. /\ DOMAIN info' = DOMAIN info
      /\ \A q \in DOMAIN info : q # <<1>> => info'[q] = info[q]
  BY <1>3
<1>6. owed' \subseteq Path
  <2>1. \A p \in Owned[u] : <<1>> \o p \in Path
    BY <1>2, OwnedIs, Deeper
  <2> QED BY <2>1, <1>1, <1>2
<1>7. Shape'
  BY <1>1, <1>2, <1>3, <1>4, <1>6, ShapeKept DEF States
<1>8. OwedIsSeen'
  <2>1. ASSUME NoPointerToLinear[ty] PROVE FALSE
    <3>1. register_inner_linear[ty] = {}
      BY <1>1, <1>2, <2>1, OwnedAreLeaves DEF OwnsLeaves
    <3> QED BY <3>1, <1>1, <1>2 DEF Paths
  <2> QED BY <2>1, <1>1 DEF OwedIsSeen
<1>9. SeenIsOwed'
  <2>1. SUFFICES ASSUME NoLinearFunction[ty], NEW p \in DOMAIN info, Live(p)' PROVE p \in owed'
    <3>1. NoLinearFunction[ty] /\ ty.linear => <<>> \in owed'
      BY <1>1, <1>2 DEF SeenIsOwed
    <3> QED BY <3>1, <1>1, <1>5 DEF SeenIsOwed, Live
  <2>2. /\ p # <<>> /\ Leaf(DOMAIN info, p)
        /\ \A q \in DOMAIN info : q # <<>> /\ IsPrefix(q, p) => info'[q] = "Unconsumed"
    BY <2>1, <1>5 DEF Live
  <2>3. PICK k \in register_inner_linear[ty] : k[1] = p
    BY <2>1, <2>2, <1>2 DEF Paths
  <2>4. RegisteredAt(ty, 1, k)
    BY <1>2, <2>3, RegisteredPart
  <2>5. containsLinearTypes[u] /\ NoLinearFunction[u]
    BY <2>4, <2>1, <1>2, ContainsPart DEF RegisteredAt
  <2>6. CASE u.linear
    <3>1. p = <<1>> \o <<>> /\ <<>> \in Owned[u]
      BY <2>3, <2>4, <2>6, <1>2, OwnedPart DEF RegisteredAt
    <3> QED BY <3>1, <1>1
  <2>7. CASE ~u.linear
    \* What is registered for the pointee is below the first part.
    <3>1. ASSUME NEW m \in register_inner_linear[u]
          PROVE  /\ m[1] \in Path /\ m[1] # <<>> /\ <<1>> \o m[1] \in DOMAIN info
                 /\ info'[<<1>> \o m[1]] = m[2]
      <4> DEFINE x == <<<<1>> \o m[1], m[2]>>
      <4>1. x \in register_inner_linear[ty]
        BY <2>3, <2>5, <2>7, <1>2, RegisteredPart DEF RegisteredAt
      <4>2. x[1] = <<1>> \o m[1] /\ x[2] = m[2]
        OBVIOUS
      <4> HIDE DEF x
      <4>3. m[1] \in Path /\ m[1] # <<>>
        BY <1>2, RegisteredNotTop
      <4>4. x[1] \in DOMAIN info
        BY <4>1, <1>2 DEF Paths
      <4>5. register_if_linear(ty)[x[1]] = x[2]
        BY <4>1, <1>2, FreshTree
      <4>6. Len(x[1]) > 1 /\ x[1] # <<1>>
        <5>1. \A y \in Path : /\ Len(<<1>> \o y) = Len(y) + 1 /\ (y # <<>> => Len(y) > 0)
          BY Deeper, EmptySeq, LenProperties DEF Path
        <5>2. Len(<<1>>) = 1
          OBVIOUS
        <5>3. Len(<<1>> \o m[1]) = Len(m[1]) + 1 /\ Len(m[1]) > 0 /\ Len(m[1]) \in Nat
          BY <5>1, <4>3, LenProperties DEF Path
        <5>4. Len(<<1>> \o m[1]) > 1
          BY <5>3
        <5>5. Len(x[1]) > 1
          BY <5>4, <4>2
        <5> DEFINE top == <<1>>
        <5>6. Len(top) = 1
          BY <5>2
        <5> HIDE DEF top
        <5>7. ASSUME x[1] = top  PROVE FALSE
          <6>1. Len(x[1]) = 1
            BY <5>6, <5>7
          <6> QED BY <6>1, <5>5
        <5>8. x[1] # top
          BY <5>7
        <5> QED BY <5>5, <5>8 DEF top
      <4>7. info'[x[1]] = x[2]
        BY <4>4, <4>5, <4>6, <1>5 DEF Shape
      <4> QED BY <4>2, <4>3, <4>4, <4>7
    <3>2. PICK j \in DOMAIN u.inner : <<<<j>>, Mark(u)>> \in register_inner_linear[u]
      BY <1>2, <2>5, <2>7, SomethingRegistered
    <3>3. p # <<1>>
      <4> DEFINE m == <<<<j>>, Mark(u)>>
      <4>1. m \in register_inner_linear[u]
        BY <3>2
      <4> HIDE DEF m
      <4>2. <<1>> \o m[1] \in DOMAIN info /\ m[1] \in Path /\ m[1] # <<>>
        BY <4>1, <3>1
      <4>3. \A y \in Path : IsPrefix(<<1>> \o <<>>, <<1>> \o y) /\ (<<1>> \o <<>> = <<1>> \o y => y = <<>>)
        <5>1. ASSUME NEW y \in Path
              PROVE  IsPrefix(<<1>> \o <<>>, <<1>> \o y) /\ (<<1>> \o <<>> = <<1>> \o y => y = <<>>)
          BY SamePart, TopPath
        <5> QED BY <5>1
      <4>4. IsStrictPrefix(<<1>>, <<1>> \o m[1])
        BY <4>2, <4>3, <1>2 DEF IsStrictPrefix
      <4> QED BY <4>2, <4>4, <2>2 DEF Leaf
    <3>4. PICK l \in register_inner_linear[u] : k = <<<<1>> \o l[1], l[2]>>
      BY <2>3, <2>4, <3>3 DEF RegisteredAt
    <3>5. p = <<1>> \o l[1] /\ l[1] \in Path
      BY <2>3, <3>1, <3>4
    <3>6. StartsLive(u, l[1])
      <4>1. l[1] \in Paths(u)
        BY DEF Paths
      <4>2. ASSUME NEW m \in register_inner_linear[u]
            PROVE  ~IsStrictPrefix(l[1], m[1]) /\ (IsPrefix(m[1], l[1]) => m[2] = "Unconsumed")
        <5>1. /\ m[1] \in Path /\ <<1>> \o m[1] \in DOMAIN info
              /\ info'[<<1>> \o m[1]] = m[2] /\ <<1>> \o m[1] # <<>>
          BY <3>1, TopPath
        <5>2. \A x, y \in Path : /\ IsPrefix(<<1>> \o x, <<1>> \o y) <=> IsPrefix(x, y)
                                 /\ <<1>> \o x = <<1>> \o y <=> x = y
          BY SamePart
        <5>3. ~IsStrictPrefix(p, <<1>> \o m[1])
          BY <5>1, <2>2 DEF Leaf
        <5>4. IsPrefix(<<1>> \o m[1], p) => m[2] = "Unconsumed"
          BY <5>1, <2>2
        <5> QED BY <5>1, <5>2, <5>3, <5>4, <3>5 DEF IsStrictPrefix
      <4> QED BY <4>1, <4>2 DEF StartsLive
    <3>7. l[1] \in Owned[u]
      BY <3>6, <2>5, <2>7, <1>2, LeavesAreOwned
    <3> QED BY <3>5, <3>7, <1>1
  <2> QED BY <2>6, <2>7, <1>2, Parts
<1> QED BY <1>7, <1>8, <1>9

-----------------------------------------------------------------------------
(* The theorems *)

LEMMA Invariant ==
  ASSUME NEW rank, Ranked(rank)
  PROVE  Spec => [](Shape /\ OwedIsSeen /\ SeenIsOwed)
<1> DEFINE I == Shape /\ OwedIsSeen /\ SeenIsOwed
<1>1. Init => I
  BY Starts
<1>2. I /\ [Next]_vars => I'
  <2>1. SUFFICES ASSUME I, [Next]_vars PROVE I'
    OBVIOUS
  <2>2. ASSUME NEW p \in DOMAIN info, ConsumePlace(p) PROVE I'
    BY <2>1, <2>2, ConsumeKeeps
  <2>3. CASE FreeVariable
    BY <2>1, <2>3, FreeKeeps
  <2>4. CASE StoreThrough
    BY <2>1, <2>4, StoreKeeps
  <2>5. CASE pop_scope_and_check
    BY <2>1, <2>5, PopKeeps
  <2>6. CASE UNCHANGED vars
    <3>1. register_if_linear(ty)' = register_if_linear(ty)
      BY <2>6 DEF vars, register_if_linear
    <3>2. Shape'
      BY <2>1, <2>6, <3>1 DEF vars, Shape
    <3>3. OwedIsSeen' /\ SeenIsOwed'
      BY <2>1, <2>6 DEF vars, OwedIsSeen, SeenIsOwed, Live
    <3> QED BY <3>2, <3>3
  <2> HIDE DEF I
  <2> QED BY <2>1, <2>2, <2>3, <2>4, <2>5, <2>6 DEF Next
<1> HIDE DEF I
<1>3. Spec => []I
  BY <1>1, <1>2, PTL DEF Spec
<1> QED BY <1>3 DEF I

\* A variable of any type, however deep it nests structs, tuples, enums and
\* arrays, leaves its scope unreported only when it owns nothing any more.
THEOREM ExitReports ==
  ASSUME NEW rank, Ranked(rank)
  PROVE  Spec => []ExitReportsOwed
<1>1. OwedIsSeen => ExitReportsOwed
  BY DEF OwedIsSeen, ExitReportsOwed
<1> QED BY <1>1, Invariant, PTL

\* The exit of a scope reports no variable that owns nothing.
THEOREM NothingReportedFalsely ==
  ASSUME NEW rank, Ranked(rank)
  PROVE  Spec => NoFalseReport
<1> DEFINE I == Shape /\ OwedIsSeen /\ SeenIsOwed
           Honest == pop_scope_and_check /\ NoLinearFunction[ty] /\ ~wrong /\ wrong' => owed # {}
<1>1. ASSUME I, [Next]_vars PROVE Honest
  <2>1. SUFFICES ASSUME pop_scope_and_check, NoLinearFunction[ty], ~wrong, wrong' PROVE owed # {}
    OBVIOUS
  <2>2. /\ <<>> \in DOMAIN info /\ info[<<>>] = "Unconsumed"
        /\ HasChildren(<<>>) => ~ChildrenConsumed(<<>>)
    BY <2>1 DEF pop_scope_and_check
  <2>3. /\ ty \in Universe /\ DOMAIN info \subseteq Path
        /\ containsLinearTypes[ty] /\ DOMAIN info = {<<>>} \cup Paths(ty)
    BY <1>1, <2>2, TreeOf
  <2>4. CASE ty.linear
    BY <1>1, <2>1, <2>2, <2>4 DEF SeenIsOwed
  <2>5. CASE ~ty.linear
    <3>1. HasChildren(<<>>)
      <4>1. PICK i \in DOMAIN ty.inner : <<<<i>>, Mark(ty)>> \in register_inner_linear[ty]
        BY <2>1, <2>3, <2>5, SomethingRegistered
      <4>2. PICK k \in register_inner_linear[ty] : TRUE
        BY <4>1
      <4>3. k[1] \in DOMAIN info /\ k[1] \in Path /\ k[1] # <<>>
        BY <2>3, RegisteredNotTop DEF Paths
      <4> QED BY <4>3, TopPath DEF HasChildren, IsStrictPrefix
    <3>2. PICK p \in DOMAIN info :
            /\ IsStrictPrefix(<<>>, p)
            /\ \A q \in DOMAIN info : IsPrefix(q, p) /\ IsStrictPrefix(<<>>, q) => info[q] = "Unconsumed"
            /\ ~ \E q \in DOMAIN info : IsStrictPrefix(p, q)
      BY <2>2, <3>1 DEF ChildrenConsumed
    <3>3. Live(p)
      BY <2>3, <3>2, TopPath DEF Live, Leaf, IsStrictPrefix
    <3> QED BY <1>1, <2>1, <2>2, <3>3 DEF SeenIsOwed
  <2> QED BY <2>3, <2>4, <2>5, Parts
<1> HIDE DEF I, Honest
<1>2. Spec => []I
  BY Invariant DEF I
<1>3. Spec => [][Honest]_vars
  BY <1>1, <1>2, PTL DEF Spec
<1> QED BY <1>3 DEF NoFalseReport, Honest
=============================================================================
