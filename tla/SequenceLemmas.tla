--------------------------- MODULE SequenceLemmas ---------------------------
(***************************************************************************)
(* Facts about sequences used as stacks, which grow and shrink at their    *)
(* end only, and induction over the natural numbers.  The theorems of      *)
(* NaturalsInduction are about an operator, which the backends cannot      *)
(* instantiate; here the property is a set and the step of a recursion a   *)
(* function, which they can.                                               *)
(***************************************************************************)
EXTENDS SequencesExt, SequenceTheorems, WellFoundedInduction, TLAPS

LEMMA FrontOfSeq ==
  ASSUME NEW S, NEW s \in Seq(S), NEW n \in Nat, Len(s) = n + 1
  PROVE  /\ Front(s) \in Seq(S) /\ Len(Front(s)) = n
         /\ \A i \in 1 .. n : Front(s)[i] = s[i]
         /\ Last(s) \in S /\ Last(s) = s[n + 1]
<1>0. Len(s) - 1 = n
  OBVIOUS
<1>1. Front(s) = SubSeq(s, 1, n)
  BY <1>0 DEF Front
<1>2. \A i \in 1 .. n : s[i] \in S
  BY ElementOfSeq
<1>3. /\ SubSeq(s, 1, n) \in Seq(S)
      /\ Len(SubSeq(s, 1, n)) = IF 1 <= n THEN n - 1 + 1 ELSE 0
      /\ \A i \in 1 .. n - 1 + 1 : SubSeq(s, 1, n)[i] = s[1 + i - 1]
  BY <1>2, SubSeqProperties
<1>4. (IF 1 <= n THEN n - 1 + 1 ELSE 0) = n
  OBVIOUS
<1>5. Len(Front(s)) = n
  BY <1>1, <1>3, <1>4
<1>6. ASSUME NEW i \in 1 .. n  PROVE Front(s)[i] = s[i]
  <2>1. i \in 1 .. n - 1 + 1 /\ 1 + i - 1 = i
    OBVIOUS
  <2> QED
    BY <2>1, <1>3, <1>1
<1>7. Last(s) \in S /\ Last(s) = s[n + 1]
  <2>1. Len(s) \in 1 .. Len(s)
    OBVIOUS
  <2> QED
    BY <2>1, ElementOfSeq DEF Last
<1> QED
  BY <1>1, <1>3, <1>5, <1>6, <1>7

LEMMA NonEmptySeq ==
  ASSUME NEW S, NEW s \in Seq(S), s # <<>>
  PROVE  \E n \in Nat : Len(s) = n + 1
<1>1. Len(s) \in Nat /\ Len(s) # 0
  BY EmptySeq, LenProperties
<1>2. Len(s) - 1 \in Nat /\ Len(s) = Len(s) - 1 + 1
  BY <1>1
<1> QED
  BY <1>2

LEMMA AppendToSeq ==
  ASSUME NEW S, NEW s \in Seq(S), NEW e \in S
  PROVE  /\ Append(s, e) \in Seq(S) /\ Len(Append(s, e)) = Len(s) + 1
         /\ \A i \in 1 .. Len(s) : Append(s, e)[i] = s[i]
         /\ Append(s, e)[Len(s) + 1] = e
BY AppendProperties

-----------------------------------------------------------------------------
(* Induction over the natural numbers *)

\* A set of natural numbers that is not empty has a least element.
LEMMA Least ==
  ASSUME NEW S \in SUBSET Nat, S # {}
  PROVE  \E m \in S : \A n \in S : m <= n
<1> DEFINE R == OpToRel(<, Nat)
<1>1. IsWellFoundedOn(R, Nat)
  BY NatLessThanWellFounded
<1>2. \A x, y \in Nat : x < y => <<x, y>> \in R
  BY DEF OpToRel
<1> HIDE DEF R
<1>3. PICK x \in S : \A y \in S : ~ (<<y, x>> \in R)
  BY <1>1, WFMin
<1>4. ASSUME NEW n \in S PROVE x <= n
  <2>1. x \in Nat /\ n \in Nat /\ ~(n < x)
    BY <1>2, <1>3
  <2> QED BY <2>1
<1> QED BY <1>4

\* Induction for the property of being in a set.
LEMMA NatInductionSet ==
  ASSUME NEW S, 0 \in S, \A n \in Nat : n \in S => n + 1 \in S
  PROVE  \A n \in Nat : n \in S
<1> SUFFICES ASSUME NEW k \in Nat, k \notin S PROVE FALSE
  OBVIOUS
<1> DEFINE T == Nat \ S
<1>1. PICK m \in T : \A n \in T : m <= n
  BY Least
<1>2. m # 0 /\ m \in Nat
  OBVIOUS
<1>3. m - 1 \in Nat /\ m - 1 \in S
  BY <1>1, <1>2
<1>4. m - 1 + 1 = m
  BY <1>2
<1> QED BY <1>3, <1>4

\* A function that is defined by recursion over the natural numbers exists:
\* its value at n + 1 is what g makes of n and its value at n.
Recurs(f, X, b, g) ==
  f \in [Nat -> X] /\ f[0] = b /\ \A n \in Nat : f[n + 1] = g[<<n, f[n]>>]

LEMMA Recursion ==
  ASSUME NEW X, NEW b \in X, NEW g \in [Nat \X X -> X]
  PROVE  \E f : Recurs(f, X, b, g)
<1> DEFINE Starts(f, n) == f[0] = b /\ \A i \in 0 .. n - 1 : f[i + 1] = g[<<i, f[i]>>]
           S == {n \in Nat : \E f \in [0 .. n -> X] : Starts(f, n)}
<1>1. 0 \in S
  <2>1. [i \in 0 .. 0 |-> b] \in [0 .. 0 -> X] /\ Starts([i \in 0 .. 0 |-> b], 0)
    OBVIOUS
  <2> QED BY <2>1
<1>2. ASSUME NEW n \in Nat, n \in S PROVE n + 1 \in S
  <2>1. PICK f \in [0 .. n -> X] : Starts(f, n)
    BY <1>2
  <2> DEFINE h == [i \in 0 .. n + 1 |-> IF i <= n THEN f[i] ELSE g[<<n, f[n]>>]]
  <2>2. h \in [0 .. n + 1 -> X]
    OBVIOUS
  <2>3. h[0] = b
    BY <2>1
  <2>4. ASSUME NEW i \in 0 .. n + 1 - 1 PROVE h[i + 1] = g[<<i, h[i]>>]
    <3>1. CASE i = n
      BY <3>1, SMTT(30)
    <3>2. CASE i \in 0 .. n - 1
      BY <2>1, <3>2
    <3> QED BY <3>1, <3>2
  <2> HIDE DEF h
  <2>5. Starts(h, n + 1)
    BY <2>3, <2>4
  <2> HIDE DEF Starts
  <2> QED BY <2>2, <2>5
<1> HIDE DEF S
<1>3. \A n \in Nat : n \in S
  BY <1>1, <1>2, NatInductionSet
<1> USE DEF S
\* Two such functions agree.
<1>4. ASSUME NEW m \in Nat, NEW f \in [0 .. m -> X], Starts(f, m),
             NEW n \in Nat, NEW h \in [0 .. n -> X], Starts(h, n), m <= n
      PROVE  f[m] = h[m]
  <2> DEFINE E == {k \in Nat : k <= m => f[k] = h[k]}
  <2>1. 0 \in E
    BY <1>4
  <2>2. ASSUME NEW k \in Nat, k \in E PROVE k + 1 \in E
    <3>1. SUFFICES ASSUME k + 1 <= m PROVE f[k + 1] = h[k + 1]
      OBVIOUS
    <3>2. k \in 0 .. m - 1 /\ k \in 0 .. n - 1
      BY <3>1, <1>4
    <3>3. f[k] = h[k]
      BY <2>2, <3>1
    <3> QED BY <3>2, <3>3, <1>4
  <2> HIDE DEF E
  <2>3. m \in E
    BY <2>1, <2>2, NatInductionSet
  <2> QED BY <2>3 DEF E
<1> DEFINE F(n) == CHOOSE f \in [0 .. n -> X] : Starts(f, n)
           w == [n \in Nat |-> F(n)[n]]
<1>5. \A n \in Nat : F(n) \in [0 .. n -> X] /\ Starts(F(n), n)
  BY <1>3
<1> HIDE DEF F, S
<1>6. w \in [Nat -> X]
  BY <1>5
<1>7. w[0] = b
  BY <1>5
<1>8. ASSUME NEW n \in Nat PROVE w[n + 1] = g[<<n, w[n]>>]
  <2>1. /\ F(n + 1) \in [0 .. n + 1 -> X] /\ Starts(F(n + 1), n + 1)
        /\ F(n) \in [0 .. n -> X] /\ Starts(F(n), n)
    BY <1>5
  <2>2. F(n)[n] = F(n + 1)[n]
    <3> HIDE DEF Starts
    <3>1. n + 1 \in Nat /\ n <= n + 1
      OBVIOUS
    <3>2. \A f \in [0 .. n -> X], h \in [0 .. n + 1 -> X] :
            Starts(f, n) /\ Starts(h, n + 1) => f[n] = h[n]
      BY <1>4, <3>1
    <3> QED BY <2>1, <3>2
  <2>3. F(n + 1)[n + 1] = g[<<n, F(n + 1)[n]>>]
    BY <2>1
  <2> QED BY <2>2, <2>3
<1> QED BY <1>6, <1>7, <1>8 DEF Recurs
\* The least and the greatest of some natural numbers.
LEMMA MinIsLeast ==
  ASSUME NEW S \in SUBSET Nat, S # {}
  PROVE  Min(S) \in S /\ \A n \in S : Min(S) <= n
BY Least DEF Min

LEMMA MinIs ==
  ASSUME NEW S \in SUBSET Nat, NEW m \in S, \A n \in S : m <= n
  PROVE  Min(S) = m
<1>1. Min(S) \in S /\ Min(S) <= m /\ m <= Min(S)
  BY MinIsLeast
<1>2. Min(S) \in Nat /\ m \in Nat
  BY <1>1
<1> HIDE DEF Min
<1> QED BY <1>1, <1>2

LEMMA MaxIsGreatest ==
  ASSUME NEW N \in Nat, NEW S \in SUBSET (0 .. N), S # {}
  PROVE  Max(S) \in S /\ \A n \in S : n <= Max(S)
<1> DEFINE T == {k \in Nat : k <= N /\ N - k \in S}
<1>1. T # {}
  <2>1. PICK n \in S : TRUE
    OBVIOUS
  <2>2. N - n \in Nat /\ N - n <= N /\ N - (N - n) = n
    BY <2>1
  <2> QED BY <2>1, <2>2
<1>2. PICK k \in T : \A j \in T : k <= j
  BY <1>1, Least
<1>3. ASSUME NEW n \in S  PROVE n <= N - k
  <2>1. n \in Nat /\ N - n \in Nat /\ N - n <= N /\ N - (N - n) = n
    OBVIOUS
  <2>2. N - n \in T
    BY <2>1
  <2> QED BY <2>1, <2>2, <1>2
<1>4. \E m \in S : \A n \in S : m >= n
  <2>1. N - k \in S /\ \A n \in S : N - k >= n
    BY <1>2, <1>3
  <2> QED BY <2>1
<1>5. Max(S) \in S /\ \A n \in S : Max(S) >= n
  BY <1>4 DEF Max
<1>6. \A n \in S : n \in Nat
  OBVIOUS
<1> QED BY <1>5, <1>6

-----------------------------------------------------------------------------
(* A loop that picks the elements it keeps of a sequence *)

\* f[n] is what the loop has picked when it has seen the first n: g of those
\* in keep.
Picks(f, N, keep, g) ==
  f = [n \in 0 .. N |-> IF n = 0 THEN <<>>
                        ELSE IF n \in keep THEN Append(f[n - 1], g[n]) ELSE f[n - 1]]

\* The elements of a set of numbers in ascending order.
Ascending(at, keep) ==
  /\ at \in Seq(keep)
  /\ \A i, j \in 1 .. Len(at) : i < j => at[i] < at[j]
  /\ \A k \in keep : \E i \in 1 .. Len(at) : at[i] = k

Through(at, g) == [k \in 1 .. Len(at) |-> g[at[k]]]

\* Between two elements that follow each other there is none.
LEMMA AscendingGap ==
  ASSUME NEW keep \in SUBSET Nat, NEW at, Ascending(at, keep),
         NEW k \in 1 .. Len(at), NEW l \in keep, l < at[k]
  PROVE  k # 1 /\ k - 1 \in 1 .. Len(at) /\ l <= at[k - 1]
<1>1. /\ Len(at) \in Nat /\ \A i \in 1 .. Len(at) : at[i] \in Nat
      /\ \A i, j \in 1 .. Len(at) : i < j => at[i] < at[j]
  BY ElementOfSeq, LenProperties DEF Ascending
<1>2. PICK j \in 1 .. Len(at) : at[j] = l
  BY DEF Ascending
<1>3. ~(k < j) /\ j # k
  <2>1. at[k] \in Nat /\ at[j] \in Nat /\ ~(at[k] < at[j]) /\ at[k] # at[j]
    BY <1>1, <1>2
  <2> QED BY <2>1, <1>1
<1>4. k # 1 /\ k - 1 \in 1 .. Len(at) /\ (j = k - 1 \/ j < k - 1)
  BY <1>1, <1>3
<1>5. CASE j = k - 1
  BY <1>1, <1>2, <1>4, <1>5
<1>6. CASE j < k - 1
  <2> DEFINE m == k - 1
  <2>1. m \in 1 .. Len(at) /\ j < m
    BY <1>4, <1>6
  <2> HIDE DEF m
  <2>2. at[j] < at[m] /\ at[j] \in Nat /\ at[m] \in Nat
    BY <2>1, <1>1
  <2>3. l <= at[m]
    BY <2>2, <1>2
  <2> QED BY <2>3, <1>4 DEF m
<1> QED BY <1>4, <1>5, <1>6

LEMMA PicksExists ==
  ASSUME NEW N \in Nat, NEW keep, NEW g
  PROVE  \E f : Picks(f, N, keep, g)
<1> DEFINE X == Seq({g[n] : n \in 1 .. N})
           more(n, s) == IF n + 1 \in keep THEN Append(s, g[n + 1]) ELSE s
           step == [x \in Nat \X X |-> IF x[1] < N THEN more(x[1], x[2]) ELSE x[2]]
<1>1. step \in [Nat \X X -> X]
  <2>1. ASSUME NEW n \in Nat, NEW s \in X, n < N  PROVE more(n, s) \in X
    <3>1. n + 1 \in 1 .. N
      BY <2>1
    <3>2. g[n + 1] \in {g[m] : m \in 1 .. N}
      BY <3>1
    <3> QED BY <3>2
  <2> HIDE DEF more, X
  <2> QED BY <2>1
<1>2. PICK f : f \in [Nat -> X] /\ f[0] = <<>> /\ \A n \in Nat : f[n + 1] = step[<<n, f[n]>>]
  <2>1. <<>> \in X
    OBVIOUS
  <2> HIDE DEF step, X
  <2>2. \E f : Recurs(f, X, <<>>, step)
    BY <2>1, <1>1, Recursion
  <2> QED BY <2>2 DEF Recurs
<1>3. ASSUME NEW n \in 1 .. N
      PROVE  f[n] = IF n \in keep THEN Append(f[n - 1], g[n]) ELSE f[n - 1]
  <2> DEFINE m == n - 1
  <2>1. m \in Nat /\ m < N /\ m + 1 = n
    OBVIOUS
  <2> HIDE DEF m
  <2>2. f[m + 1] = step[<<m, f[m]>>] /\ f[m] \in X
    BY <2>1, <1>2, ZenonT(30)
  <2> HIDE DEF X
  <2>3. f[n] = IF n \in keep THEN Append(f[m], g[n]) ELSE f[m]
    BY <2>1, <2>2
  <2> QED BY <2>3 DEF m
<1> DEFINE h == [n \in 0 .. N |-> f[n]]
<1>4. ASSUME NEW n \in 0 .. N
      PROVE  h[n] = IF n = 0 THEN <<>>
                    ELSE IF n \in keep THEN Append(h[n - 1], g[n]) ELSE h[n - 1]
  <2>1. CASE n = 0
    BY <2>1, <1>2
  <2>2. CASE n # 0
    <3>1. n \in 1 .. N /\ n - 1 \in 0 .. N
      BY <2>2
    <3>2. h[n] = f[n] /\ h[n - 1] = f[n - 1]
      BY <3>1
    <3> HIDE DEF h
    <3> QED BY <2>2, <3>1, <3>2, <1>3
  <2> QED BY <2>1, <2>2
<1>5. Picks(h, N, keep, g)
  <2>1. h = [n \in 0 .. N |-> h[n]]
    OBVIOUS
  <2> HIDE DEF h
  <2>2. h = [n \in 0 .. N |-> IF n = 0 THEN <<>>
                              ELSE IF n \in keep THEN Append(h[n - 1], g[n]) ELSE h[n - 1]]
    BY <2>1, <1>4
  <2> QED BY <2>2 DEF Picks
<1> QED BY <1>5
\* What the loop has picked at its end.
LEMMA Picked ==
  ASSUME NEW N \in Nat, NEW keep \in SUBSET (1 .. N), NEW g, NEW f, Picks(f, N, keep, g)
  PROVE  \E at : Ascending(at, keep) /\ f[N] = Through(at, g)
<1> DEFINE first(n) == {k \in keep : k <= n}
           S == {n \in Nat : n <= N => \E at : Ascending(at, first(n)) /\ f[n] = Through(at, g)}
<1>0. \A k \in keep : k \in Nat /\ k >= 1 /\ k <= N
  OBVIOUS
<1>1. 0 \in S
  <2>0. \A k \in keep : ~(k <= 0)
    BY <1>0
  <2>1. first(0) = {}
    BY <2>0
  <2>2. Ascending(<<>>, first(0))
    BY <2>1 DEF Ascending
  <2>3. Through(<<>>, g) = <<>>
    BY DEF Through
  <2>4. f[0] = <<>>
    BY DEF Picks
  <2> QED BY <2>2, <2>3, <2>4
<1>2. ASSUME NEW n \in Nat, n \in S  PROVE n + 1 \in S
  <2> DEFINE m == n + 1
  <2>0. m \in Nat /\ m - 1 = n /\ m # 0 /\ n < m
    OBVIOUS
  <2> SUFFICES ASSUME m <= N
               PROVE  \E at : Ascending(at, first(m)) /\ f[m] = Through(at, g)
    BY <2>0
  <2>1. PICK at : Ascending(at, first(n)) /\ f[n] = Through(at, g)
    BY <2>0, <1>2
  <2>2. f[m] = IF m \in keep THEN Append(f[n], g[m]) ELSE f[n]
    <3>1. m \in 0 .. N
      BY <2>0
    <3> HIDE DEF m
    <3> QED BY <3>1, <2>0 DEF Picks
  <2>3. CASE m \notin keep
    <3>1. \A k \in keep : k <= m <=> k <= n
      BY <1>0, <2>3, <2>0
    <3>2. first(m) = first(n)
      BY <3>1
    <3> HIDE DEF first, m
    <3> QED BY <2>1, <2>2, <2>3, <3>2
  <2>4. CASE m \in keep
    <3>0. /\ \A k \in keep : k <= m <=> (k <= n \/ k = m)
          /\ \A k \in keep : k \in Nat /\ (k <= n => k < m)
      BY <1>0, <2>0
    <3>1. /\ first(m) = first(n) \cup {m} /\ first(n) \subseteq Nat
          /\ \A k \in first(n) : k < m
      BY <3>0, <2>4
    <3> HIDE DEF first, m
    <3> DEFINE more == Append(at, m)
               L == Len(at)
    <3>2. L \in Nat /\ at \in Seq(first(n)) /\ at \in Seq(first(m))
      <4>1. at \in Seq(first(n)) /\ first(n) \subseteq first(m)
        BY <2>1, <3>1 DEF Ascending
      <4>2. at \in Seq(first(m))
        BY <4>1
      <4> QED BY <4>1, <4>2
    <3>3. /\ more \in Seq(first(m)) /\ Len(more) = L + 1
          /\ \A i \in 1 .. L : more[i] = at[i]
          /\ more[L + 1] = m
      BY <3>1, <3>2, AppendToSeq
    <3> HIDE DEF more
    <3>4. \A i \in 1 .. L : at[i] \in first(n)
      BY <3>2, ElementOfSeq
    <3>5. ASSUME NEW i \in 1 .. Len(more), NEW j \in 1 .. Len(more), i < j
          PROVE  more[i] < more[j]
      <4>1. i \in 1 .. L /\ (j \in 1 .. L \/ j = L + 1)
        BY <3>2, <3>3, <3>5
      <4> QED BY <4>1, <3>1, <3>3, <3>4, <3>5, <2>1 DEF Ascending
    <3>6. ASSUME NEW k \in first(m)  PROVE \E i \in 1 .. Len(more) : more[i] = k
      <4>1. CASE k \in first(n)
        <5>1. PICK i \in 1 .. L : at[i] = k
          BY <4>1, <2>1 DEF Ascending
        <5>2. i \in 1 .. Len(more) /\ more[i] = k
          BY <5>1, <3>2, <3>3
        <5> QED BY <5>2
      <4>2. CASE k = m
        <5>1. L + 1 \in 1 .. Len(more)
          BY <3>2, <3>3
        <5> QED BY <5>1, <4>2, <3>3
      <4> QED BY <4>1, <4>2, <3>1
    <3>7. Ascending(more, first(m))
      BY <3>3, <3>5, <3>6 DEF Ascending
    <3>8. Append(f[n], g[m]) = Through(more, g)
      <4> DEFINE s == Through(at, g)
                 t == Append(s, g[m])
                 T == {g[k] : k \in first(m)}
      <4>1. s = [i \in 1 .. L |-> g[at[i]]] /\ g[m] \in T
        BY <3>1 DEF Through
      <4>2. \A i \in 1 .. L : g[at[i]] \in T
        BY <3>1, <3>4
      <4>3. s \in Seq(T) /\ Len(s) = L
        BY <3>2, <4>1, <4>2, IsASeq
      <4> HIDE DEF s
      <4>4. t \in Seq(T) /\ Len(t) = L + 1 /\ t[L + 1] = g[m]
            /\ \A i \in 1 .. L : t[i] = s[i]
        BY <4>1, <4>3, AppendToSeq
      <4> HIDE DEF t
      <4>5. \A i \in 1 .. L + 1 : t[i] = g[more[i]]
        <5>1. ASSUME NEW i \in 1 .. L + 1  PROVE t[i] = g[more[i]]
          <6>1. CASE i \in 1 .. L
            BY <6>1, <4>1, <4>4, <3>3
          <6>2. CASE i = L + 1
            BY <6>2, <4>4, <3>3
          <6> QED BY <6>1, <6>2, <3>2
        <5> QED BY <5>1
      <4>6. t = [i \in 1 .. L + 1 |-> t[i]]
        BY <4>4
      <4>7. t = [i \in 1 .. Len(more) |-> g[more[i]]]
        BY <4>5, <4>6, <3>3
      <4> QED BY <4>7, <2>1 DEF t, s, Through
    <3> QED BY <3>7, <3>8, <2>2, <2>4
  <2> QED BY <2>3, <2>4
<1> HIDE DEF S
<1>3. N \in S
  BY <1>1, <1>2, NatInductionSet
<1>4. first(N) = keep
  BY <1>0
<1> HIDE DEF first
<1> QED BY <1>3, <1>4 DEF S
-----------------------------------------------------------------------------

LEMMA Spliced ==
  ASSUME NEW S, NEW a \in Seq(S), NEW b \in Seq(S), NEW c \in Seq(S)
  PROVE  /\ a \o b \o c \in Seq(S) /\ Len(a \o b \o c) = Len(a) + Len(b) + Len(c)
         /\ \A i \in 1 .. Len(a) : (a \o b \o c)[i] = a[i]
         /\ \A i \in 1 .. Len(b) : (a \o b \o c)[Len(a) + i] = b[i]
         /\ \A i \in 1 .. Len(c) : (a \o b \o c)[Len(a) + Len(b) + i] = c[i]
<1> DEFINE k == Len(a)
           l == Len(b)
           m == Len(c)
           ab == a \o b
           s == ab \o c
<1>1. k \in Nat /\ l \in Nat /\ m \in Nat
  BY LenProperties
<1>2. /\ ab \in Seq(S) /\ Len(ab) = k + l
      /\ \A i \in 1 .. k + l : ab[i] = IF i <= k THEN a[i] ELSE b[i - k]
  BY ConcatProperties
<1> HIDE DEF ab
<1>3. /\ s \in Seq(S) /\ Len(s) = k + l + m
      /\ \A i \in 1 .. k + l + m : s[i] = IF i <= k + l THEN ab[i] ELSE c[i - (k + l)]
  <2> HIDE DEF k, l
  <2>1. /\ s \in Seq(S) /\ Len(s) = Len(ab) + Len(c)
        /\ \A i \in 1 .. Len(ab) + Len(c) : s[i] = IF i <= Len(ab) THEN ab[i] ELSE c[i - Len(ab)]
    BY <1>2, ConcatProperties
  <2> HIDE DEF s
  <2> QED BY <2>1, <1>2
<1> HIDE DEF s, k, l, m
<1>4. ASSUME NEW i \in 1 .. k  PROVE s[i] = a[i]
  <2>1. i \in 1 .. k + l /\ i \in 1 .. k + l + m /\ i <= k /\ i <= k + l
    BY <1>1
  <2> QED BY <2>1, <1>2, <1>3
<1>5. ASSUME NEW i \in 1 .. l  PROVE s[k + i] = b[i]
  <2> DEFINE j == k + i
  <2>1. j \in 1 .. k + l /\ j \in 1 .. k + l + m /\ ~(j <= k) /\ j <= k + l /\ j - k = i
    BY <1>1
  <2> HIDE DEF j
  <2>2. s[j] = b[i]
    BY <2>1, <1>2, <1>3
  <2> QED BY <2>2 DEF j
<1>6. ASSUME NEW i \in 1 .. m  PROVE s[k + l + i] = c[i]
  <2> DEFINE j == k + l + i
  <2>1. j \in 1 .. k + l + m /\ ~(j <= k + l) /\ j - (k + l) = i
    BY <1>1
  <2> HIDE DEF j
  <2>2. s[j] = c[i]
    BY <2>1, <1>3
  <2> QED BY <2>2 DEF j
<1> QED BY <1>3, <1>4, <1>5, <1>6 DEF s, ab, k, l, m
-----------------------------------------------------------------------------
(* Recursion over a set whose elements have ranks *)

\* Induction over ranks, for the property of being in a set.
LEMMA RankInduction ==
  ASSUME NEW U, NEW rank \in [U -> Nat], NEW S,
         \A t \in U : (\A u \in U : rank[u] < rank[t] => u \in S) => t \in S
  PROVE  \A t \in U : t \in S
<1> SUFFICES ASSUME NEW k \in U, k \notin S PROVE FALSE
  OBVIOUS
<1> DEFINE R == {rank[t] : t \in U \ S}
<1>1. R \in SUBSET Nat /\ R # {}
  OBVIOUS
<1>2. PICK m \in R : \A n \in R : m <= n
  BY <1>1, Least
<1>3. PICK t \in U \ S : rank[t] = m
  BY <1>2
<1>4. ASSUME NEW u \in U, rank[u] < rank[t] PROVE u \in S
  <2>1. rank[u] \in Nat /\ m \in Nat /\ ~(m <= rank[u])
    BY <1>3, <1>4
  <2> QED BY <2>1, <1>2
<1> QED BY <1>3, <1>4

\* A function that is defined by recursion over the ranks exists: its value
\* is what G makes of its values below.
LooksBelow(G, U, F, rank) ==
  /\ G \in [[U -> F] -> [U -> F]]
  /\ \A t \in U : \A f, h \in [U -> F] :
       (\A u \in U : rank[u] < rank[t] => f[u] = h[u]) => G[f][t] = G[h][t]

LEMMA RankedRecursion ==
  ASSUME NEW U, NEW F, F # {}, NEW rank \in [U -> Nat], NEW G, LooksBelow(G, U, F, rank)
  PROVE  \E f \in [U -> F] : f = G[f]
<1> USE DEF LooksBelow
<1>0. PICK a \in F : TRUE
  OBVIOUS
<1> DEFINE X == [U -> F]
           b == [t \in U |-> a]
           g == [p \in Nat \X X |-> G[p[2]]]
<1>1. b \in X /\ g \in [Nat \X X -> X]
  OBVIOUS
<1> HIDE DEF b
<1>2. PICK f : f \in [Nat -> X] /\ \A n \in Nat : f[n + 1] = G[f[n]]
  <2> HIDE DEF X, g
  <2>1. PICK f : Recurs(f, X, b, g)
    BY <1>1, Recursion
  <2>2. ASSUME NEW n \in Nat PROVE f[n + 1] = G[f[n]]
    <3>1. f[n] \in X /\ f[n + 1] = g[<<n, f[n]>>]
      BY <2>1 DEF Recurs
    <3> QED BY <3>1 DEF g
  <2> QED BY <2>1, <2>2 DEF Recurs
<1>3. ASSUME NEW n \in Nat PROVE f[n] \in [U -> F]
  BY <1>2
\* From its rank on the value of an element does not change.
<1> DEFINE Same(n) == \A t \in U : rank[t] < n => f[n + 1][t] = f[n][t]
           S == {n \in Nat : Same(n)}
<1>4. 0 \in S
  OBVIOUS
<1>5. ASSUME NEW n \in Nat, n \in S PROVE n + 1 \in S
  <2> DEFINE m == n + 1
  <2>1. SUFFICES ASSUME NEW t \in U, rank[t] < m PROVE f[m + 1][t] = f[m][t]
    OBVIOUS
  <2>2. ASSUME NEW u \in U, rank[u] < rank[t] PROVE f[m][u] = f[n][u]
    <3>1. rank[u] < n
      BY <2>1, <2>2
    <3> QED BY <3>1, <1>5
  <2>3. m \in Nat /\ f[m] \in [U -> F] /\ f[n] \in [U -> F]
    BY <1>3
  <2>4. f[m + 1] = G[f[m]] /\ f[m] = G[f[n]]
    BY <2>3, <1>2
  <2> HIDE DEF m, S
  <2> QED BY <2>2, <2>3, <2>4
<1>6. \A n \in Nat : Same(n)
  <2> HIDE DEF S, Same
  <2>1. \A n \in Nat : n \in S
    BY <1>4, <1>5, NatInductionSet
  <2> QED BY <2>1 DEF S
<1>7. ASSUME NEW t \in U, NEW n \in Nat, rank[t] < n PROVE f[n][t] = f[rank[t] + 1][t]
  <2> DEFINE T == {k \in Nat : f[rank[t] + 1 + k][t] = f[rank[t] + 1][t]}
  <2>0. rank[t] \in Nat
    OBVIOUS
  <2>1. 0 \in T
    BY <2>0
  <2>2. ASSUME NEW k \in Nat, k \in T PROVE k + 1 \in T
    <3> DEFINE l == rank[t] + 1 + k
    <3>1. l \in Nat /\ rank[t] < l /\ l + 1 = rank[t] + 1 + (k + 1)
      BY <2>0
    <3> HIDE DEF l
    <3>2. f[l + 1][t] = f[l][t]
      BY <3>1, <1>6
    <3>3. f[l][t] = f[rank[t] + 1][t]
      BY <2>2 DEF l
    <3> QED BY <3>1, <3>2, <3>3
  <2> HIDE DEF T
  <2>3. n - (rank[t] + 1) \in Nat /\ rank[t] + 1 + (n - (rank[t] + 1)) = n
    BY <2>0, <1>7
  <2>4. n - (rank[t] + 1) \in T
    BY <2>1, <2>2, <2>3, NatInductionSet
  <2> QED BY <2>3, <2>4 DEF T
<1> DEFINE w == [t \in U |-> f[rank[t] + 1][t]]
<1>8. w \in [U -> F]
  <2>1. ASSUME NEW t \in U PROVE f[rank[t] + 1][t] \in F
    <3>1. rank[t] + 1 \in Nat
      OBVIOUS
    <3> QED BY <3>1, <1>3
  <2> QED BY <2>1
<1>9. ASSUME NEW t \in U PROVE w[t] = G[w][t]
  <2> DEFINE n == rank[t]
  <2>1. n \in Nat /\ f[n] \in [U -> F] /\ f[n + 1] = G[f[n]]
    <3>1. n \in Nat
      OBVIOUS
    <3> QED BY <3>1, <1>2, <1>3
  <2>2. ASSUME NEW u \in U, rank[u] < rank[t] PROVE w[u] = f[n][u]
    <3> HIDE DEF n
    <3>1. f[n][u] = f[rank[u] + 1][u]
      BY <2>1, <2>2, <1>7 DEF n
    <3> QED BY <3>1
  <2>3. w[t] = f[n + 1][t]
    OBVIOUS
  <2> HIDE DEF w, n
  <2>4. G[w][t] = G[f[n]][t]
    BY <2>1, <2>2, <1>8
  <2> QED BY <2>1, <2>3, <2>4
<1>10. G[w] \in [U -> F]
  <2> HIDE DEF w
  <2> QED BY <1>8
<1>11. w = G[w]
  <2> HIDE DEF w
  <2> QED BY <1>8, <1>9, <1>10
<1> QED BY <1>8, <1>11
=============================================================================
