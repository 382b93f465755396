---------------------------- MODULE ParserProofs ----------------------------
(***************************************************************************)
(* Proofs about the parser.  Of the token stream, whatever the parse       *)
(* functions do: a rollback brings back the stream of its mark, and no     *)
(* token of the file is lost.  Of the parse functions, for any files: one  *)
(* that fails has reported an error, one that did not commit has consumed  *)
(* nothing, and nothing is skipped in a file that is accepted.  These rest *)
(* on the assumptions of ParserPoints about the steps the functions are    *)
(* written in, which have no constant in them and which TLC evaluates.     *)
(***************************************************************************)
EXTENDS ParserPoints, SequenceLemmas, FiniteSetTheorems

-----------------------------------------------------------------------------
(* Splitting a token and undoing it *)

\* What split_current makes of the tokens t at position c.
Halved(t, c, first, second) == InsertAt([t EXCEPT ![c] = first], c + 1, second)

LEMMA HalvedIs ==
  ASSUME NEW t \in Seq(Token), NEW c \in 1 .. Len(t), c < Len(t),
         NEW first \in Token, NEW second \in Token
  PROVE  /\ Halved(t, c, first, second) \in Seq(Token)
         /\ Len(Halved(t, c, first, second)) = Len(t) + 1
         /\ \A i \in 1 .. Len(t) + 1 :
              Halved(t, c, first, second)[i] =
                IF i < c THEN t[i] ELSE IF i = c THEN first
                ELSE IF i = c + 1 THEN second ELSE t[i - 1]
<1> DEFINE u == [t EXCEPT ![c] = first]
<1>1. u \in Seq(Token) /\ Len(u) = Len(t) /\ u[c] = first
      /\ \A i \in 1 .. Len(t) : i # c => u[i] = t[i]
  BY ExceptSeq, ElementOfSeq
<1>2. Len(t) \in Nat
  OBVIOUS
<1> HIDE DEF u
<1> DEFINE a == SubSeq(u, 1, c)
           b == SubSeq(u, c + 1, Len(t))
<1>3. a \in Seq(Token) /\ Len(a) = c /\ \A i \in 1 .. c : a[i] = u[i]
  <2>1. \A i \in 1 .. c : u[i] \in Token
    BY <1>1, <1>2, ElementOfSeq
  <2> QED BY <2>1, <1>2, SubSeqProperties
<1>4. b \in Seq(Token) /\ Len(b) = Len(t) - c /\ \A i \in 1 .. Len(t) - c : b[i] = u[c + i]
  <2>1. \A i \in c + 1 .. Len(t) : u[i] \in Token
    BY <1>1, <1>2, ElementOfSeq
  <2>2. Len(b) = Len(t) - c /\ b \in Seq(Token)
        /\ \A i \in 1 .. Len(t) - (c + 1) + 1 : b[i] = u[c + 1 + i - 1]
    BY <2>1, <1>2, SubSeqProperties
  <2>3. \A i \in 1 .. Len(t) - c : c + 1 + i - 1 = c + i /\ i \in 1 .. Len(t) - (c + 1) + 1
    BY <1>2
  <2> QED BY <2>2, <2>3
<1>5. Halved(t, c, first, second) = a \o <<second>> \o b
  <2>1. (c + 1) - 1 = c
    OBVIOUS
  <2>2. Halved(t, c, first, second) = InsertAt(u, c + 1, second)
    BY DEF Halved, u
  <2>3. InsertAt(u, c + 1, second) = SubSeq(u, 1, c) \o <<second>> \o SubSeq(u, c + 1, Len(t))
    <3>1. \A i : InsertAt(u, i, second)
                   = SubSeq(u, 1, i - 1) \o <<second>> \o SubSeq(u, i, Len(u))
      BY DEF InsertAt
    <3> QED BY <1>1, <2>1, <3>1, Zenon
  <2> QED BY <2>2, <2>3
<1> HIDE DEF a, b
<1>6. /\ a \o <<second>> \in Seq(Token) /\ Len(a \o <<second>>) = c + 1
      /\ \A i \in 1 .. c : (a \o <<second>>)[i] = a[i]
      /\ (a \o <<second>>)[c + 1] = second
  BY <1>3
<1> DEFINE d == a \o <<second>>
<1> HIDE DEF d
<1>7. /\ d \o b \in Seq(Token) /\ Len(d \o b) = Len(t) + 1
      /\ \A i \in 1 .. c + 1 : (d \o b)[i] = d[i]
      /\ \A i \in c + 2 .. Len(t) + 1 : (d \o b)[i] = b[i - (c + 1)]
  <2>1. d \in Seq(Token) /\ Len(d) = c + 1
    BY <1>6 DEF d
  <2>2. /\ d \o b \in Seq(Token) /\ Len(d \o b) = c + 1 + (Len(t) - c)
        /\ \A i \in 1 .. c + 1 + (Len(t) - c) :
             (d \o b)[i] = IF i <= c + 1 THEN d[i] ELSE b[i - (c + 1)]
    <3>1. /\ d \o b \in Seq(Token) /\ Len(d \o b) = Len(d) + Len(b)
          /\ \A i \in 1 .. Len(d) + Len(b) :
               (d \o b)[i] = IF i <= Len(d) THEN d[i] ELSE b[i - Len(d)]
      BY <2>1, <1>4, ConcatProperties
    <3> QED BY <3>1, <2>1, <1>4
  <2>3. c + 1 + (Len(t) - c) = Len(t) + 1
    BY <1>2
  <2>4. \A i \in 1 .. c + 1 : i \in 1 .. Len(t) + 1 /\ i <= c + 1
    BY <1>2
  <2>5. \A i \in c + 2 .. Len(t) + 1 : i \in 1 .. Len(t) + 1 /\ ~(i <= c + 1)
    BY <1>2
  <2> HIDE DEF b
  <2> QED BY <2>2, <2>3, <2>4, <2>5, Zenon
<1>8. ASSUME NEW i \in 1 .. Len(t) + 1
      PROVE  (d \o b)[i] = IF i < c THEN t[i] ELSE IF i = c THEN first
                           ELSE IF i = c + 1 THEN second ELSE t[i - 1]
  <2>1. CASE i \in 1 .. c
    <3>1. (d \o b)[i] = u[i]
      BY <2>1, <1>3, <1>6, <1>7 DEF d
    <3> QED BY <3>1, <2>1, <1>1, <1>2
  <2>2. CASE i = c + 1
    BY <2>2, <1>6, <1>7 DEF d
  <2>3. CASE i \in c + 2 .. Len(t) + 1
    <3>0. ~(i < c) /\ i # c /\ i # c + 1
      BY <2>3
    <3>1. i - (c + 1) \in 1 .. Len(t) - c /\ c + (i - (c + 1)) = i - 1 /\ i - 1 \in 1 .. Len(t) /\ i - 1 # c
      BY <2>3, <1>2
    <3>2. (d \o b)[i] = u[i - 1]
      BY <3>1, <2>3, <1>4, <1>7
    <3> QED BY <3>0, <3>1, <3>2, <1>1
  <2>4. i \in 1 .. c \/ i = c + 1 \/ i \in c + 2 .. Len(t) + 1
    BY <1>2
  <2> QED BY <2>1, <2>2, <2>3, <2>4
<1> QED BY <1>5, <1>7, <1>8 DEF d

LEMMA UnsplitHalved ==
  ASSUME NEW t \in Seq(Token), NEW c \in 1 .. Len(t), c < Len(t),
         NEW first \in Token, NEW second \in Token
  PROVE  Unsplit([inserted |-> c + 1, original |-> t[c]], Halved(t, c, first, second)) = t
<1> DEFINE h == Halved(t, c, first, second)
<1> HIDE DEF h
<1>1. /\ h \in Seq(Token) /\ Len(h) = Len(t) + 1
      /\ \A i \in 1 .. Len(t) + 1 :
           h[i] = IF i < c THEN t[i] ELSE IF i = c THEN first
                  ELSE IF i = c + 1 THEN second ELSE t[i - 1]
  <2>1. h = Halved(t, c, first, second)
    BY DEF h
  <2>2. /\ Halved(t, c, first, second) \in Seq(Token)
        /\ Len(Halved(t, c, first, second)) = Len(t) + 1
        /\ \A i \in 1 .. Len(t) + 1 :
             Halved(t, c, first, second)[i] =
               IF i < c THEN t[i] ELSE IF i = c THEN first
               ELSE IF i = c + 1 THEN second ELSE t[i - 1]
    BY HalvedIs
  <2> QED BY <2>1, <2>2, Zenon
<1>2. Len(t) \in Nat
  OBVIOUS
<1> DEFINE a == SubSeq(h, 1, c)
           b == SubSeq(h, c + 2, Len(t) + 1)
<1>3. a \in Seq(Token) /\ Len(a) = c /\ \A i \in 1 .. c : a[i] = h[i]
  <2>1. \A i \in 1 .. c : h[i] \in Token
    BY <1>1, <1>2, ElementOfSeq
  <2> QED BY <2>1, <1>2, SubSeqProperties
<1>4. b \in Seq(Token) /\ Len(b) = Len(t) - c /\ \A i \in 1 .. Len(t) - c : b[i] = h[c + 1 + i]
  <2>1. \A i \in c + 2 .. Len(t) + 1 : h[i] \in Token
    BY <1>1, <1>2, ElementOfSeq
  <2>2. Len(b) = Len(t) - c /\ b \in Seq(Token)
        /\ \A i \in 1 .. Len(t) + 1 - (c + 2) + 1 : b[i] = h[c + 2 + i - 1]
    BY <2>1, <1>2, SubSeqProperties
  <2>3. \A i \in 1 .. Len(t) - c : c + 2 + i - 1 = c + 1 + i /\ i \in 1 .. Len(t) + 1 - (c + 2) + 1
    BY <1>2
  <2> QED BY <2>2, <2>3
<1> HIDE DEF a, b
<1>5. RemoveAt(h, c + 1) = a \o b
  <2>1. c + 1 - 1 = c /\ c + 1 + 1 = c + 2
    OBVIOUS
  <2> QED BY <2>1, <1>1 DEF RemoveAt, a, b
<1>6. /\ a \o b \in Seq(Token) /\ Len(a \o b) = Len(t)
      /\ \A i \in 1 .. c : (a \o b)[i] = a[i]
      /\ \A i \in c + 1 .. Len(t) : (a \o b)[i] = b[i - c]
  <2>1. /\ a \o b \in Seq(Token) /\ Len(a \o b) = c + (Len(t) - c)
        /\ \A i \in 1 .. c + (Len(t) - c) :
             (a \o b)[i] = IF i <= c THEN a[i] ELSE b[i - c]
    <3>1. /\ a \o b \in Seq(Token) /\ Len(a \o b) = Len(a) + Len(b)
          /\ \A i \in 1 .. Len(a) + Len(b) :
               (a \o b)[i] = IF i <= Len(a) THEN a[i] ELSE b[i - Len(a)]
      BY <1>3, <1>4, ConcatProperties
    <3> QED BY <3>1, <1>3, <1>4
  <2>2. c + (Len(t) - c) = Len(t)
    BY <1>2
  <2> QED BY <2>1, <2>2, <1>2
<1>7. ASSUME NEW i \in 1 .. Len(t), i # c PROVE (a \o b)[i] = t[i]
  <2>1. CASE i < c
    BY <2>1, <1>1, <1>2, <1>3, <1>6
  <2>2. CASE i > c
    <3>1. i \in c + 1 .. Len(t) /\ i - c \in 1 .. Len(t) - c /\ c + 1 + (i - c) = i + 1
          /\ i + 1 \in 1 .. Len(t) + 1 /\ i + 1 > c + 1 /\ i + 1 - 1 = i
      BY <2>2, <1>2
    <3>2. (a \o b)[i] = h[i + 1]
      BY <3>1, <1>4, <1>6
    <3> QED BY <3>1, <3>2, <1>1
  <2>3. i < c \/ i > c
    BY <1>7
  <2> QED BY <2>1, <2>2, <2>3
<1> DEFINE w == a \o b
<1> HIDE DEF w
<1>8. [w EXCEPT ![c] = t[c]] = t
  <2>1. t[c] \in Token
    BY ElementOfSeq
  <2>2. w \in Seq(Token) /\ Len(w) = Len(t) /\ \A i \in 1 .. Len(t) : i # c => w[i] = t[i]
    BY <1>6, <1>7 DEF w
  <2>3. /\ [w EXCEPT ![c] = t[c]] \in Seq(Token)
        /\ Len([w EXCEPT ![c] = t[c]]) = Len(t)
        /\ \A i \in 1 .. Len(t) : [w EXCEPT ![c] = t[c]][i] = t[i]
    BY <2>1, <2>2, ExceptSeq
  <2> QED BY <2>3, SeqEqual
<1> DEFINE split == [inserted |-> c + 1, original |-> t[c]]
<1>9. split.inserted = c + 1 /\ split.original = t[c] /\ c + 1 - 1 = c
  OBVIOUS
<1> HIDE DEF split
<1>10. Unsplit(split, h) = [w EXCEPT ![c] = t[c]]
  <2>1. Unsplit(split, h) =
          [RemoveAt(h, split.inserted) EXCEPT ![split.inserted - 1] = split.original]
    BY DEF Unsplit
  <2>2. split.inserted - 1 = c
    BY <1>9
  <2> QED BY <2>1, <2>2, <1>5, <1>9 DEF w
<1> QED BY <1>8, <1>10 DEF h, split

-----------------------------------------------------------------------------
(* The history of the stream *)

Ends(t) == Len(t) \in Nat \ {0} /\ t[Len(t)].tok_type = "EOF"

\* h[k] is the stream after the first k of the splits that are on record.
History(h, tokens, splits) ==
  /\ h \in [0 .. Len(splits) -> Seq(Token)]
  /\ h[Len(splits)] = tokens
  /\ \A k \in 0 .. Len(splits) - 1 : h[k] = Unsplit(splits[k + 1], h[k + 1])
  /\ \A k \in 0 .. Len(splits) : Ends(h[k])

\* Undoing the splits leads back along the history.
LEMMA UndoIs ==
  ASSUME NEW tokens, NEW splits, Len(splits) \in Nat, NEW h, History(h, tokens, splits)
  PROVE  \A k \in 0 .. Len(splits) : Undo(tokens, splits, k) = h[k]
<1> DEFINE N == Len(splits)
           Undoes(f) == f = [k \in 0 .. N |-> IF k = N THEN tokens
                                              ELSE Unsplit(splits[k + 1], f[k + 1])]
           upto == CHOOSE f : Undoes(f)
<1>1. /\ h = [k \in 0 .. N |-> h[k]] /\ h[N] = tokens /\ N \in Nat
      /\ \A k \in 0 .. N - 1 : h[k] = Unsplit(splits[k + 1], h[k + 1])
  BY DEF History
<1>2. Undoes(h)
  <2>1. ASSUME NEW k \in 0 .. N
        PROVE  h[k] = IF k = N THEN tokens ELSE Unsplit(splits[k + 1], h[k + 1])
    <3>1. k = N \/ (k # N /\ k \in 0 .. N - 1)
      BY <1>1
    <3> QED BY <3>1, <1>1
  <2> HIDE DEF N
  <2> QED BY <2>1, <1>1
<1>3. Undoes(upto)
  <2> HIDE DEF Undoes
  <2> QED BY <1>2
<1>4. \A k \in 0 .. N : Undo(tokens, splits, k) = upto[k]
  BY DEF Undo
<1> HIDE DEF upto
<1>5. upto[N] = tokens /\ \A k \in 0 .. N - 1 : upto[k] = Unsplit(splits[k + 1], upto[k + 1])
  <2>1. N \in 0 .. N /\ \A k \in 0 .. N - 1 : k \in 0 .. N /\ k # N
    BY <1>1
  <2> HIDE DEF N
  <2> QED BY <2>1, <1>3
<1> HIDE DEF N, Undoes
<1> DEFINE S == {j \in Nat : j <= N => upto[N - j] = h[N - j]}
<1>6. 0 \in S
  BY <1>1, <1>5
<1>7. ASSUME NEW j \in Nat, j \in S PROVE j + 1 \in S
  <2>1. CASE j + 1 <= N
    <3>1. N - (j + 1) \in 0 .. N - 1 /\ (N - (j + 1)) + 1 = N - j /\ j <= N
      BY <2>1, <1>1
    <3>2. upto[N - j] = h[N - j]
      BY <1>7, <3>1
    <3>3. upto[N - (j + 1)] = h[N - (j + 1)]
      BY <1>1, <1>5, <3>1, <3>2
    <3> QED BY <3>3
  <2> QED BY <2>1
<1> HIDE DEF S
<1>8. \A j \in Nat : j \in S
  BY <1>6, <1>7, NatInductionSet
<1>9. ASSUME NEW k \in 0 .. N PROVE upto[k] = h[k]
  <2>1. N - k \in Nat /\ N - k <= N /\ N - (N - k) = k
    BY <1>1
  <2> QED BY <2>1, <1>8 DEF S
<1> QED BY <1>4, <1>9 DEF N

Split == [inserted : Nat, original : Token]
MarkSet == [cursor : Nat, splits_at_mark : Nat]

\* Every mark is about a stream of the history, and marks nest.
Marked(h, marks, N) ==
  /\ marks \in Seq(MarkSet)
  /\ \A i \in DOMAIN marks :
       /\ marks[i].splits_at_mark <= N
       /\ marks[i].cursor \in 1 .. Len(h[marks[i].splits_at_mark])
       /\ \A j \in DOMAIN marks : i <= j => marks[i].splits_at_mark <= marks[j].splits_at_mark

\* The invariant: the stream has a history that begins with the file.
Recorded(h) ==
  /\ History(h, TokStream, pending_splits)
  /\ h[0] = Append(source, EOF)
  /\ Marked(h, rollback_stack, Len(pending_splits))
StreamInv ==
  /\ source \in Seq(Token)
  /\ TokStream \in Seq(Token) /\ Ends(TokStream)
  /\ cursor \in 1 .. Len(TokStream)
  /\ pending_splits \in Seq(Split)
  /\ \E h : Recorded(h)

LEMMA UndoneIs ==
  ASSUME StreamInv, NEW h, Recorded(h)
  PROVE  \A k \in 0 .. Len(pending_splits) : Undone(k) = h[k]
BY UndoIs DEF StreamInv, Recorded, Undone

LEMMA StartsRecorded == Init => StreamInv
<1> SUFFICES ASSUME Init PROVE StreamInv
  OBVIOUS
<1>1. source \in Seq(Token) /\ EOF \in Token
  <2>1. file \in Files /\ source = Lex(file.text).tokens
    BY DEF Init
  <2>2. EOF \in Token
    BY DEF Token
  <2> QED BY <2>1, <2>2, FilesAssumption
<1>2. /\ TokStream = Append(source, EOF) /\ cursor = 1
      /\ pending_splits = <<>> /\ rollback_stack = <<>>
  BY DEF Init, StreamInit
<1>3. TokStream \in Seq(Token) /\ Len(TokStream) = Len(source) + 1
      /\ TokStream[Len(source) + 1] = EOF /\ Len(source) \in Nat
  BY <1>1, <1>2, AppendToSeq
<1>4. Ends(TokStream)
  <2>1. EOF.tok_type = "EOF"
    BY DEF EOF
  <2> QED BY <2>1, <1>3 DEF Ends
<1> DEFINE h == [k \in 0 .. 0 |-> TokStream]
<1>5. Recorded(h)
  <2>1. Len(pending_splits) = 0 /\ DOMAIN rollback_stack = {}
    BY <1>2
  <2>2. h \in [0 .. 0 -> Seq(Token)] /\ h[0] = TokStream /\ \A k \in 0 .. 0 : h[k] = TokStream
    BY <1>3
  <2>3. \A k \in 0 .. 0 - 1 : FALSE
    OBVIOUS
  <2> HIDE DEF h
  <2>4. History(h, TokStream, pending_splits)
    BY <1>4, <2>1, <2>2, <2>3 DEF History
  <2>5. Marked(h, rollback_stack, Len(pending_splits))
    BY <1>2, <2>1 DEF Marked
  <2> QED BY <2>2, <2>4, <2>5, <1>2 DEF Recorded
<1>6. pending_splits \in Seq(Split)
  BY <1>2
<1> HIDE DEF h
<1>7. cursor \in 1 .. Len(TokStream)
  BY <1>2, <1>3
<1> QED BY <1>1, <1>3, <1>4, <1>5, <1>6, <1>7 DEF StreamInv

-----------------------------------------------------------------------------
(* What the parser's steps do to the stream *)

Moved == cursor' \in 1 .. Len(TokStream) /\ UNCHANGED <<TokStream, pending_splits, rollback_stack>>

\* Only what closes two brackets, or one before `=`, is split.
Halves == {GreaterThan, Assign}
Splits ==
  /\ cursor < Len(TokStream) /\ peek.tok_type \in {">>", ">="}
  /\ \E first, second \in Halves : SplitAndConsume(first, second)

StreamStep == Moved \/ Splits \/ mark_rollback \/ rollback \/ commit_rollback

LEMMA Stays ==
  ASSUME StreamInv, UNCHANGED streamVars  PROVE Moved
BY DEF StreamInv, streamVars, Moved

\* Only the end of file is at the end.
LEMMA BeforeEnd ==
  ASSUME StreamInv, peek.tok_type # "EOF"
  PROVE  cursor < Len(TokStream)
BY DEF StreamInv, Ends, peek

LEMMA ConsumeMoves ==
  ASSUME StreamInv, consume  PROVE Moved
<1>1. cursor \in 1 .. Len(TokStream) /\ Len(TokStream) \in Nat
  BY DEF StreamInv
<1>2. CASE peek.tok_type = "EOF"
  BY <1>1, <1>2 DEF consume, Past, peek, Moved
<1>3. CASE peek.tok_type # "EOF"
  <2>1. cursor < Len(TokStream)
    BY <1>3, BeforeEnd
  <2> QED BY <1>1, <1>3, <2>1 DEF consume, Past, peek, Moved
<1> QED BY <1>2, <1>3

LEMMA BackMoves ==
  ASSUME StreamInv, NEW n, BackBy(n)  PROVE Moved
BY DEF StreamInv, BackBy, Moved

LEMMA ExhaustMoves ==
  ASSUME StreamInv, NEW until, exhaust_until(until)  PROVE Moved
<1> DEFINE found == {j \in cursor .. Len(TokStream) - 1 : TokStream[j].tok_type = until}
<1>1. cursor \in 1 .. Len(TokStream) /\ Len(TokStream) \in Nat
  BY DEF StreamInv
<1>2. cursor' = (IF found = {} THEN Len(TokStream) ELSE Min(found) + 1)
      /\ UNCHANGED <<TokStream, pending_splits, rollback_stack>>
  BY DEF exhaust_until, After
<1>3. CASE found = {}
  BY <1>1, <1>2, <1>3 DEF Moved
<1>4. CASE found # {}
  <2>1. found \in SUBSET Nat
    BY <1>1
  <2>2. Min(found) \in found
    BY <1>4, <2>1, MinIsLeast
  <2>3. Min(found) \in cursor .. Len(TokStream) - 1
    BY <2>2
  <2> HIDE DEF found
  <2>4. cursor' = Min(found) + 1
    BY <1>2, <1>4
  <2> QED BY <1>1, <1>2, <2>3, <2>4 DEF Moved
<1> QED BY <1>3, <1>4

\* A token that is split is not the end of file.
LEMMA SeesBracket ==
  ASSUME StreamInv, NEW op \in {">>", ">="}, Sees({op})
  PROVE  cursor < Len(TokStream) /\ peek.tok_type = op
<1>1. op \in Names(peek)
  BY DEF Sees
<1>2. op # "integer" /\ op # "EOF" /\ op \notin Words
  BY DEF Words
<1>3. peek.tok_type = op
  BY <1>1, <1>2 DEF Names
<1> QED BY <1>2, <1>3, BeforeEnd

LEMMA CloseSplits ==
  ASSUME StreamInv, consumeClosingAngleBracket  PROVE Moved \/ Splits
<1>1. \/ consume
      \/ Sees({">>"}) /\ SplitAndConsume(GreaterThan, GreaterThan)
      \/ Sees({">="}) /\ SplitAndConsume(GreaterThan, Assign)
      \/ UNCHANGED streamVars
  BY DEF consumeClosingAngleBracket
<1> QED BY <1>1, ConsumeMoves, SeesBracket, Stays DEF Splits, Halves

LEMMA NextOnStream ==
  ASSUME StreamInv, Next  PROVE StreamStep /\ source' = source
<1>1. CASE expect
  <2>1. (consume \/ UNCHANGED streamVars) /\ source' = source
    BY <1>1 DEF expect
  <2> QED BY <2>1, ConsumeMoves, Stays DEF StreamStep
<1>2. CASE TakeToken
  BY <1>2, ConsumeMoves DEF TakeToken, StreamStep
<1>3. CASE GiveBack
  BY <1>3, BackMoves DEF GiveBack, StreamStep
<1>4. CASE SkipAhead
  BY <1>4, ExhaustMoves DEF SkipAhead, StreamStep
<1>5. CASE consumeClosingAngleBracket
  <2>1. source' = source
    BY <1>5 DEF consumeClosingAngleBracket
  <2> QED BY <1>5, <2>1, CloseSplits DEF StreamStep
<1>6. CASE Speculate
  BY <1>6 DEF Speculate, StreamStep
<1>7. CASE ParseBinaryExpr
  <2>1. (consume \/ UNCHANGED streamVars) /\ source' = source
    BY <1>7 DEF ParseBinaryExpr
  <2> QED BY <2>1, ConsumeMoves, Stays DEF StreamStep
<1>8. CASE \/ LookAhead \/ CallFunction \/ TryParsers \/ Return \/ Loop \/ Break \/ FlagError
           \/ imm_error \/ BuildNode \/ InspectNodes \/ AddAlias \/ PendingDeref \/ NullLocation
           \/ TighterFirst \/ Combine
  <2>1. UNCHANGED streamVars /\ source' = source
    BY <1>8 DEF LookAhead, CallFunction, TryParsers, Return, Loop, Break, FlagError, imm_error,
      BuildNode, InspectNodes, AddAlias, PendingDeref, NullLocation, TighterFirst, Combine
  <2> QED BY <2>1, Stays, Zenon DEF StreamStep
<1> QED BY <1>1, <1>2, <1>3, <1>4, <1>5, <1>6, <1>7, <1>8 DEF Next

-----------------------------------------------------------------------------
(* The history grows with a split and is taken back by a rollback *)

LEMMA MovedKeeps ==
  ASSUME StreamInv, Moved, source' = source, NEW h, Recorded(h)
  PROVE  StreamInv' /\ Recorded(h)'
<1>1. Recorded(h)'
  BY DEF Recorded, Moved
<1> QED BY <1>1 DEF StreamInv, Moved

LEMMA MarkKeeps ==
  ASSUME StreamInv, mark_rollback, source' = source, NEW h, Recorded(h)
  PROVE  StreamInv' /\ Recorded(h)'
<1> DEFINE mark == [cursor |-> cursor, splits_at_mark |-> Len(pending_splits)]
           R == rollback_stack
           N == Len(pending_splits)
<1>1. /\ UNCHANGED <<TokStream, cursor, pending_splits>>
      /\ rollback_stack' = Append(R, mark)
  BY DEF mark_rollback
<1>2. N \in Nat /\ cursor \in 1 .. Len(TokStream) /\ Len(TokStream) \in Nat
  BY DEF StreamInv
<1>3. mark \in MarkSet /\ mark.cursor = cursor /\ mark.splits_at_mark = N
  BY <1>2 DEF MarkSet
<1> HIDE DEF mark
<1>4. Marked(h, rollback_stack', N)
  <2>1. R \in Seq(MarkSet) /\ Len(R) \in Nat /\ DOMAIN R = 1 .. Len(R)
    BY DEF Recorded, Marked
  <2>2. /\ rollback_stack' \in Seq(MarkSet) /\ Len(rollback_stack') = Len(R) + 1
        /\ \A i \in 1 .. Len(R) : rollback_stack'[i] = R[i]
        /\ rollback_stack'[Len(R) + 1] = mark
    BY <2>1, <1>1, <1>3, AppendToSeq
  <2>3. DOMAIN rollback_stack' = 1 .. Len(R) + 1
    BY <2>2
  <2>4. \A i \in 1 .. Len(R) :
          /\ R[i].splits_at_mark <= N /\ R[i].cursor \in 1 .. Len(h[R[i].splits_at_mark])
          /\ \A j \in 1 .. Len(R) : i <= j => R[i].splits_at_mark <= R[j].splits_at_mark
    BY <2>1 DEF Recorded, Marked
  <2>5. mark.cursor \in 1 .. Len(h[mark.splits_at_mark])
    BY <1>2, <1>3 DEF Recorded, History
  <2>6. ASSUME NEW i \in 1 .. Len(R) + 1
        PROVE  /\ rollback_stack'[i].splits_at_mark <= N
               /\ rollback_stack'[i].cursor \in 1 .. Len(h[rollback_stack'[i].splits_at_mark])
               /\ \A j \in 1 .. Len(R) + 1 :
                    i <= j => rollback_stack'[i].splits_at_mark <= rollback_stack'[j].splits_at_mark
    <3>1. CASE i = Len(R) + 1
      <4>1. \A j \in 1 .. Len(R) + 1 : i <= j => j = i
        BY <3>1, <2>1
      <4> QED BY <4>1, <3>1, <2>2, <2>5, <1>2, <1>3
    <3>2. CASE i \in 1 .. Len(R)
      <4>1. \A j \in 1 .. Len(R) + 1 : j = Len(R) + 1 \/ j \in 1 .. Len(R)
        BY <2>1
      <4> QED BY <4>1, <3>2, <2>2, <2>4, <1>3
    <3> QED BY <3>1, <3>2, <2>1
  <2> QED BY <2>2, <2>3, <2>6 DEF Marked
<1>5. Recorded(h)'
  BY <1>1, <1>4 DEF Recorded
<1> QED BY <1>1, <1>5 DEF StreamInv

\* A prefix of the marks is about the same streams.
LEMMA FewerMarks ==
  ASSUME NEW h, NEW marks, NEW N, NEW M \in Nat, Marked(h, marks, N), marks # <<>>,
         \A i \in DOMAIN marks : marks[i].splits_at_mark <= M
  PROVE  Marked(h, Front(marks), M)
<1>1. marks \in Seq(MarkSet)
  BY DEF Marked
<1>2. PICK n \in Nat : Len(marks) = n + 1
  BY <1>1, NonEmptySeq
<1>3. /\ Front(marks) \in Seq(MarkSet) /\ Len(Front(marks)) = n
      /\ \A i \in 1 .. n : Front(marks)[i] = marks[i]
  BY <1>1, <1>2, FrontOfSeq
<1>4. DOMAIN marks = 1 .. n + 1 /\ DOMAIN Front(marks) = 1 .. n
  BY <1>1, <1>2, <1>3, LenProperties
<1>5. \A i \in 1 .. n : i \in 1 .. n + 1
  BY <1>2
<1> QED BY <1>3, <1>4, <1>5 DEF Marked

LEMMA CommitKeeps ==
  ASSUME StreamInv, commit_rollback, source' = source, NEW h, Recorded(h)
  PROVE  StreamInv' /\ Recorded(h)'
<1>1. /\ UNCHANGED <<TokStream, cursor, pending_splits>>
      /\ rollback_stack # <<>> /\ rollback_stack' = Front(rollback_stack)
  BY DEF commit_rollback
<1>2. Recorded(h)'
  <2>1. Len(pending_splits) \in Nat
    BY DEF StreamInv
  <2>2. Marked(h, rollback_stack, Len(pending_splits))
    BY DEF Recorded
  <2>3. \A i \in DOMAIN rollback_stack : rollback_stack[i].splits_at_mark <= Len(pending_splits)
    BY <2>2 DEF Marked
  <2>4. Marked(h, Front(rollback_stack), Len(pending_splits))
    BY <1>1, <2>1, <2>2, <2>3, FewerMarks
  <2> QED BY <1>1, <2>4 DEF Recorded
<1> QED BY <1>1, <1>2 DEF StreamInv

\* What a rollback restores is the stream of its mark.
LEMMA RollbackRestores ==
  ASSUME StreamInv, rollback, NEW h, Recorded(h)
  PROVE  /\ Last(rollback_stack) \in MarkSet
         /\ Last(rollback_stack).splits_at_mark \in 0 .. Len(pending_splits)
         /\ \A i \in DOMAIN rollback_stack :
              rollback_stack[i].splits_at_mark <= Last(rollback_stack).splits_at_mark
         /\ TokStream' = h[Last(rollback_stack).splits_at_mark]
         /\ cursor' = Last(rollback_stack).cursor
         /\ Last(rollback_stack).cursor \in 1 .. Len(h[Last(rollback_stack).splits_at_mark])
<1> DEFINE R == rollback_stack
           n == Last(R).splits_at_mark
<1>1. R # <<>> /\ TokStream' = Undone(n) /\ cursor' = Last(R).cursor
  BY DEF rollback
<1>2. Marked(h, R, Len(pending_splits)) /\ R \in Seq(MarkSet) /\ Len(pending_splits) \in Nat
  BY DEF Recorded, Marked, StreamInv
<1>3. PICK m \in Nat : Len(R) = m + 1
  BY <1>1, <1>2, NonEmptySeq
<1>4. Last(R) \in MarkSet /\ Last(R) = R[m + 1] /\ DOMAIN R = 1 .. m + 1
  BY <1>2, <1>3, FrontOfSeq, LenProperties
<1>5. m + 1 \in 1 .. m + 1 /\ \A i \in 1 .. m + 1 : i <= m + 1
  BY <1>3
<1>6. n \in Nat
  BY <1>4 DEF MarkSet
<1>7. /\ n <= Len(pending_splits)
      /\ Last(R).cursor \in 1 .. Len(h[n])
      /\ \A i \in DOMAIN R : R[i].splits_at_mark <= n
  BY <1>2, <1>4, <1>5 DEF Marked
<1> HIDE DEF n
<1>8. n \in 0 .. Len(pending_splits)
  BY <1>2, <1>6, <1>7
<1>9. TokStream' = h[n]
  BY <1>1, <1>8, UndoneIs
<1> QED BY <1>1, <1>4, <1>7, <1>8, <1>9 DEF n

LEMMA RollbackKeeps ==
  ASSUME StreamInv, rollback, source' = source, NEW h, Recorded(h)
  PROVE  /\ StreamInv' /\ Len(pending_splits') = Last(rollback_stack).splits_at_mark
         /\ \E f : /\ Recorded(f)'
                   /\ \A k \in 0 .. Last(rollback_stack).splits_at_mark : f[k] = h[k]
<1>1. Recorded(h)
  OBVIOUS
<1> DEFINE R == rollback_stack
           n == Last(R).splits_at_mark
           N == Len(pending_splits)
<1>2. /\ n \in 0 .. N /\ N \in Nat
      /\ \A i \in DOMAIN R : R[i].splits_at_mark <= n
      /\ TokStream' = h[n] /\ cursor' = Last(R).cursor
      /\ cursor' \in 1 .. Len(h[n])
  BY <1>1, RollbackRestores DEF StreamInv
<1>3. R # <<>> /\ rollback_stack' = Front(R) /\ pending_splits' = SubSeq(pending_splits, 1, n)
  BY DEF rollback
<1>4. Marked(h, R, N) /\ History(h, TokStream, pending_splits) /\ h[0] = Append(source, EOF)
  BY <1>1 DEF Recorded
<1>5. n \in Nat
  BY <1>2
<1> HIDE DEF n
<1>6. Marked(h, rollback_stack', n)
  BY <1>2, <1>3, <1>4, <1>5, FewerMarks
<1>7. /\ pending_splits' \in Seq(Split) /\ Len(pending_splits') = n
      /\ \A k \in 1 .. n : pending_splits'[k] = pending_splits[k]
  <2>1. \A k \in 1 .. n : pending_splits[k] \in Split
    <3>1. pending_splits \in Seq(Split) /\ \A k \in 1 .. n : k \in 1 .. Len(pending_splits)
      BY <1>2 DEF StreamInv
    <3> QED BY <3>1, ElementOfSeq
  <2>2. /\ SubSeq(pending_splits, 1, n) \in Seq(Split)
        /\ Len(SubSeq(pending_splits, 1, n)) = IF 1 <= n THEN (n - 1) + 1 ELSE 0
        /\ \A k \in 1 .. (n - 1) + 1 : SubSeq(pending_splits, 1, n)[k] = pending_splits[(1 + k) - 1]
    BY <1>5, <2>1, SubSeqProperties
  <2>3. (n - 1) + 1 = n /\ (1 <= n \/ n = 0) /\ \A k \in 1 .. n : (1 + k) - 1 = k
    BY <1>5
  <2> QED BY <1>3, <2>2, <2>3
<1> DEFINE g == [k \in 0 .. n |-> h[k]]
<1>8. \A k \in 0 .. n : g[k] = h[k]
  OBVIOUS
<1>9. History(g, TokStream', pending_splits')
  <2>1. /\ h \in [0 .. N -> Seq(Token)]
        /\ \A k \in 0 .. N - 1 : h[k] = Unsplit(pending_splits[k + 1], h[k + 1])
        /\ \A k \in 0 .. N : Ends(h[k])
    BY <1>4 DEF History
  <2>2. g \in [0 .. n -> Seq(Token)]
    <3>1. \A k \in 0 .. n : h[k] \in Seq(Token)
      BY <2>1, <1>2, <1>5
    <3> QED BY <3>1
  <2>3. \A k \in 0 .. n : k \in 0 .. N
    BY <1>2, <1>5
  <2>4. \A k \in 0 .. n - 1 : k \in 0 .. N - 1 /\ k \in 0 .. n /\ k + 1 \in 0 .. n /\ k + 1 \in 1 .. n
    BY <1>2, <1>5
  <2>5. n \in 0 .. n
    BY <1>5
  <2> HIDE DEF g, N
  <2>6. \A k \in 0 .. n - 1 : g[k] = Unsplit(pending_splits'[k + 1], g[k + 1])
    BY <2>1, <2>4, <1>7, <1>8
  <2>7. g[n] = TokStream' /\ \A k \in 0 .. n : Ends(g[k])
    BY <2>1, <2>3, <2>5, <1>2, <1>8
  <2> QED BY <2>2, <2>6, <2>7, <1>7 DEF History
<1>10. Marked(g, rollback_stack', n)
  <2>1. ASSUME NEW i \in DOMAIN rollback_stack'
        PROVE  rollback_stack'[i].splits_at_mark \in 0 .. n
    <3>1. rollback_stack' \in Seq(MarkSet) /\ rollback_stack'[i].splits_at_mark <= n
      BY <1>6, <2>1 DEF Marked
    <3>2. rollback_stack'[i] \in MarkSet
      BY <3>1, <2>1, ElementOfSeq, LenProperties
    <3> QED BY <3>1, <3>2, <1>5 DEF MarkSet
  <2> HIDE DEF g
  <2> QED BY <2>1, <1>6, <1>8 DEF Marked
<1>11. g[0] = Append(source', EOF)
  BY <1>4, <1>5, <1>8
<1>12. TokStream' \in Seq(Token) /\ Ends(TokStream')
  <2>1. n \in 0 .. Len(pending_splits)
    BY <1>2
  <2> QED BY <2>1, <1>2, <1>4 DEF History
<1> HIDE DEF g
<1>13. \E f : Recorded(f)' /\ \A k \in 0 .. n : f[k] = h[k]
  <2>1. PICK f : f = g
    OBVIOUS
  <2>2. Recorded(f)'
    BY <2>1, <1>7, <1>9, <1>10, <1>11 DEF Recorded
  <2> QED BY <2>1, <2>2, <1>8
<1>14. source' \in Seq(Token) /\ cursor' \in 1 .. Len(TokStream')
  BY <1>2 DEF StreamInv
<1> QED BY <1>7, <1>12, <1>13, <1>14 DEF StreamInv, n

LEMMA SplitKeeps ==
  ASSUME StreamInv, Splits, source' = source, NEW h, Recorded(h)
  PROVE  /\ StreamInv' /\ rollback_stack' = rollback_stack
         /\ Len(pending_splits') = Len(pending_splits) + 1
         /\ \E f : Recorded(f)' /\ \A k \in 0 .. Len(pending_splits) : f[k] = h[k]
<1>1. Recorded(h)
  OBVIOUS
<1>2. PICK first \in Token, second \in Token :
        cursor < Len(TokStream) /\ SplitAndConsume(first, second)
  BY DEF Splits, Halves, Token
<1> DEFINE N == Len(pending_splits)
           split == [inserted |-> cursor + 1, original |-> TokStream[cursor]]
           t == Halved(TokStream, cursor, first, second)
           g == [k \in 0 .. N + 1 |-> IF k <= N THEN h[k] ELSE t]
<1>3. /\ TokStream' = t /\ pending_splits' = Append(pending_splits, split)
      /\ cursor' = cursor + 1 /\ rollback_stack' = rollback_stack
  BY <1>2 DEF SplitAndConsume, Halved, peek
<1>4. /\ TokStream \in Seq(Token) /\ cursor \in 1 .. Len(TokStream)
      /\ Len(TokStream) \in Nat \ {0} /\ TokStream[Len(TokStream)].tok_type = "EOF"
      /\ pending_splits \in Seq(Split) /\ N \in Nat
  BY DEF StreamInv, Ends
<1>5. /\ t \in Seq(Token) /\ Len(t) = Len(TokStream) + 1
      /\ t[Len(TokStream) + 1] = TokStream[Len(TokStream)]
  <2>1. /\ t \in Seq(Token) /\ Len(t) = Len(TokStream) + 1
        /\ \A i \in 1 .. Len(TokStream) + 1 :
             t[i] = IF i < cursor THEN TokStream[i] ELSE IF i = cursor THEN first
                    ELSE IF i = cursor + 1 THEN second ELSE TokStream[i - 1]
    BY <1>2, <1>4, HalvedIs
  <2> DEFINE e == Len(TokStream) + 1
  <2>2. e \in 1 .. e /\ ~(e < cursor) /\ e # cursor /\ e # cursor + 1 /\ e - 1 = Len(TokStream)
    BY <1>2, <1>4
  <2> HIDE DEF t
  <2> QED BY <2>1, <2>2
<1>6. Unsplit(split, t) = TokStream
  BY <1>2, <1>4, UnsplitHalved
<1>7. split \in Split
  <2>1. TokStream[cursor] \in Token /\ cursor + 1 \in Nat
    BY <1>4, ElementOfSeq
  <2> QED BY <2>1 DEF Split
<1> HIDE DEF split, t
<1>8. /\ pending_splits' \in Seq(Split) /\ Len(pending_splits') = N + 1
      /\ \A k \in 1 .. N : pending_splits'[k] = pending_splits[k]
      /\ pending_splits'[N + 1] = split
  BY <1>3, <1>4, <1>7, AppendToSeq
<1>9. Ends(t)
  BY <1>4, <1>5 DEF Ends
<1>10. /\ h \in [0 .. N -> Seq(Token)] /\ h[N] = TokStream
       /\ \A k \in 0 .. N - 1 : h[k] = Unsplit(pending_splits[k + 1], h[k + 1])
       /\ \A k \in 0 .. N : Ends(h[k])
       /\ h[0] = Append(source, EOF) /\ Marked(h, rollback_stack, N)
  BY <1>1 DEF Recorded, History
<1>11. /\ \A k \in 0 .. N : k \in 0 .. N + 1 /\ k <= N
       /\ N + 1 \in 0 .. N + 1 /\ ~(N + 1 <= N) /\ 0 \in 0 .. N /\ N \in 0 .. N
  BY <1>4
<1> HIDE DEF N
<1>12. (\A k \in 0 .. N : g[k] = h[k]) /\ g[N + 1] = t
  BY <1>11
<1>13. g \in [0 .. N + 1 -> Seq(Token)]
  <2>1. ASSUME NEW k \in 0 .. N + 1 PROVE (IF k <= N THEN h[k] ELSE t) \in Seq(Token)
    <3>1. CASE k <= N
      <4>1. k \in 0 .. N
        BY <3>1, <1>4
      <4> QED BY <3>1, <4>1, <1>10
    <3> QED BY <3>1, <1>5
  <2> QED BY <2>1
<1> HIDE DEF g
<1>14. ASSUME NEW k \in 0 .. N PROVE g[k] = Unsplit(pending_splits'[k + 1], g[k + 1])
  <2>1. CASE k = N
    BY <2>1, <1>3, <1>6, <1>8, <1>10, <1>11, <1>12
  <2>2. CASE k \in 0 .. N - 1
    <3>1. k + 1 \in 0 .. N /\ k + 1 \in 1 .. N
      BY <2>2, <1>4
    <3> QED BY <3>1, <2>2, <1>8, <1>10, <1>12
  <2>3. k = N \/ k \in 0 .. N - 1
    BY <1>4
  <2> QED BY <2>1, <2>2, <2>3
<1>15. ASSUME NEW k \in 0 .. N + 1 PROVE Ends(g[k])
  <2>1. k \in 0 .. N \/ k = N + 1
    BY <1>4
  <2> QED BY <2>1, <1>9, <1>10, <1>12
<1>16. History(g, TokStream', pending_splits')
  <2>1. (N + 1) - 1 = N
    BY <1>4
  <2> QED BY <2>1, <1>3, <1>8, <1>12, <1>13, <1>14, <1>15 DEF History
<1>17. Marked(g, rollback_stack', N + 1)
  <2>1. ASSUME NEW i \in DOMAIN rollback_stack
        PROVE  /\ rollback_stack[i].splits_at_mark \in 0 .. N
               /\ rollback_stack[i].splits_at_mark <= N + 1
    <3>1. rollback_stack \in Seq(MarkSet) /\ rollback_stack[i].splits_at_mark <= N
      BY <1>10, <2>1 DEF Marked
    <3>2. rollback_stack[i] \in MarkSet
      BY <3>1, <2>1, ElementOfSeq, LenProperties
    <3> QED BY <3>1, <3>2, <1>4 DEF MarkSet
  <2> QED BY <2>1, <1>3, <1>10, <1>12 DEF Marked
<1>18. \E f : Recorded(f)' /\ \A k \in 0 .. N : f[k] = h[k]
  <2>1. g[0] = Append(source', EOF)
    BY <1>10, <1>11, <1>12
  <2>2. PICK f : f = g
    OBVIOUS
  <2>3. Recorded(f)'
    BY <2>1, <2>2, <1>8, <1>16, <1>17 DEF Recorded
  <2> QED BY <2>2, <2>3, <1>12
<1>19. source' \in Seq(Token) /\ cursor' \in 1 .. Len(TokStream')
  BY <1>2, <1>3, <1>4, <1>5 DEF StreamInv
<1> QED BY <1>3, <1>5, <1>8, <1>9, <1>18, <1>19 DEF StreamInv, N

LEMMA StepKeeps ==
  ASSUME StreamInv, [Next]_vars  PROVE StreamInv'
<1>1. CASE Next
  <2>1. StreamStep /\ source' = source
    BY <1>1, NextOnStream
  <2>2. PICK h : Recorded(h)
    BY DEF StreamInv
  <2> QED BY <2>1, <2>2, MovedKeeps, MarkKeeps, CommitKeeps, RollbackKeeps, SplitKeeps
           DEF StreamStep
<1>2. CASE UNCHANGED vars
  <2>1. UNCHANGED streamVars /\ source' = source
    BY <1>2 DEF vars
  <2> QED BY <2>1, Stays, MovedKeeps DEF StreamInv
<1> QED BY <1>1, <1>2

LEMMA StreamHolds == Spec => []StreamInv
BY StartsRecorded, StepKeeps, PTL DEF Spec

-----------------------------------------------------------------------------
(* What follows for the file *)

\* For any files and whatever the parse functions do: no token of the file is
\* lost or changed by splitting and rolling back.
THEOREM TokensAreKept == Spec => []TokensKept
<1>1. StreamInv => TokensKept
  <2> SUFFICES ASSUME StreamInv PROVE TokensKept
    OBVIOUS
  <2>1. PICK h : Recorded(h)
    BY DEF StreamInv
  <2>2. 0 \in 0 .. Len(pending_splits) /\ source \in Seq(Token) /\ EOF \in Token
    BY DEF StreamInv, Token
  <2>3. Undone(0) = Append(source, EOF)
    BY <2>1, <2>2, UndoneIs DEF Recorded
  <2>4. Front(Append(source, EOF)) = source
    <3> DEFINE u == Append(source, EOF)
    <3>1. /\ u \in Seq(Token) /\ Len(u) = Len(source) + 1 /\ Len(source) \in Nat
          /\ \A i \in 1 .. Len(source) : u[i] = source[i]
      BY <2>2, AppendToSeq
    <3> HIDE DEF u
    <3>2. /\ Front(u) \in Seq(Token) /\ Len(Front(u)) = Len(source)
          /\ \A i \in 1 .. Len(source) : Front(u)[i] = u[i]
      BY <3>1, FrontOfSeq
    <3>3. Front(u) = source
      BY <3>1, <3>2, <2>2, SeqEqual
    <3> QED BY <3>3 DEF u
  <2> QED BY <2>3, <2>4 DEF TokensKept
<1> QED BY <1>1, StreamHolds, PTL

-----------------------------------------------------------------------------
(* The stream does what one that keeps copies of itself would do *)

Kept == [tokens : Seq(Token), cursor : Nat]
KeptBy(h, mark) == [tokens |-> h[mark.splits_at_mark], cursor |-> mark.cursor]
FromStart(h) == [tokens |-> h[0], cursor |-> 1]

\* s is what the marks stand for, along the history h.
Copies(s, h, marks) ==
  /\ s \in Seq(Kept) /\ Len(s) = Len(marks) + 1
  /\ s[1] = FromStart(h)
  /\ \A i \in 1 .. Len(marks) : s[i + 1] = KeptBy(h, marks[i])

SavedBy(tokens, splits, marks) ==
  <<[tokens |-> Undo(tokens, splits, 0), cursor |-> 1]>>
    \o [i \in DOMAIN marks |->
          [tokens |-> Undo(tokens, splits, marks[i].splits_at_mark), cursor |-> marks[i].cursor]]

LEMMA SavedCopies ==
  ASSUME NEW tokens, NEW splits, NEW marks, NEW h, Len(splits) \in Nat,
         History(h, tokens, splits), Marked(h, marks, Len(splits))
  PROVE  Copies(SavedBy(tokens, splits, marks), h, marks)
<1> DEFINE N == Len(splits)
           n == Len(marks)
           u == [i \in 1 .. n |-> KeptBy(h, marks[i])]
<1>1. marks \in Seq(MarkSet) /\ n \in Nat /\ DOMAIN marks = 1 .. n
  BY DEF Marked
<1>2. ASSUME NEW i \in 1 .. n
      PROVE  marks[i].splits_at_mark \in 0 .. N /\ marks[i].cursor \in Nat
  <2>1. marks[i] \in MarkSet
    BY <1>1, ElementOfSeq
  <2>2. marks[i].splits_at_mark <= N
    BY <1>1 DEF Marked
  <2> QED BY <2>1, <2>2 DEF MarkSet
<1>3. \A k \in 0 .. N : Undo(tokens, splits, k) = h[k] /\ h[k] \in Seq(Token)
  <2>1. h \in [0 .. N -> Seq(Token)]
    BY DEF History
  <2>2. \A k \in 0 .. N : Undo(tokens, splits, k) = h[k]
    BY UndoIs
  <2> HIDE DEF N
  <2> QED BY <2>1, <2>2
<1>4. \A i \in 1 .. n : KeptBy(h, marks[i]) \in Kept
  BY <1>2, <1>3 DEF Kept, KeptBy
<1>5. FromStart(h) \in Kept
  BY <1>3 DEF Kept, FromStart
<1>6. SavedBy(tokens, splits, marks) = <<FromStart(h)>> \o u
  <2>1. Undo(tokens, splits, 0) = h[0]
    BY <1>3
  <2>2. [i \in DOMAIN marks |-> [tokens |-> Undo(tokens, splits, marks[i].splits_at_mark),
                                 cursor |-> marks[i].cursor]] = u
    <3>1. \A i \in 1 .. n : [tokens |-> Undo(tokens, splits, marks[i].splits_at_mark),
                             cursor |-> marks[i].cursor] = KeptBy(h, marks[i])
      BY <1>2, <1>3 DEF KeptBy
    <3> HIDE DEF n
    <3> QED BY <3>1, <1>1
  <2> HIDE DEF u
  <2> QED BY <2>1, <2>2 DEF SavedBy, FromStart
<1>7. u \in Seq(Kept) /\ Len(u) = n /\ \A i \in 1 .. n : u[i] = KeptBy(h, marks[i])
  <2> HIDE DEF n
  <2> QED BY <1>1, <1>4
<1> DEFINE b == <<FromStart(h)>>
<1>8. b \in Seq(Kept) /\ Len(b) = 1 /\ b[1] = FromStart(h)
  BY <1>5
<1> HIDE DEF u, b, n
<1>9. /\ b \o u \in Seq(Kept) /\ Len(b \o u) = Len(b) + Len(u)
      /\ \A i \in 1 .. Len(b) + Len(u) : (b \o u)[i] = IF i <= Len(b) THEN b[i] ELSE u[i - Len(b)]
  BY <1>7, <1>8, ConcatProperties
<1>10. (b \o u)[1] = FromStart(h) /\ Len(b \o u) = n + 1
  BY <1>1, <1>7, <1>8, <1>9
<1>11. ASSUME NEW i \in 1 .. n PROVE (b \o u)[i + 1] = KeptBy(h, marks[i])
  <2>1. i + 1 \in 1 .. 1 + n /\ ~(i + 1 <= 1) /\ (i + 1) - 1 = i
    BY <1>1
  <2>2. (b \o u)[i + 1] = u[i]
    BY <2>1, <1>7, <1>8, <1>9
  <2> QED BY <2>2, <1>7
<1> QED BY <1>6, <1>9, <1>10, <1>11 DEF Copies, b, n

LEMMA SavedNow ==
  ASSUME StreamInv, NEW h, Recorded(h)  PROVE Copies(Saved, h, rollback_stack)
<1>1. Saved = SavedBy(TokStream, pending_splits, rollback_stack)
  BY DEF Saved, SavedBy, Undone
<1>2. Len(pending_splits) \in Nat
  BY DEF StreamInv
<1> QED BY <1>1, <1>2, SavedCopies DEF Recorded

LEMMA SavedNext ==
  ASSUME StreamInv', NEW h, Recorded(h)'  PROVE Copies(Saved', h, rollback_stack')
<1>1. Saved' = SavedBy(TokStream', pending_splits', rollback_stack')
  BY DEF Saved, SavedBy, Undone
<1>2. Len(pending_splits') \in Nat
  BY DEF StreamInv
<1> QED BY <1>1, <1>2, SavedCopies DEF Recorded

LEMMA SameCopies ==
  ASSUME NEW s, NEW t, NEW h, NEW f, NEW marks, NEW M \in Nat, Marked(h, marks, M),
         \A k \in 0 .. M : f[k] = h[k], Copies(s, h, marks), Copies(t, f, marks)
  PROVE  s = t
<1> DEFINE n == Len(marks)
<1>1. marks \in Seq(MarkSet) /\ n \in Nat /\ DOMAIN marks = 1 .. n
  BY DEF Marked
<1>2. ASSUME NEW i \in 1 .. n PROVE KeptBy(h, marks[i]) = KeptBy(f, marks[i])
  <2>1. marks[i] \in MarkSet
    BY <1>1, ElementOfSeq
  <2>2. marks[i].splits_at_mark <= M /\ marks[i].splits_at_mark \in Nat
    BY <1>1, <2>1 DEF Marked, MarkSet
  <2>3. marks[i].splits_at_mark \in 0 .. M
    BY <2>2
  <2> QED BY <2>3 DEF KeptBy
<1>3. FromStart(h) = FromStart(f)
  BY DEF FromStart
<1>4. s \in Seq(Kept) /\ t \in Seq(Kept) /\ Len(s) = n + 1 /\ Len(t) = n + 1
  BY DEF Copies
<1>5. \A i \in 1 .. n : s[i + 1] = KeptBy(h, marks[i]) /\ t[i + 1] = KeptBy(f, marks[i])
  BY DEF Copies
<1>6. s[1] = t[1]
  BY <1>3 DEF Copies
<1> HIDE DEF n
<1>7. ASSUME NEW j \in 1 .. n + 1 PROVE s[j] = t[j]
  <2>1. CASE j = 1
    BY <2>1, <1>6
  <2>2. CASE j # 1
    <3>1. PICK i \in 1 .. n : j = i + 1
      <4>1. j - 1 \in 1 .. n /\ j = (j - 1) + 1
        BY <2>2, <1>1
      <4> QED BY <4>1
    <3> QED BY <3>1, <1>2, <1>5
  <2> QED BY <2>1, <2>2
<1> QED BY <1>4, <1>7, SeqEqual

\* A mark saves what is there.
LEMMA CopiesGrow ==
  ASSUME NEW s, NEW t, NEW h, NEW marks \in Seq(MarkSet), NEW mark \in MarkSet,
         Copies(s, h, marks), Copies(t, h, Append(marks, mark))
  PROVE  t = Append(s, KeptBy(h, mark))
<1> DEFINE n == Len(marks)
           u == Append(marks, mark)
           k == KeptBy(h, mark)
<1>1. /\ n \in Nat /\ Len(u) = n + 1 /\ u[n + 1] = mark
      /\ \A i \in 1 .. n : u[i] = marks[i]
  BY AppendToSeq
<1>2. s \in Seq(Kept) /\ Len(s) = n + 1 /\ s[1] = FromStart(h)
      /\ \A i \in 1 .. n : s[i + 1] = KeptBy(h, marks[i])
  BY DEF Copies
<1> HIDE DEF u, n
<1>3. t \in Seq(Kept) /\ Len(t) = (n + 1) + 1 /\ t[1] = FromStart(h)
      /\ \A i \in 1 .. n + 1 : t[i + 1] = KeptBy(h, u[i])
  BY <1>1 DEF Copies, u
<1>4. n + 1 \in 1 .. n + 1 /\ (n + 1) + 1 \in 1 .. (n + 1) + 1
  BY <1>1
<1> HIDE DEF k
<1>5. k \in Kept /\ t[(n + 1) + 1] = k
  <2>1. t[(n + 1) + 1] = k
    BY <1>1, <1>3, <1>4 DEF k
  <2>2. t[(n + 1) + 1] \in Kept
    BY <1>3, <1>4, ElementOfSeq
  <2> QED BY <2>1, <2>2
<1>6. /\ Append(s, k) \in Seq(Kept) /\ Len(Append(s, k)) = (n + 1) + 1
      /\ \A i \in 1 .. n + 1 : Append(s, k)[i] = s[i]
      /\ Append(s, k)[(n + 1) + 1] = k
  BY <1>2, <1>5, AppendToSeq
<1>7. ASSUME NEW j \in 1 .. (n + 1) + 1 PROVE t[j] = Append(s, k)[j]
  <2>1. CASE j = 1
    BY <2>1, <1>1, <1>2, <1>3, <1>6
  <2>2. CASE j = (n + 1) + 1
    BY <2>2, <1>5, <1>6
  <2>3. CASE j # 1 /\ j # (n + 1) + 1
    <3>1. PICK i \in 1 .. n : j = i + 1
      <4>1. j - 1 \in 1 .. n /\ j = (j - 1) + 1
        BY <2>3, <1>1
      <4> QED BY <4>1
    <3>2. i \in 1 .. n + 1 /\ j \in 1 .. n + 1
      BY <3>1, <1>1
    <3> QED BY <3>1, <3>2, <1>1, <1>2, <1>3, <1>6
  <2> QED BY <2>1, <2>2, <2>3
<1>8. t = Append(s, k)
  BY <1>3, <1>6, <1>7, SeqEqual
<1> QED BY <1>8 DEF k

\* A commit and a rollback give up what the last mark saved.
LEMMA CopiesShrink ==
  ASSUME NEW s, NEW h, NEW marks \in Seq(MarkSet), marks # <<>>, Copies(s, h, marks)
  PROVE  /\ Len(s) > 1 /\ Last(s) = KeptBy(h, Last(marks))
         /\ Copies(Front(s), h, Front(marks))
<1>1. PICK n \in Nat : Len(marks) = n + 1
  BY NonEmptySeq
<1>2. /\ Front(marks) \in Seq(MarkSet) /\ Len(Front(marks)) = n
      /\ \A i \in 1 .. n : Front(marks)[i] = marks[i]
      /\ Last(marks) = marks[n + 1]
  BY <1>1, FrontOfSeq
<1>3. s \in Seq(Kept) /\ Len(s) = (n + 1) + 1 /\ s[1] = FromStart(h)
      /\ \A i \in 1 .. n + 1 : s[i + 1] = KeptBy(h, marks[i])
  BY <1>1 DEF Copies
<1>4. /\ Front(s) \in Seq(Kept) /\ Len(Front(s)) = n + 1
      /\ \A i \in 1 .. n + 1 : Front(s)[i] = s[i]
      /\ Last(s) = s[(n + 1) + 1]
  <2>1. n + 1 \in Nat
    OBVIOUS
  <2> QED BY <2>1, <1>3, FrontOfSeq
<1>5. Len(s) > 1 /\ n + 1 \in 1 .. n + 1 /\ 1 \in 1 .. n + 1
      /\ \A i \in 1 .. n : i \in 1 .. n + 1 /\ i + 1 \in 1 .. n + 1
  BY <1>3
<1>6. Last(s) = KeptBy(h, Last(marks))
  BY <1>2, <1>3, <1>4, <1>5
<1>7. Front(s)[1] = FromStart(h)
  BY <1>3, <1>4, <1>5
<1>8. ASSUME NEW i \in 1 .. n PROVE Front(s)[i + 1] = KeptBy(h, Front(marks)[i])
  BY <1>2, <1>3, <1>4, <1>5
<1> QED BY <1>2, <1>4, <1>5, <1>6, <1>7, <1>8 DEF Copies

\* The split token stands where the one token stood.
LEMMA HalvedParts ==
  ASSUME NEW t \in Seq(Token), NEW c \in 1 .. Len(t), c < Len(t),
         NEW first \in Token, NEW second \in Token
  PROVE  /\ Halved(t, c, first, second)[c] = first
         /\ Halved(t, c, first, second)[c + 1] = second
         /\ Halved(t, c, first, second)
              = SubSeq(t, 1, c - 1) \o <<first, second>> \o SubSeq(t, c + 1, Len(t))
<1>0. /\ Halved(t, c, first, second) \in Seq(Token)
      /\ Len(Halved(t, c, first, second)) = Len(t) + 1
      /\ \A i \in 1 .. Len(t) + 1 :
           Halved(t, c, first, second)[i] =
             IF i < c THEN t[i] ELSE IF i = c THEN first
             ELSE IF i = c + 1 THEN second ELSE t[i - 1]
  BY HalvedIs
<1> DEFINE N == Len(t)
           h == Halved(t, c, first, second)
           a == SubSeq(t, 1, c - 1)
           m == <<first, second>>
           b == SubSeq(t, c + 1, N)
<1>1. /\ h \in Seq(Token) /\ Len(h) = N + 1
      /\ \A i \in 1 .. N + 1 :
           h[i] = IF i < c THEN t[i] ELSE IF i = c THEN first
                  ELSE IF i = c + 1 THEN second ELSE t[i - 1]
  BY <1>0, Zenon
<1>2. N \in Nat /\ c \in Nat /\ c >= 1 /\ c < N
  OBVIOUS
<1>3. a \in Seq(Token) /\ Len(a) = c - 1 /\ \A i \in 1 .. c - 1 : a[i] = t[i]
  <2>1. \A i \in 1 .. c - 1 : t[i] \in Token
    BY <1>2, ElementOfSeq
  <2>2. 1 \in Int /\ c - 1 \in Int
    BY <1>2
  <2> QED BY <2>1, <2>2, <1>2, SubSeqProperties
<1>4. b \in Seq(Token) /\ Len(b) = N - c /\ \A i \in 1 .. N - c : b[i] = t[c + i]
  <2>1. \A i \in c + 1 .. N : t[i] \in Token
    BY <1>2, ElementOfSeq
  <2>2. Len(b) = N - c /\ b \in Seq(Token)
        /\ \A i \in 1 .. N - (c + 1) + 1 : b[i] = t[c + 1 + i - 1]
    BY <2>1, <1>2, SubSeqProperties
  <2>3. \A i \in 1 .. N - c : c + 1 + i - 1 = c + i /\ i \in 1 .. N - (c + 1) + 1
    BY <1>2
  <2> QED BY <2>2, <2>3
<1>5. m \in Seq(Token) /\ Len(m) = 2 /\ m[1] = first /\ m[2] = second
  OBVIOUS
<1> HIDE DEF h, a, b, m, N
<1>6. /\ a \o m \in Seq(Token) /\ Len(a \o m) = c + 1
      /\ \A i \in 1 .. c + 1 : (a \o m)[i] = IF i <= c - 1 THEN a[i] ELSE m[i - (c - 1)]
  <2>1. /\ a \o m \in Seq(Token) /\ Len(a \o m) = Len(a) + Len(m)
        /\ \A i \in 1 .. Len(a) + Len(m) :
             (a \o m)[i] = IF i <= Len(a) THEN a[i] ELSE m[i - Len(a)]
    BY <1>3, <1>5, ConcatProperties
  <2>2. (c - 1) + 2 = c + 1
    BY <1>2
  <2> QED BY <2>1, <2>2, <1>3, <1>5
<1> DEFINE d == a \o m
<1>7. d \in Seq(Token) /\ Len(d) = c + 1
  BY <1>6
<1> HIDE DEF d
<1>8. /\ d \o b \in Seq(Token) /\ Len(d \o b) = N + 1
      /\ \A i \in 1 .. N + 1 : (d \o b)[i] = IF i <= c + 1 THEN d[i] ELSE b[i - (c + 1)]
  <2>1. /\ d \o b \in Seq(Token) /\ Len(d \o b) = Len(d) + Len(b)
        /\ \A i \in 1 .. Len(d) + Len(b) :
             (d \o b)[i] = IF i <= Len(d) THEN d[i] ELSE b[i - Len(d)]
    BY <1>4, <1>7, ConcatProperties
  <2>2. (c + 1) + (N - c) = N + 1
    BY <1>2
  <2> QED BY <2>1, <2>2, <1>4, <1>7
<1>9. ASSUME NEW i \in 1 .. N + 1 PROVE (d \o b)[i] = h[i]
  <2>1. CASE i < c
    <3>1. i \in 1 .. c - 1 /\ i \in 1 .. c + 1 /\ i <= c - 1 /\ i <= c + 1
      BY <2>1, <1>2
    <3> QED BY <3>1, <2>1, <1>1, <1>3, <1>6, <1>8 DEF d
  <2>2. CASE i = c
    <3>1. i \in 1 .. c + 1 /\ ~(i <= c - 1) /\ i <= c + 1 /\ i - (c - 1) = 1 /\ ~(i < c)
      BY <2>2, <1>2
    <3> QED BY <3>1, <2>2, <1>1, <1>5, <1>6, <1>8 DEF d
  <2>3. CASE i = c + 1
    <3>1. i \in 1 .. c + 1 /\ ~(i <= c - 1) /\ i <= c + 1 /\ i - (c - 1) = 2 /\ ~(i < c) /\ i # c
      BY <2>3, <1>2
    <3> QED BY <3>1, <2>3, <1>1, <1>5, <1>6, <1>8 DEF d
  <2>4. CASE i > c + 1
    <3>1. /\ ~(i <= c + 1) /\ i - (c + 1) \in 1 .. N - c /\ c + (i - (c + 1)) = i - 1
          /\ ~(i < c) /\ i # c /\ i # c + 1
      BY <2>4, <1>2
    <3>2. (d \o b)[i] = b[i - (c + 1)]
      BY <3>1, <1>8
    <3>3. b[i - (c + 1)] = t[i - 1]
      BY <3>1, <1>4
    <3>4. h[i] = t[i - 1]
      BY <3>1, <1>1
    <3> QED BY <3>2, <3>3, <3>4
  <2>5. i < c \/ i = c \/ i = c + 1 \/ i > c + 1
    BY <1>2
  <2> QED BY <2>1, <2>2, <2>3, <2>4, <2>5
<1>10. d \o b = h
  BY <1>1, <1>8, <1>9, SeqEqual
<1>11. h[c] = first /\ h[c + 1] = second
  <2>1. c \in 1 .. N + 1 /\ ~(c < c) /\ c + 1 \in 1 .. N + 1 /\ ~(c + 1 < c) /\ c + 1 # c
    BY <1>2
  <2> QED BY <2>1, <1>1
<1> QED BY <1>10, <1>11 DEF d, h, a, m, b, N

LEMMA MovedGoes ==
  ASSUME StreamInv, Moved  PROVE Stream!Go
BY DEF Moved, Stream!Go, Saved, Undone

LEMMA MarkKeepsACopy ==
  ASSUME StreamInv, mark_rollback, source' = source  PROVE Stream!Keep
<1>1. PICK h : Recorded(h)
  BY DEF StreamInv
<1>2. StreamInv' /\ Recorded(h)'
  BY <1>1, MarkKeeps
<1> DEFINE mark == [cursor |-> cursor, splits_at_mark |-> Len(pending_splits)]
<1>3. rollback_stack' = Append(rollback_stack, mark) /\ UNCHANGED <<TokStream, cursor>>
  BY DEF mark_rollback
<1>4. rollback_stack \in Seq(MarkSet) /\ h[Len(pending_splits)] = TokStream
  BY <1>1 DEF Recorded, Marked, History
<1>5. mark \in MarkSet
  BY DEF MarkSet, StreamInv
<1>6. KeptBy(h, mark) = Stream!Here
  BY <1>4 DEF KeptBy, Stream!Here
<1> HIDE DEF mark
<1>7. Copies(Saved, h, rollback_stack)
  BY <1>1, SavedNow
<1>8. Copies(Saved', h, Append(rollback_stack, mark))
  BY <1>2, <1>3, SavedNext
<1>9. Saved' = Append(Saved, Stream!Here)
  BY <1>4, <1>5, <1>6, <1>7, <1>8, CopiesGrow
<1> QED BY <1>3, <1>9 DEF Stream!Keep

LEMMA CommitForgets ==
  ASSUME StreamInv, commit_rollback, source' = source  PROVE Stream!Forget
<1>1. PICK h : Recorded(h)
  BY DEF StreamInv
<1>2. StreamInv' /\ Recorded(h)'
  BY <1>1, CommitKeeps
<1>3. /\ rollback_stack # <<>> /\ rollback_stack' = Front(rollback_stack)
      /\ UNCHANGED <<TokStream, cursor, pending_splits>>
  BY DEF commit_rollback
<1>4. rollback_stack \in Seq(MarkSet)
  BY <1>1 DEF Recorded, Marked
<1>5. Copies(Saved, h, rollback_stack)
  BY <1>1, SavedNow
<1>6. Len(Saved) > 1 /\ Copies(Front(Saved), h, Front(rollback_stack))
  BY <1>3, <1>4, <1>5, CopiesShrink
<1>7. Copies(Saved', h, Front(rollback_stack))
  BY <1>2, <1>3, SavedNext
<1>8. Marked(h, Front(rollback_stack), Len(pending_splits)) /\ Len(pending_splits) \in Nat
  BY <1>2, <1>3 DEF Recorded, StreamInv
<1>9. Saved' = Front(Saved)
  BY <1>6, <1>7, <1>8, SameCopies
<1> QED BY <1>3, <1>6, <1>9 DEF Stream!Forget, Stream!Front, Front

LEMMA RollbackReturns ==
  ASSUME StreamInv, rollback, source' = source  PROVE Stream!Return
<1>1. PICK h : Recorded(h)
  BY DEF StreamInv
<1> DEFINE R == rollback_stack
           n == Last(R).splits_at_mark
<1>2. PICK f : Recorded(f)' /\ \A k \in 0 .. n : f[k] = h[k]
  BY <1>1, RollbackKeeps
<1>3. StreamInv'
  BY <1>1, RollbackKeeps
<1>4. /\ n \in 0 .. Len(pending_splits) /\ Len(pending_splits) \in Nat
      /\ \A i \in DOMAIN R : R[i].splits_at_mark <= n
      /\ TokStream' = h[n] /\ cursor' = Last(R).cursor
  BY <1>1, RollbackRestores DEF StreamInv
<1>5. R # <<>> /\ R' = Front(R)
  BY DEF rollback
<1>6. R \in Seq(MarkSet) /\ Marked(h, R, Len(pending_splits))
  BY <1>1 DEF Recorded, Marked
<1>7. Copies(Saved, h, R)
  BY <1>1, SavedNow
<1>8. /\ Len(Saved) > 1 /\ Last(Saved) = KeptBy(h, Last(R))
      /\ Copies(Front(Saved), h, Front(R))
  BY <1>5, <1>6, <1>7, CopiesShrink
<1>9. Copies(Saved', f, Front(R))
  BY <1>2, <1>3, <1>5, SavedNext
<1>10. Stream!Here' = Last(Saved)
  BY <1>4, <1>8 DEF KeptBy, Stream!Here
<1>11. n \in Nat
  BY <1>4
<1> HIDE DEF n
<1>12. Marked(h, Front(R), n)
  BY <1>4, <1>5, <1>6, <1>11, FewerMarks
<1>13. Saved' = Front(Saved)
  BY <1>2, <1>8, <1>9, <1>11, <1>12, SameCopies
<1> QED BY <1>8, <1>10, <1>13 DEF Stream!Return, Stream!Front, Front, Stream!Last, Last

LEMMA SplitHalves ==
  ASSUME StreamInv, Splits, source' = source  PROVE Stream!Halve
<1>1. PICK h : Recorded(h)
  BY DEF StreamInv
<1> DEFINE N == Len(pending_splits)
<1>2. PICK f : Recorded(f)' /\ \A k \in 0 .. N : f[k] = h[k]
  BY <1>1, SplitKeeps
<1>3. StreamInv' /\ rollback_stack' = rollback_stack
  BY <1>1, SplitKeeps
<1>4. Copies(Saved, h, rollback_stack)
  BY <1>1, SavedNow
<1>5. Copies(Saved', f, rollback_stack)
  BY <1>2, <1>3, SavedNext
<1>6. Marked(h, rollback_stack, N) /\ N \in Nat
  BY <1>1 DEF Recorded, StreamInv
<1> HIDE DEF N
<1>7. Saved' = Saved
  BY <1>2, <1>4, <1>5, <1>6, SameCopies
<1>8. PICK first \in Token, second \in Token :
        cursor < Len(TokStream) /\ SplitAndConsume(first, second)
  BY DEF Splits, Halves, Token
<1>9. TokStream' = Halved(TokStream, cursor, first, second) /\ cursor' = cursor + 1
  BY <1>8 DEF SplitAndConsume, Halved
<1>10. TokStream \in Seq(Token) /\ cursor \in 1 .. Len(TokStream)
  BY DEF StreamInv
<1>11. /\ TokStream'[cursor] = first /\ TokStream'[cursor + 1] = second
       /\ TokStream' = SubSeq(TokStream, 1, cursor - 1) \o <<first, second>>
                         \o SubSeq(TokStream, cursor + 1, Len(TokStream))
  <2>1. /\ Halved(TokStream, cursor, first, second)[cursor] = first
        /\ Halved(TokStream, cursor, first, second)[cursor + 1] = second
        /\ Halved(TokStream, cursor, first, second)
             = SubSeq(TokStream, 1, cursor - 1) \o <<first, second>>
                 \o SubSeq(TokStream, cursor + 1, Len(TokStream))
    BY <1>8, <1>10, HalvedParts
  <2> QED BY <2>1, <1>9
<1> QED BY <1>7, <1>8, <1>9, <1>11 DEF Stream!Halve

LEMMA StartsAtTheFile == Init => Stream!Init
<1> SUFFICES ASSUME Init PROVE Stream!Init
  OBVIOUS
<1>1. StreamInv
  BY StartsRecorded
<1>2. cursor = 1 /\ pending_splits = <<>> /\ rollback_stack = <<>>
  BY DEF Init, StreamInit
<1>3. PICK h : Recorded(h)
  BY <1>1 DEF StreamInv
<1>4. Undone(0) = h[0] /\ TokStream = h[0]
  <2>1. Len(pending_splits) = 0 /\ 0 \in 0 .. 0
    BY <1>2
  <2> QED BY <2>1, <1>1, <1>3, UndoneIs DEF Recorded, History
<1>5. Copies(Saved, h, <<>>)
  BY <1>1, <1>2, <1>3, SavedNow
<1>6. Saved \in Seq(Kept) /\ Len(Saved) = 1 /\ Saved[1] = Stream!Here
  BY <1>2, <1>4, <1>5 DEF Copies, FromStart, Stream!Here
<1>7. Saved = <<Stream!Here>>
  BY <1>6
<1>8. TokStream # <<>>
  BY <1>1 DEF StreamInv, Ends
<1> QED BY <1>2, <1>7, <1>8 DEF Stream!Init

\* For any files and whatever the parse functions do, however they nest their
\* marks and whatever they split in between: the stream that keeps a number
\* and a position for a mark does what one would do that kept a copy.
THEOREM RollbacksAreExact == Spec => RollbackIsExact
<1>1. ASSUME StreamInv, [Next]_vars
      PROVE  [Stream!Next]_<<TokStream, cursor, Saved>>
  <2>1. CASE Next
    <3>1. StreamStep /\ source' = source
      BY <1>1, <2>1, NextOnStream
    <3> QED BY <3>1, <1>1, MovedGoes, MarkKeepsACopy, CommitForgets, RollbackReturns,
               SplitHalves DEF StreamStep, Stream!Next
  <2>2. CASE UNCHANGED vars
    BY <2>2 DEF vars, streamVars, Saved, Undone
  <2> QED BY <1>1, <2>1, <2>2
<1> QED BY <1>1, StreamHolds, StartsAtTheFile, PTL DEF Spec, RollbackIsExact, Stream!Spec

-----------------------------------------------------------------------------
(* The stack of the parse functions *)

Alike(f, g) ==
  /\ f.fn = g.fn /\ f.ok = g.ok /\ f.non = g.non /\ f.bad = g.bad
  /\ f.at = g.at /\ f.errors = g.errors

With(f, code) == [f EXCEPT !.code = code]
Flagged(f, code) == [f EXCEPT !.flag = TRUE, !.code = code]

LEMMA FrameGoesOn ==
  ASSUME NEW f, IsFrame(f), NEW code
  PROVE  /\ IsFrame(With(f, code)) /\ Alike(With(f, code), f)
         /\ With(f, code).code = code /\ With(f, code).flag = f.flag
         /\ IsFrame(Flagged(f, code)) /\ Alike(Flagged(f, code), f)
         /\ Flagged(f, code).code = code
BY DEF IsFrame, Alike, With, Flagged

\* With another frame on top.
Topped(s, f) == [s EXCEPT ![Len(s)] = f]

LEMMA TopChanges ==
  ASSUME NEW s, s \in Seq(Range(s)), s # <<>>, NEW f
  PROVE  /\ Topped(s, f) \in Seq(Range(Topped(s, f))) /\ Len(Topped(s, f)) = Len(s)
         /\ Topped(s, f)[Len(s)] = f
         /\ \A i \in 1 .. Len(s) - 1 : Topped(s, f)[i] = s[i]
<1> DEFINE t == Topped(s, f)
<1> DEFINE S == Range(s) \cup {f}
<1>1. s \in Seq(S) /\ f \in S /\ Len(s) \in Nat
  <2>1. \A i \in 1 .. Len(s) : s[i] \in S
    BY ElementOfSeq
  <2>2. Len(s) \in Nat /\ s = [i \in 1 .. Len(s) |-> s[i]]
    OBVIOUS
  <2> HIDE DEF S
  <2>3. [i \in 1 .. Len(s) |-> s[i]] \in Seq(S)
    BY <2>1, <2>2, IsASeq
  <2>4. s \in Seq(S)
    BY <2>2, <2>3
  <2> QED BY <2>2, <2>4 DEF S
<1>2. Len(s) \in 1 .. Len(s)
  BY <1>1, EmptySeq
<1> HIDE DEF S
<1>3. t \in Seq(S) /\ Len(t) = Len(s) /\ t[Len(s)] = f
      /\ \A i \in 1 .. Len(s) : i # Len(s) => t[i] = s[i]
  BY <1>1, <1>2, ExceptSeq DEF Topped
<1> HIDE DEF t
<1>4. t \in Seq(Range(t))
  BY <1>3, SeqOfRange
<1>5. \A i \in 1 .. Len(s) - 1 : i \in 1 .. Len(s) /\ i # Len(s)
  BY <1>1
<1> QED BY <1>3, <1>4, <1>5 DEF t

LEMMA TopIs ==
  ASSUME OnPoints, ~Done
  PROVE  /\ stack \in Seq(Range(stack)) /\ stack # <<>> /\ Len(stack) \in Nat \ {0}
         /\ Top = stack[Len(stack)] /\ IsFrame(Top)
         /\ Top.fn \in DOMAIN Code /\ Top.code \in Points[Top.fn]
<1>1. stack \in Seq(Range(stack)) /\ stack # <<>>
  BY DEF OnPoints, Done
<1>2. Len(stack) \in Nat \ {0}
  BY <1>1, EmptySeq
<1>3. Top = stack[Len(stack)]
  BY DEF Top, Last
<1>4. Len(stack) \in Active /\ IsTop(Len(stack))
  BY <1>2 DEF Active, IsTop
<1>5. IsFrame(Top) /\ Top.code \in Points[Top.fn]
  BY <1>3, <1>4 DEF OnPoints, Goes
<1>6. Top.fn \in DOMAIN Code
  BY <1>5 DEF IsFrame
<1> QED BY <1>1, <1>2, <1>3, <1>5, <1>6

\* The function on top goes on with the code d.
GoesOnWith(d) ==
  /\ stack' \in Seq(Range(stack')) /\ Len(stack') = Len(stack)
  /\ \A i \in 1 .. Len(stack) - 1 : stack'[i] = stack[i]
  /\ IsFrame(stack'[Len(stack)]) /\ Alike(stack'[Len(stack)], Top)
  /\ stack'[Len(stack)].code = d

\* It waits for the new function f.
WaitsFor(f) ==
  /\ stack' \in Seq(Range(stack')) /\ Len(stack') = Len(stack) + 1
  /\ \A i \in 1 .. Len(stack) - 1 : stack'[i] = stack[i]
  /\ IsFrame(stack'[Len(stack)]) /\ Alike(stack'[Len(stack)], Top)
  /\ stack'[Len(stack)].code = Rest /\ stack'[Len(stack)].flag = Top.flag
  /\ stack'[Len(stack) + 1] = f

\* It is done, and its caller goes on with the code next.
IsLeftFor(next) ==
  IF Len(stack) = 1 THEN stack' = <<>>
  ELSE LET m == Len(stack) - 1
       IN /\ stack' \in Seq(Range(stack')) /\ Len(stack') = m
          /\ \A i \in 1 .. m - 1 : stack'[i] = stack[i]
          /\ IsFrame(stack'[m]) /\ Alike(stack'[m], stack[m])
          /\ stack'[m].code = next \o stack[m].code /\ stack'[m].flag = stack[m].flag

LEMMA GoOnGoesOn ==
  ASSUME OnPoints, ~Done, NEW d, GoOn(d)
  PROVE  GoesOnWith(d) /\ stack'[Len(stack)].flag = Top.flag
<1> DEFINE f == With(Top, d)
<1>1. /\ stack \in Seq(Range(stack)) /\ stack # <<>>
      /\ Top = stack[Len(stack)] /\ IsFrame(Top)
  BY TopIs
<1>2. stack' = Topped(stack, f)
  BY <1>1 DEF GoOn, Topped, With
<1>3. IsFrame(f) /\ Alike(f, Top) /\ f.code = d /\ f.flag = Top.flag
  BY <1>1, FrameGoesOn
<1> HIDE DEF f
<1>4. /\ stack' \in Seq(Range(stack')) /\ Len(stack') = Len(stack)
      /\ stack'[Len(stack)] = f /\ \A i \in 1 .. Len(stack) - 1 : stack'[i] = stack[i]
  BY <1>1, <1>2, TopChanges
<1> QED BY <1>3, <1>4 DEF GoesOnWith

LEMMA FlagGoesOn ==
  ASSUME OnPoints, ~Done, FlagError
  PROVE  GoesOnWith(Rest)
<1> DEFINE f == Flagged(Top, Rest)
<1>1. /\ stack \in Seq(Range(stack)) /\ stack # <<>>
      /\ Top = stack[Len(stack)] /\ IsFrame(Top) /\ Len(stack) \in Nat \ {0}
  BY TopIs
<1>2. stack' = Topped(stack, f)
  BY <1>1 DEF FlagError, Topped, Flagged
<1>3. IsFrame(f) /\ Alike(f, Top) /\ f.code = Rest
  BY <1>1, FrameGoesOn
<1> HIDE DEF f
<1>4. /\ stack' \in Seq(Range(stack')) /\ Len(stack') = Len(stack)
      /\ stack'[Len(stack)] = f /\ \A i \in 1 .. Len(stack) - 1 : stack'[i] = stack[i]
  BY <1>1, <1>2, TopChanges
<1> QED BY <1>3, <1>4 DEF GoesOnWith

LEMMA PushWaits ==
  ASSUME OnPoints, ~Done, NEW f,
         stack' = Append([stack EXCEPT ![Len(stack)].code = Rest], f)
  PROVE  WaitsFor(f)
<1> DEFINE g == With(Top, Rest)
           t == Topped(stack, g)
<1>1. /\ stack \in Seq(Range(stack)) /\ stack # <<>>
      /\ Top = stack[Len(stack)] /\ IsFrame(Top) /\ Len(stack) \in Nat \ {0}
  BY TopIs
<1>2. stack' = Append(t, f)
  BY <1>1 DEF Topped, With
<1>3. IsFrame(g) /\ Alike(g, Top) /\ g.code = Rest /\ g.flag = Top.flag
  BY <1>1, FrameGoesOn
<1> HIDE DEF g
<1>4. /\ t \in Seq(Range(t)) /\ Len(t) = Len(stack)
      /\ t[Len(stack)] = g /\ \A i \in 1 .. Len(stack) - 1 : t[i] = stack[i]
  BY <1>1, TopChanges
<1> DEFINE S == Range(t) \cup {f}
<1> HIDE DEF t
<1>5. t \in Seq(S) /\ f \in S
  BY <1>4
<1> HIDE DEF S
<1>6. /\ stack' \in Seq(S) /\ Len(stack') = Len(t) + 1
      /\ \A i \in 1 .. Len(t) : stack'[i] = t[i]
      /\ stack'[Len(t) + 1] = f
  <2>1. /\ Append(t, f) \in Seq(S) /\ Len(Append(t, f)) = Len(t) + 1
        /\ \A i \in 1 .. Len(t) : Append(t, f)[i] = t[i]
        /\ Append(t, f)[Len(t) + 1] = f
    BY <1>5, AppendToSeq
  <2> QED BY <1>2, <2>1, Zenon
<1>7. stack' \in Seq(Range(stack'))
  BY <1>6, SeqOfRange
<1>8. /\ \A i \in 1 .. Len(stack) - 1 : stack'[i] = stack[i]
      /\ stack'[Len(stack)] = g
  BY <1>1, <1>4, <1>6
<1> QED BY <1>3, <1>4, <1>6, <1>7, <1>8 DEF WaitsFor

Passed ==
  CASE Status = "SUCCESS" -> Top.ok [] Status = "NONCOMMITTED" -> Top.non [] OTHER -> Top.bad

LEMMA ReturnLeaves ==
  ASSUME OnPoints, ~Done, Return
  PROVE  IsLeftFor(Passed)
<1>1. /\ stack \in Seq(Range(stack)) /\ stack # <<>> /\ Len(stack) \in Nat \ {0}
  BY TopIs
<1>2. PICK n \in Nat : Len(stack) = n + 1
  BY <1>1, NonEmptySeq
<1> DEFINE t == Front(stack)
<1>3. stack' = IF t = <<>> THEN <<>> ELSE [t EXCEPT ![Len(t)].code = Passed \o @]
  BY DEF Return, Passed
<1>4. /\ t \in Seq(Range(stack)) /\ Len(t) = n /\ \A i \in 1 .. n : t[i] = stack[i]
  BY <1>1, <1>2, FrontOfSeq
<1> HIDE DEF t
<1>5. CASE n = 0
  <2>1. t = <<>>
    BY <1>4, <1>5, EmptySeq
  <2> QED BY <2>1, <1>2, <1>3, <1>5 DEF IsLeftFor
<1>6. CASE n # 0
  <2>1. t # <<>> /\ t \in Seq(Range(t)) /\ n \in 1 .. n
    BY <1>2, <1>4, <1>6, SeqOfRange
  <2> DEFINE g == With(stack[n], Passed \o stack[n].code)
  <2>2. stack' = Topped(t, g)
    BY <1>3, <1>4, <2>1 DEF Topped, With
  <2>3. IsFrame(stack[n])
    BY <1>2, <1>6 DEF OnPoints, Active
  <2>4. IsFrame(g) /\ Alike(g, stack[n]) /\ g.code = Passed \o stack[n].code
        /\ g.flag = stack[n].flag
    BY <2>3, FrameGoesOn
  <2> HIDE DEF g
  <2>5. /\ stack' \in Seq(Range(stack')) /\ Len(stack') = n
        /\ stack'[n] = g /\ \A i \in 1 .. n - 1 : stack'[i] = t[i]
    BY <2>1, <2>2, <1>4, TopChanges
  <2>6. \A i \in 1 .. n - 1 : stack'[i] = stack[i]
    BY <2>5, <1>2, <1>4
  <2>7. Len(stack) # 1 /\ Len(stack) - 1 = n
    BY <1>2, <1>6
  <2> QED BY <2>4, <2>5, <2>6, <2>7 DEF IsLeftFor
<1> QED BY <1>5, <1>6

-----------------------------------------------------------------------------
(* What a function has left after a step *)

Builds == {"leaf", "unit", "build", "wrap", "keep", "qualify", "module", "member"}
Simple == {"take", "back", "exhaust", "flag", "err", "mark", "rollback", "commit", "alias", "owe",
           "null"} \cup Builds

LEMMA WaysOf ==
  ASSUME NEW c, c # <<>>
  PROVE  /\ c[1].op \in {"expect", "peek", "ifnodes", "ifqualified"} => Ways(c) = {c[1].yes \o Tail(c), c[1].no \o Tail(c)}
         /\ c[1].op = "generic" => Ways(c) = {c[1].yes \o Tail(c), <<>> \o Tail(c)}
         /\ c[1].op = "pending" => Ways(c) = {c[1].no \o Tail(c), <<>> \o Tail(c)}
         /\ c[1].op = "close" => Ways(c) = {c[1].no \o Tail(c), Tail(c)}
         /\ c[1].op = "while" => Ways(c) = {c[1].body \o c, Tail(c)}
         /\ c[1].op = "leave" => Ways(c) = {AfterLoop(Tail(c))}
         /\ c[1].op = "climb" => Ways(c) = {<<>>} \cup {FullClimb(op, c[1]) : op \in DOMAIN binopPrecedence}
         /\ c[1].op = "tighter" => Ways(c) = {<<Nested(c[1].than)>> \o Tail(c), <<>> \o Tail(c)}
         /\ c[1].op = "combine" => Ways(c) = {Tail(c), <<Err, Failed>>}
         /\ c[1].op \in {"ret", "flagged"} => Ways(c) = {}
         /\ c[1].op \in Simple => Ways(c) = {Tail(c)}
<1>0. c[1].op \notin {"call", "try"} => Ways(c) = Moves(c)
  BY DEF Ways, Calls
<1>1. ASSUME c[1].op \in {"expect", "peek", "ifnodes", "ifqualified"} PROVE Ways(c) = {c[1].yes \o Tail(c), c[1].no \o Tail(c)}
  BY <1>0, <1>1 DEF Moves
<1>2. ASSUME c[1].op = "generic" PROVE Ways(c) = {c[1].yes \o Tail(c), <<>> \o Tail(c)}
  BY <1>0, <1>2 DEF Moves
<1>3. ASSUME c[1].op = "pending" PROVE Ways(c) = {c[1].no \o Tail(c), <<>> \o Tail(c)}
  BY <1>0, <1>3 DEF Moves
<1>4. ASSUME c[1].op = "close" PROVE Ways(c) = {c[1].no \o Tail(c), Tail(c)}
  BY <1>0, <1>4 DEF Moves
<1>5. ASSUME c[1].op = "while" PROVE Ways(c) = {c[1].body \o c, Tail(c)}
  BY <1>0, <1>5 DEF Moves
<1>6. ASSUME c[1].op = "leave" PROVE Ways(c) = {AfterLoop(Tail(c))}
  BY <1>0, <1>6 DEF Moves
<1>7. ASSUME c[1].op = "climb" PROVE Ways(c) = {<<>>} \cup {FullClimb(op, c[1]) : op \in DOMAIN binopPrecedence}
  BY <1>0, <1>7 DEF Moves
<1>8. ASSUME c[1].op = "tighter" PROVE Ways(c) = {<<Nested(c[1].than)>> \o Tail(c), <<>> \o Tail(c)}
  BY <1>0, <1>8 DEF Moves
<1>9. ASSUME c[1].op = "combine" PROVE Ways(c) = {Tail(c), <<Err, Failed>>}
  BY <1>0, <1>9 DEF Moves
<1>10. ASSUME c[1].op \in {"ret", "flagged"} PROVE Ways(c) = {}
  BY <1>0, <1>10 DEF Moves
<1>11. ASSUME c[1].op \in Simple PROVE Ways(c) = {Tail(c)}
  BY <1>0, <1>11 DEF Moves, Simple, Builds
<1> QED BY <1>1, <1>2, <1>3, <1>4, <1>5, <1>6, <1>7, <1>8, <1>9, <1>10, <1>11

LEMMA CallWays ==
  ASSUME NEW c, c # <<>>, c[1].op \in {"call", "try"}
  PROVE  Ways(c) = {AfterSuccess(c), AfterNoncommitted(c), AfterFailure(c)}
BY DEF Ways, Calls

LEMMA CommitmentsOf ==
  ASSUME NEW c, c # <<>>
  PROVE  /\ c[1].op = "expect" => c[1].yes \o Tail(c) \in Commitments(c)
         /\ c[1].op \in {"take", "back", "exhaust", "close", "rollback", "err", "climb"} =>
              Commitments(c) = Ways(c)
         /\ c[1].op \in {"call", "try"} => {AfterSuccess(c), AfterFailure(c)} \subseteq Commitments(c)
         /\ c[1].op = "call" /\ c[1].fn = "parameter" => AfterNoncommitted(c) \in Commitments(c)
BY DEF Commitments, Ways, Calls

-----------------------------------------------------------------------------
(* What the steps do, seen from the stack *)

\* A step of the function on top that leaves it d to run.
Counts == error_count' = error_count + (IF Step.op = "err" THEN 1 ELSE 0)
CommitsTo(d) == UNCHANGED <<cursor, error_count>> \/ d \in Commitments(Top.code)
KeepsFlag == Step.op # "flag" => stack'[Len(stack)].flag = Top.flag
KeepsMarks ==
  /\ Step.op = "mark" => mark_rollback
  /\ Step.op = "rollback" => rollback
  /\ Step.op = "commit" => commit_rollback
  /\ Step.op \notin {"mark", "rollback", "commit"} => UNCHANGED rollback_stack
KeepsOwed ==
  /\ Step.op = "owe" => pending_deref' = pending_deref + 1
  /\ Step.op = "pending" => pending_deref' = IF pending_deref > 0 THEN pending_deref - 1 ELSE 0
  /\ Step.op \notin {"owe", "pending"} => UNCHANGED pending_deref
LooksAt(d) ==
  /\ Step.op = "peek" => \/ d = Step.no \o Rest
                         \/ Sees(Step.kinds) /\ UNCHANGED streamVars
  /\ Step.op = "expect" => \/ ~(~isEnd /\ Sees(Step.kinds)) /\ d = Step.no \o Rest
                           \/ Sees(Step.kinds) /\ consume /\ d = Step.yes \o Rest
NoneCommits(d) ==
  /\ Step.op # "call"
  /\ Step.op = "try" => d = Step.non \o Rest /\ \A i \in DOMAIN Step.fns : ~Commits(Step.fns[i])
Effects(d) ==
  /\ Counts /\ CommitsTo(d) /\ KeepsFlag /\ KeepsMarks /\ KeepsOwed /\ LooksAt(d) /\ NoneCommits(d)
  /\ (skipped' => skipped \/ Step.op = "exhaust") /\ UNCHANGED crashed

Advances ==
  /\ Top.code # <<>>
  /\ \E d \in Ways(Top.code) : GoesOnWith(d) /\ Effects(d)

\* A call, also of the first alternative that commits.
Called(fn) ==
  IF Step.op = "call" THEN fn = Step.fn
  ELSE \E i \in DOMAIN Step.fns :
         /\ fn = Step.fns[i] /\ Commits(fn)
         /\ \A j \in DOMAIN Step.fns : Commits(Step.fns[j]) => i <= j
Enters ==
  /\ Top.code # <<>> /\ Step.op \in {"call", "try"}
  /\ \E f : /\ WaitsFor(f) /\ IsFrame(f) /\ Called(f.fn) /\ f.code = Code[f.fn]
            /\ f.ok = (IF Step.op = "call" THEN Step.ok ELSE <<>>)
            /\ f.non = Step.non /\ f.bad = Step.bad
            /\ f.at = cursor /\ f.errors = error_count /\ f.flag = FALSE
  /\ UNCHANGED <<streamVars, parserState>>

Finishes == Status # "none" /\ IsLeftFor(Passed) /\ UNCHANGED <<streamVars, parserState>>

Dies ==
  /\ Top.code # <<>> /\ Step.op = "null" /\ stack' = <<>> /\ crashed'
  /\ UNCHANGED <<streamVars, error_count, pending_deref, skipped>>

ControlStep == ~Done /\ (Advances \/ Enters \/ Finishes \/ Dies)

\* A step with no other effect.
LEMMA PlainAdvances ==
  ASSUME OnPoints, ~Done, Top.code # <<>>, NEW d, d \in Ways(Top.code), GoOn(d),
         UNCHANGED <<streamVars, parserState>>, error_count \in Nat,
         Step.op \notin {"err", "flag", "mark", "rollback", "commit", "owe", "pending", "peek",
                        "expect", "try", "call"}
  PROVE  Advances
<1>1. GoesOnWith(d) /\ stack'[Len(stack)].flag = Top.flag
  BY GoOnGoesOn
<1>2. UNCHANGED <<cursor, rollback_stack, error_count, pending_deref, skipped, crashed>>
  BY DEF streamVars, parserState
<1>3. Effects(d)
  BY <1>1, <1>2 DEF Effects, Counts, CommitsTo, KeepsFlag, KeepsMarks, KeepsOwed, LooksAt, NoneCommits
<1> QED BY <1>1, <1>3 DEF Advances

LEMMA ExpectSteps ==
  ASSUME OnPoints, expect  PROVE ControlStep
<1>1. ~Done /\ Top.code # <<>> /\ Step.op = "expect"
  BY DEF expect, Runs
<1> DEFINE yes == Step.yes \o Rest
           no == Step.no \o Rest
<1>2. {yes, no} = Ways(Top.code) /\ yes \in Commitments(Top.code)
  BY <1>1, WaysOf, CommitmentsOf DEF Step, Rest
<1>3. UNCHANGED <<error_count, pending_deref, skipped, crashed>> /\ error_count \in Nat
  BY DEF expect, parserState, OnPoints
<1> HIDE DEF yes, no
<1>4. CASE ~isEnd /\ Sees(Step.kinds)
  <2>1. consume /\ GoOn(yes)
    BY <1>4 DEF expect, yes
  <2>2. GoesOnWith(yes) /\ stack'[Len(stack)].flag = Top.flag
    BY <1>1, <2>1, GoOnGoesOn
  <2>3. UNCHANGED rollback_stack
    BY <2>1 DEF consume
  <2>4. LooksAt(yes)
    BY <1>1, <1>4, <2>1 DEF LooksAt, yes
  <2>5. Effects(yes)
    BY <1>1, <1>2, <1>3, <2>2, <2>3, <2>4
       DEF Effects, Counts, CommitsTo, KeepsFlag, KeepsMarks, KeepsOwed, NoneCommits
  <2> QED BY <1>1, <1>2, <2>2, <2>5 DEF ControlStep, Advances
<1>5. CASE ~(~isEnd /\ Sees(Step.kinds))
  <2>1. UNCHANGED streamVars /\ GoOn(no)
    BY <1>5 DEF expect, no
  <2>2. GoesOnWith(no) /\ stack'[Len(stack)].flag = Top.flag
    BY <1>1, <2>1, GoOnGoesOn
  <2>3. UNCHANGED <<cursor, rollback_stack>>
    BY <2>1 DEF streamVars
  <2>4. LooksAt(no)
    BY <1>1, <1>5 DEF LooksAt, no
  <2>5. Effects(no)
    BY <1>1, <1>2, <1>3, <2>2, <2>3, <2>4
       DEF Effects, Counts, CommitsTo, KeepsFlag, KeepsMarks, KeepsOwed, NoneCommits
  <2> QED BY <1>1, <1>2, <2>2, <2>5 DEF ControlStep, Advances
<1> QED BY <1>4, <1>5

LEMMA LookAheadSteps ==
  ASSUME OnPoints, LookAhead  PROVE ControlStep
<1>1. ~Done /\ Top.code # <<>> /\ Step.op = "peek"
  BY DEF LookAhead, Runs
<1>2. PICK d : d = (IF Sees(Step.kinds) THEN Step.yes ELSE Step.no) \o Rest
  OBVIOUS
<1>3. d \in Ways(Top.code)
  BY <1>1, <1>2, WaysOf DEF Step, Rest
<1>4. GoOn(d) /\ UNCHANGED <<streamVars, parserState>>
  BY <1>2 DEF LookAhead
<1>5. GoesOnWith(d) /\ stack'[Len(stack)].flag = Top.flag
  BY <1>1, <1>4, GoOnGoesOn
<1>6. /\ UNCHANGED <<cursor, rollback_stack, error_count, pending_deref, skipped, crashed>>
      /\ error_count \in Nat
  BY <1>4 DEF streamVars, parserState, OnPoints
<1>7. LooksAt(d)
  BY <1>1, <1>2, <1>4 DEF LooksAt
<1>8. Effects(d)
  BY <1>1, <1>5, <1>6, <1>7
     DEF Effects, Counts, CommitsTo, KeepsFlag, KeepsMarks, KeepsOwed, NoneCommits
<1> QED BY <1>1, <1>3, <1>5, <1>8 DEF ControlStep, Advances

\* Steps that have one way on.
LEMMA SimpleSteps ==
  ASSUME OnPoints, ~Done, Top.code # <<>>, Step.op \in Simple, GoesOnWith(Rest),
         KeepsFlag, Counts, KeepsMarks, KeepsOwed, UNCHANGED crashed,
         skipped' => skipped \/ Step.op = "exhaust",
         \/ UNCHANGED <<cursor, error_count>>
         \/ Step.op \in {"take", "back", "exhaust", "rollback", "err"}
  PROVE  ControlStep
<1>1. Ways(Top.code) = {Rest}
  BY WaysOf DEF Step, Rest
<1>2. CommitsTo(Rest)
  BY <1>1, CommitmentsOf DEF CommitsTo, Step, Rest
<1>3. LooksAt(Rest) /\ NoneCommits(Rest)
  BY DEF LooksAt, NoneCommits, Simple, Builds
<1> QED BY <1>1, <1>2, <1>3 DEF ControlStep, Advances, Effects

LEMMA TokenSteps ==
  ASSUME OnPoints, TakeToken \/ GiveBack \/ SkipAhead \/ Speculate  PROVE ControlStep
<1>0. error_count \in Nat
  BY DEF OnPoints
<1>1. CASE TakeToken
  <2>1. ~Done /\ Top.code # <<>> /\ Step.op = "take" /\ GoOn(Rest) /\ consume
        /\ UNCHANGED parserState
    BY <1>1 DEF TakeToken, Runs
  <2>2. GoesOnWith(Rest) /\ KeepsFlag
    BY <2>1, GoOnGoesOn DEF KeepsFlag
  <2>3. UNCHANGED <<rollback_stack, error_count, pending_deref, skipped, crashed>>
    BY <2>1 DEF consume, parserState
  <2> QED BY <1>0, <2>1, <2>2, <2>3, SimpleSteps DEF Counts, KeepsMarks, KeepsOwed, Simple
<1>2. CASE GiveBack
  <2>1. ~Done /\ Top.code # <<>> /\ Step.op = "back" /\ GoOn(Rest) /\ BackBy(Step.n)
        /\ UNCHANGED parserState
    BY <1>2 DEF GiveBack, Runs
  <2>2. GoesOnWith(Rest) /\ KeepsFlag
    BY <2>1, GoOnGoesOn DEF KeepsFlag
  <2>3. UNCHANGED <<rollback_stack, error_count, pending_deref, skipped, crashed>>
    BY <2>1 DEF BackBy, parserState
  <2> QED BY <1>0, <2>1, <2>2, <2>3, SimpleSteps DEF Counts, KeepsMarks, KeepsOwed, Simple
<1>3. CASE SkipAhead
  <2>1. ~Done /\ Top.code # <<>> /\ Step.op = "exhaust" /\ GoOn(Rest) /\ exhaust_until(Step.until)
        /\ UNCHANGED <<error_count, pending_deref, crashed>>
    BY <1>3 DEF SkipAhead, Runs
  <2>2. GoesOnWith(Rest) /\ KeepsFlag
    BY <2>1, GoOnGoesOn DEF KeepsFlag
  <2>3. UNCHANGED rollback_stack
    BY <2>1 DEF exhaust_until
  <2> QED BY <1>0, <2>1, <2>2, <2>3, SimpleSteps DEF Counts, KeepsMarks, KeepsOwed, Simple
<1>4. CASE Speculate
  <2>1. /\ ~Done /\ Top.code # <<>> /\ GoOn(Rest) /\ UNCHANGED parserState
        /\ \/ Step.op = "mark" /\ mark_rollback
           \/ Step.op = "rollback" /\ rollback
           \/ Step.op = "commit" /\ commit_rollback
    BY <1>4 DEF Speculate, Runs
  <2>2. GoesOnWith(Rest) /\ KeepsFlag
    BY <2>1, GoOnGoesOn DEF KeepsFlag
  <2>3. UNCHANGED <<error_count, pending_deref, skipped, crashed>>
    BY <2>1 DEF parserState
  <2>4. UNCHANGED cursor \/ Step.op = "rollback"
    BY <2>1 DEF mark_rollback, commit_rollback
  <2>5. KeepsMarks
    BY <2>1 DEF KeepsMarks
  <2> QED BY <1>0, <2>1, <2>2, <2>3, <2>4, <2>5, SimpleSteps DEF Counts, KeepsOwed, Simple
<1> QED BY <1>1, <1>2, <1>3, <1>4

LEMMA OtherSimpleSteps ==
  ASSUME OnPoints, FlagError \/ imm_error \/ BuildNode \/ AddAlias  PROVE ControlStep
<1>0. error_count \in Nat
  BY DEF OnPoints
<1>1. CASE FlagError
  <2>1. ~Done /\ Top.code # <<>> /\ Step.op = "flag" /\ UNCHANGED <<streamVars, parserState>>
    BY <1>1 DEF FlagError, Runs
  <2>2. GoesOnWith(Rest) /\ KeepsFlag
    BY <1>1, <2>1, FlagGoesOn DEF KeepsFlag
  <2>3. UNCHANGED <<cursor, rollback_stack, error_count, pending_deref, skipped, crashed>>
    BY <2>1 DEF streamVars, parserState
  <2> QED BY <1>0, <2>1, <2>2, <2>3, SimpleSteps DEF Counts, KeepsMarks, KeepsOwed, Simple
<1>2. CASE imm_error
  <2>1. /\ ~Done /\ Top.code # <<>> /\ Step.op = "err" /\ GoOn(Rest)
        /\ error_count' = error_count + 1
        /\ UNCHANGED <<streamVars, pending_deref, skipped, crashed>>
    BY <1>2 DEF imm_error, Runs
  <2>2. GoesOnWith(Rest) /\ KeepsFlag
    BY <2>1, GoOnGoesOn DEF KeepsFlag
  <2>3. UNCHANGED rollback_stack
    BY <2>1 DEF streamVars
  <2> QED BY <1>0, <2>1, <2>2, <2>3, SimpleSteps DEF Counts, KeepsMarks, KeepsOwed, Simple
<1>3. CASE BuildNode
  <2>1. /\ ~Done /\ Top.code # <<>> /\ Step.op \in Builds /\ GoOn(Rest)
        /\ UNCHANGED <<streamVars, parserState>>
    BY <1>3 DEF BuildNode, Runs, Builds
  <2>2. GoesOnWith(Rest) /\ KeepsFlag
    BY <2>1, GoOnGoesOn DEF KeepsFlag
  <2>3. UNCHANGED <<cursor, rollback_stack, error_count, pending_deref, skipped, crashed>>
    BY <2>1 DEF streamVars, parserState
  <2>4. Step.op \in Simple
    BY <2>1 DEF Simple
  <2>5. Step.op \notin {"err", "mark", "rollback", "commit", "owe", "pending"}
    BY <2>1 DEF Builds
  <2> QED BY <1>0, <2>1, <2>2, <2>3, <2>4, <2>5, SimpleSteps DEF Counts, KeepsMarks, KeepsOwed
<1>4. CASE AddAlias
  <2>1. /\ ~Done /\ Top.code # <<>> /\ Step.op = "alias" /\ GoOn(Rest)
        /\ UNCHANGED <<streamVars, error_count, pending_deref, skipped, crashed>>
    BY <1>4 DEF AddAlias, Runs
  <2>2. GoesOnWith(Rest) /\ KeepsFlag
    BY <2>1, GoOnGoesOn DEF KeepsFlag
  <2>3. UNCHANGED <<cursor, rollback_stack>>
    BY <2>1 DEF streamVars
  <2> QED BY <1>0, <2>1, <2>2, <2>3, SimpleSteps DEF Counts, KeepsMarks, KeepsOwed, Simple
<1> QED BY <1>1, <1>2, <1>3, <1>4

LEMMA CloseSteps ==
  ASSUME OnPoints, consumeClosingAngleBracket  PROVE ControlStep
<1>1. /\ ~Done /\ Top.code # <<>> /\ Step.op = "close" /\ UNCHANGED parserState
  BY DEF consumeClosingAngleBracket, Runs
<1>2. /\ consume \/ UNCHANGED streamVars \/ (\E f, g : SplitAndConsume(f, g))
      /\ \E d \in {Step.no \o Rest, Rest} : GoOn(d)
  BY DEF consumeClosingAngleBracket
<1>3. PICK d \in {Step.no \o Rest, Rest} : GoOn(d)
  BY <1>2
<1>4. d \in Ways(Top.code) /\ Commitments(Top.code) = Ways(Top.code)
  BY <1>1, <1>3, WaysOf, CommitmentsOf DEF Step, Rest
<1>5. GoesOnWith(d) /\ stack'[Len(stack)].flag = Top.flag
  BY <1>1, <1>3, GoOnGoesOn
<1>6. UNCHANGED <<rollback_stack, error_count, pending_deref, skipped, crashed>> /\ error_count \in Nat
  BY <1>1, <1>2 DEF streamVars, parserState, consume, SplitAndConsume, OnPoints
<1>7. Effects(d)
  BY <1>1, <1>4, <1>5, <1>6
     DEF Effects, Counts, CommitsTo, KeepsFlag, KeepsMarks, KeepsOwed, LooksAt, NoneCommits
<1> QED BY <1>1, <1>4, <1>5, <1>7 DEF ControlStep, Advances

LEMMA BranchSteps ==
  ASSUME OnPoints, InspectNodes \/ Loop \/ Break \/ TighterFirst \/ Combine  PROVE ControlStep
<1>0. error_count \in Nat
  BY DEF OnPoints
<1>1. CASE InspectNodes
  <2>0. /\ ~Done /\ Top.code # <<>> /\ UNCHANGED <<streamVars, parserState>>
        /\ \/ /\ Step.op \in {"ifnodes", "ifqualified"}
              /\ GoOn(Step.yes \o Rest) \/ GoOn(Step.no \o Rest)
           \/ Step.op = "generic" /\ (GoOn(Step.yes \o Rest) \/ GoOn(<<>> \o Rest))
    BY <1>1, Zenon DEF InspectNodes, Runs
  <2>1. PICK d : /\ GoOn(d)
                 /\ \/ Step.op \in {"ifnodes", "ifqualified"} /\ d \in {Step.yes \o Rest, Step.no \o Rest}
                    \/ Step.op = "generic" /\ d \in {Step.yes \o Rest, <<>> \o Rest}
    BY <2>0, Zenon
  <2>2. d \in Ways(Top.code)
    <3>1. Step.op \in {"ifnodes", "ifqualified"} =>
            Ways(Top.code) = {Step.yes \o Rest, Step.no \o Rest}
      BY <2>0, WaysOf DEF Step, Rest
    <3>2. Step.op = "generic" => Ways(Top.code) = {Step.yes \o Rest, <<>> \o Rest}
      BY <2>0, WaysOf DEF Step, Rest
    <3> QED BY <3>1, <3>2, <2>1, Zenon
  <2> QED BY <1>0, <2>0, <2>1, <2>2, PlainAdvances DEF ControlStep
<1>2. CASE Loop
  <2>1. PICK d : /\ ~Done /\ Top.code # <<>> /\ Step.op = "while" /\ UNCHANGED <<streamVars, parserState>>
                 /\ GoOn(d) /\ d \in {Step.body \o Top.code, Rest}
    BY <1>2 DEF Loop, Runs
  <2>2. d \in Ways(Top.code)
    BY <2>1, WaysOf DEF Step, Rest
  <2> QED BY <1>0, <2>1, <2>2, PlainAdvances DEF ControlStep
<1>3. CASE Break
  <2>1. /\ ~Done /\ Top.code # <<>> /\ Step.op = "leave" /\ UNCHANGED <<streamVars, parserState>>
        /\ GoOn(AfterLoop(Rest))
    BY <1>3 DEF Break, Runs, AfterLoop
  <2>2. AfterLoop(Rest) \in Ways(Top.code)
    BY <2>1, WaysOf DEF Step, Rest
  <2> QED BY <1>0, <2>1, <2>2, PlainAdvances DEF ControlStep
<1>4. CASE TighterFirst
  <2>1. PICK d : /\ ~Done /\ Top.code # <<>> /\ Step.op = "tighter" /\ UNCHANGED <<streamVars, parserState>>
                 /\ GoOn(d) /\ d \in {<<Nested(Step.than)>> \o Rest, <<>> \o Rest}
    BY <1>4 DEF TighterFirst, Runs, Nested
  <2>2. d \in Ways(Top.code)
    BY <2>1, WaysOf DEF Step, Rest
  <2> QED BY <1>0, <2>1, <2>2, PlainAdvances DEF ControlStep
<1>5. CASE Combine
  <2>1. PICK d : /\ ~Done /\ Top.code # <<>> /\ Step.op = "combine" /\ UNCHANGED <<streamVars, parserState>>
                 /\ GoOn(d) /\ d \in {Rest, <<Err, Failed>>}
    BY <1>5 DEF Combine, Runs
  <2>2. d \in Ways(Top.code)
    BY <2>1, WaysOf DEF Step, Rest
  <2> QED BY <1>0, <2>1, <2>2, PlainAdvances DEF ControlStep
<1> QED BY <1>1, <1>2, <1>3, <1>4, <1>5

LEMMA ClimbSteps ==
  ASSUME OnPoints, ParseBinaryExpr  PROVE ControlStep
<1>1. /\ ~Done /\ Top.code # <<>> /\ Step.op = "climb" /\ UNCHANGED parserState
      /\ consume \/ UNCHANGED streamVars
  BY DEF ParseBinaryExpr, Runs
<1>2. PICK d : GoOn(d) /\ \/ d = <<>>
                          \/ \E op \in DOMAIN binopPrecedence : d = FullClimb(op, Step)
  BY DEF ParseBinaryExpr, FullClimb, IsBinary
<1>3. d \in Ways(Top.code) /\ Commitments(Top.code) = Ways(Top.code)
  <2>1. /\ Ways(Top.code) = {<<>>} \cup {FullClimb(op, Step) : op \in DOMAIN binopPrecedence}
        /\ Commitments(Top.code) = Ways(Top.code)
    BY <1>1, WaysOf, CommitmentsOf DEF Step
  <2> QED BY <2>1, <1>2, Zenon
<1>4. GoesOnWith(d) /\ stack'[Len(stack)].flag = Top.flag
  BY <1>1, <1>2, GoOnGoesOn
<1>5. UNCHANGED <<rollback_stack, error_count, pending_deref, skipped, crashed>> /\ error_count \in Nat
  BY <1>1 DEF streamVars, parserState, consume, OnPoints
<1>6. Effects(d)
  BY <1>1, <1>3, <1>4, <1>5
     DEF Effects, Counts, CommitsTo, KeepsFlag, KeepsMarks, KeepsOwed, LooksAt, NoneCommits
<1> QED BY <1>1, <1>3, <1>4, <1>6 DEF ControlStep, Advances

LEMMA DerefSteps ==
  ASSUME OnPoints, PendingDeref  PROVE ControlStep
<1>0. error_count \in Nat
  BY DEF OnPoints
<1>1. /\ ~Done /\ Top.code # <<>>
      /\ UNCHANGED <<cursor, rollback_stack, error_count, skipped, crashed>>
  BY DEF PendingDeref, Runs, streamVars
<1>2. CASE Step.op = "owe" /\ GoOn(Rest) /\ pending_deref' = pending_deref + 1
  <2>1. GoesOnWith(Rest) /\ KeepsFlag
    BY <1>1, <1>2, GoOnGoesOn DEF KeepsFlag
  <2> QED BY <1>0, <1>1, <1>2, <2>1, SimpleSteps DEF Counts, KeepsMarks, KeepsOwed, Simple
<1>3. CASE /\ Step.op = "pending"
           /\ GoOn((IF pending_deref > 0 THEN <<>> ELSE Step.no) \o Rest)
           /\ pending_deref' = IF pending_deref > 0 THEN pending_deref - 1 ELSE 0
  <2>1. PICK d : GoOn(d) /\ d \in {Step.no \o Rest, <<>> \o Rest}
    BY <1>3
  <2>2. d \in Ways(Top.code)
    BY <1>1, <1>3, <2>1, WaysOf DEF Step, Rest
  <2>3. GoesOnWith(d) /\ stack'[Len(stack)].flag = Top.flag
    BY <1>1, <2>1, GoOnGoesOn
  <2>4. Effects(d)
    BY <1>0, <1>1, <1>3, <2>3
       DEF Effects, Counts, CommitsTo, KeepsFlag, KeepsMarks, KeepsOwed, LooksAt, NoneCommits
  <2> QED BY <1>1, <2>2, <2>3, <2>4 DEF ControlStep, Advances
<1> QED BY <1>2, <1>3 DEF PendingDeref, Runs

LEMMA NullSteps ==
  ASSUME OnPoints, NullLocation  PROVE ControlStep
<1>1. /\ ~Done /\ Top.code # <<>> /\ Step.op = "null"
      /\ UNCHANGED <<streamVars, error_count, pending_deref, skipped>> /\ error_count \in Nat
  BY DEF NullLocation, Runs, OnPoints
<1>2. CASE GoOn(Rest) /\ UNCHANGED crashed
  <2>1. GoesOnWith(Rest) /\ KeepsFlag
    BY <1>1, <1>2, GoOnGoesOn DEF KeepsFlag
  <2>2. UNCHANGED <<cursor, rollback_stack>>
    BY <1>1 DEF streamVars
  <2> QED BY <1>1, <1>2, <2>1, <2>2, SimpleSteps DEF Counts, KeepsMarks, KeepsOwed, Simple
<1>3. CASE stack' = <<>> /\ crashed' = TRUE
  BY <1>1, <1>3 DEF ControlStep, Dies
<1> QED BY <1>2, <1>3 DEF NullLocation

LEMMA CallSteps ==
  ASSUME OnPoints, CallFunction  PROVE ControlStep
<1> DEFINE f == Frame(Step, Code[Step.fn], Len(nodes) - Step.handed)
<1>1. /\ ~Done /\ Top.code # <<>> /\ Step.op = "call" /\ UNCHANGED <<streamVars, parserState>>
      /\ stack' = Append([stack EXCEPT ![Len(stack)].code = Rest], f)
  BY DEF CallFunction, Runs
<1>2. Step.fn \in DOMAIN Code
  BY <1>1, TopIs, PointsAssumption DEF Step
<1>3. /\ f.fn = Step.fn /\ f.code = Code[f.fn] /\ f.ok = Step.ok /\ f.non = Step.non
      /\ f.bad = Step.bad /\ f.at = cursor /\ f.errors = error_count /\ f.flag = FALSE
  BY DEF Frame
<1>4. IsFrame(f)
  BY <1>2 DEF Frame, IsFrame
<1> HIDE DEF f
<1>5. WaitsFor(f)
  BY <1>1, PushWaits
<1> QED BY <1>1, <1>3, <1>4, <1>5 DEF ControlStep, Enters, Called

LEMMA TrySteps ==
  ASSUME OnPoints, TryParsers  PROVE ControlStep
<1>1. /\ ~Done /\ Top.code # <<>> /\ Step.op = "try" /\ UNCHANGED <<streamVars, parserState>>
  BY DEF TryParsers, Runs
<1> DEFINE able == {i \in DOMAIN Step.fns : Commits(Step.fns[i])}
           fn == Step.fns[Min(able)]
           f == Frame(CallOr(fn, <<>>, Step.non, Step.bad), Code[fn], Len(nodes))
<1>2. stack' = IF able = {} THEN [stack EXCEPT ![Len(stack)].code = Step.non \o Rest]
               ELSE Append([stack EXCEPT ![Len(stack)].code = Rest], f)
  BY DEF TryParsers
<1>3. CASE able = {}
  <2>1. GoOn(Step.non \o Rest)
    BY <1>2, <1>3 DEF GoOn
  <2>2. GoesOnWith(Step.non \o Rest) /\ stack'[Len(stack)].flag = Top.flag
    BY <1>1, <2>1, GoOnGoesOn
  <2>3. Step.non \o Rest \in Ways(Top.code)
    BY <1>1, CallWays DEF Step, Rest, AfterNoncommitted
  <2>4. /\ UNCHANGED <<cursor, rollback_stack, error_count, pending_deref, skipped, crashed>>
        /\ error_count \in Nat
    BY <1>1 DEF streamVars, parserState, OnPoints
  <2>5. NoneCommits(Step.non \o Rest)
    BY <1>1, <1>3 DEF NoneCommits
  <2>6. Effects(Step.non \o Rest)
    BY <1>1, <2>2, <2>4, <2>5
       DEF Effects, Counts, CommitsTo, KeepsFlag, KeepsMarks, KeepsOwed, LooksAt
  <2> QED BY <1>1, <2>2, <2>3, <2>6 DEF ControlStep, Advances
<1>4. CASE able # {}
  <2>1. /\ DOMAIN Step.fns \subseteq Nat
        /\ \A i \in DOMAIN Step.fns : Step.fns[i] \in DOMAIN Code \ {"parameter"}
    BY <1>1, TopIs, PointsAssumption DEF Step
  <2>2. Min(able) \in able /\ \A i \in able : Min(able) <= i
    BY <1>4, <2>1, MinIsLeast
  <2>3. /\ Min(able) \in DOMAIN Step.fns /\ fn \in DOMAIN Code /\ Commits(fn)
        /\ \A i \in DOMAIN Step.fns : Commits(Step.fns[i]) => Min(able) <= i
    BY <2>1, <2>2
  <2>4. /\ f.fn = fn /\ f.code = Code[f.fn] /\ f.ok = <<>> /\ f.non = Step.non
        /\ f.bad = Step.bad /\ f.at = cursor /\ f.errors = error_count /\ f.flag = FALSE
    BY DEF Frame, CallOr, CallWith
  <2>5. IsFrame(f)
    BY <2>3 DEF Frame, IsFrame, CallOr, CallWith
  <2>6. WaitsFor(f)
    BY <1>1, <1>2, <1>4, PushWaits
  <2>7. Called(fn)
    <3> HIDE DEF able
    <3> QED BY <1>1, <2>3 DEF Called
  <2> HIDE DEF f, fn
  <2> QED BY <1>1, <2>4, <2>5, <2>6, <2>7 DEF ControlStep, Enters
<1> QED BY <1>3, <1>4

LEMMA ReturnSteps ==
  ASSUME OnPoints, Return  PROVE ControlStep
<1>1. ~Done /\ Status # "none" /\ UNCHANGED <<streamVars, parserState>>
  BY DEF Return
<1> QED BY <1>1, ReturnLeaves DEF ControlStep, Finishes

LEMMA NextIsControl == ASSUME OnPoints, Next  PROVE ControlStep
BY ExpectSteps, LookAheadSteps, TokenSteps, OtherSimpleSteps, CloseSteps, BranchSteps, ClimbSteps,
   DerefSteps, NullSteps, CallSteps, TrySteps, ReturnSteps DEF Next

-----------------------------------------------------------------------------
(* The stack after a step, function by function *)

Waiting == 1 .. Len(stack) - 1

\* The i-th function waits for the same one, with the same on its mind.
IsAsBefore(i) ==
  /\ Goes(i)' = Goes(i) /\ ~IsTop(i)'
  /\ AfterOk(i)' = AfterOk(i) /\ AfterNon(i)' = AfterNon(i) /\ AfterBad(i)' = AfterBad(i)
  /\ stack'[i] = stack[i] /\ Alike(stack'[i + 1], stack[i + 1])

LEMMA Depths ==
  ASSUME OnPoints, ~Done
  PROVE  /\ Len(stack) \in Nat \ {0} /\ Len(stack) \in Active /\ IsTop(Len(stack))
         /\ Goes(Len(stack)) = {Top.code} /\ Top = stack[Len(stack)]
         /\ \A i \in Active : i \in Waiting \/ i = Len(stack)
         /\ \A i \in Waiting : i \in Active /\ i + 1 \in Active /\ ~IsTop(i) /\ i < Len(stack)
<1>1. Len(stack) \in Nat \ {0} /\ Top = stack[Len(stack)]
  BY TopIs
<1> QED BY <1>1 DEF Active, Waiting, IsTop, Goes

LEMMA AfterGoing ==
  ASSUME OnPoints, ~Done, NEW d, GoesOnWith(d), NEW n, n = Len(stack)
  PROVE  /\ Active' = Active /\ Len(stack') = n /\ stack' # <<>>
         /\ \A i \in Waiting : IsAsBefore(i)
         /\ Goes(n)' = {d} /\ IsTop(n)'
         /\ Top' = stack'[n] /\ Top'.code = d /\ Alike(Top', Top) /\ IsFrame(Top')
<1>1. Len(stack) \in Nat \ {0} /\ Top = stack[Len(stack)]
  BY TopIs
<1>2. Len(stack') = Len(stack) /\ stack' \in Seq(Range(stack'))
  BY DEF GoesOnWith
<1>3. stack' # <<>> /\ Top' = stack'[Len(stack)] /\ Active' = Active
  BY <1>1, <1>2, EmptySeq DEF Top, Last, Active
<1>4. Goes(n)' = {d} /\ IsTop(n)'
  BY <1>2 DEF GoesOnWith, Goes, IsTop
<1>5. ASSUME NEW i \in Waiting PROVE IsAsBefore(i)
  <2>1. stack'[i] = stack[i] /\ i \in Nat /\ i # Len(stack)
    BY <1>1, <1>5 DEF GoesOnWith, Waiting
  <2>2. Alike(stack'[i + 1], stack[i + 1])
    <3>1. CASE i + 1 = Len(stack)
      BY <3>1, <1>1 DEF GoesOnWith
    <3>2. CASE i + 1 # Len(stack)
      <4>1. i + 1 \in 1 .. Len(stack) - 1
        BY <3>2, <1>1, <1>5 DEF Waiting
      <4> QED BY <4>1 DEF GoesOnWith, Alike
    <3> QED BY <3>1, <3>2
  <2> QED BY <1>2, <2>1, <2>2 DEF IsAsBefore, Goes, AfterOk, AfterNon, AfterBad, IsTop, Alike
<1> QED BY <1>2, <1>3, <1>4, <1>5 DEF GoesOnWith

LEMMA AfterCalling ==
  ASSUME OnPoints, ~Done, NEW f, WaitsFor(f), NEW n, n = Len(stack)
  PROVE  /\ Active' = 1 .. n + 1 /\ Len(stack') = n + 1 /\ stack' # <<>>
         /\ \A i \in Waiting : IsAsBefore(i)
         /\ Goes(n)' = {f.ok \o Rest, f.non \o Rest, f.bad \o Rest} /\ ~IsTop(n)'
         /\ AfterOk(n)' = f.ok \o Rest /\ AfterNon(n)' = f.non \o Rest /\ AfterBad(n)' = f.bad \o Rest
         /\ Alike(stack'[n], Top) /\ IsFrame(stack'[n]) /\ stack'[n].flag = Top.flag
         /\ Goes(n + 1)' = {f.code} /\ IsTop(n + 1)' /\ Top' = f /\ stack'[n + 1] = f
         /\ \A i \in Active' : i \in Waiting \/ i = n \/ i = n + 1
<1>1. n \in Nat \ {0} /\ Top = stack[n]
  BY TopIs
<1>2. Len(stack') = n + 1 /\ stack' \in Seq(Range(stack'))
  BY DEF WaitsFor
<1>3. stack' # <<>> /\ Top' = stack'[n + 1] /\ Active' = 1 .. n + 1 /\ stack'[n + 1] = f
  BY <1>1, <1>2, EmptySeq DEF Top, Last, Active, WaitsFor
<1>4. /\ stack'[n].code = Rest /\ Alike(stack'[n], Top) /\ IsFrame(stack'[n])
      /\ stack'[n].flag = Top.flag
  BY DEF WaitsFor
<1>5. ~IsTop(n)' /\ IsTop(n + 1)'
  BY <1>1, <1>2 DEF IsTop
<1>6. AfterOk(n)' = f.ok \o Rest /\ AfterNon(n)' = f.non \o Rest /\ AfterBad(n)' = f.bad \o Rest
  BY <1>3, <1>4 DEF AfterOk, AfterNon, AfterBad
<1>7. Goes(n)' = {f.ok \o Rest, f.non \o Rest, f.bad \o Rest} /\ Goes(n + 1)' = {f.code}
  BY <1>3, <1>5, <1>6 DEF Goes
<1>8. ASSUME NEW i \in Waiting PROVE IsAsBefore(i)
  <2>1. stack'[i] = stack[i] /\ i \in Nat /\ i # n /\ i # n + 1
    BY <1>1, <1>8 DEF WaitsFor, Waiting
  <2>2. Alike(stack'[i + 1], stack[i + 1])
    <3>1. CASE i + 1 = n
      BY <3>1, <1>1, <1>4
    <3>2. CASE i + 1 # n
      <4>1. i + 1 \in 1 .. n - 1
        BY <3>2, <1>1, <1>8 DEF Waiting
      <4> QED BY <4>1 DEF WaitsFor, Alike
    <3> QED BY <3>1, <3>2
  <2> QED BY <1>2, <2>1, <2>2 DEF IsAsBefore, Goes, AfterOk, AfterNon, AfterBad, IsTop, Alike
<1>9. \A i \in Active' : i \in Waiting \/ i = n \/ i = n + 1
  BY <1>1, <1>3 DEF Waiting
<1> QED BY <1>2, <1>3, <1>4, <1>5, <1>6, <1>7, <1>8, <1>9

LEMMA AfterLeaving ==
  ASSUME OnPoints, ~Done, NEW next, IsLeftFor(next), NEW m \in Nat \ {0}, Len(stack) = m + 1
  PROVE  /\ m \in Waiting
         /\ Active' = 1 .. m /\ Len(stack') = m /\ stack' # <<>>
         /\ \A i \in 1 .. m - 1 : i \in Waiting /\ IsAsBefore(i)
         /\ Goes(m)' = {next \o stack[m].code} /\ IsTop(m)' /\ Top' = stack'[m]
         /\ Alike(stack'[m], stack[m]) /\ IsFrame(stack'[m]) /\ stack'[m].flag = stack[m].flag
         /\ stack'[m].code = next \o stack[m].code
         /\ \A i \in Active' : i \in 1 .. m - 1 \/ i = m
<1>1. IF m + 1 = 1 THEN stack' = <<>>
      ELSE /\ stack' \in Seq(Range(stack')) /\ Len(stack') = m
           /\ \A i \in 1 .. m - 1 : stack'[i] = stack[i]
           /\ IsFrame(stack'[m]) /\ Alike(stack'[m], stack[m])
           /\ stack'[m].code = next \o stack[m].code /\ stack'[m].flag = stack[m].flag
  <2>1. Len(stack) - 1 = m
    OBVIOUS
  <2> QED BY <2>1 DEF IsLeftFor
<1>2. Len(stack') = m /\ stack' \in Seq(Range(stack'))
  BY <1>1
<1>3. stack' # <<>> /\ Top' = stack'[m] /\ Active' = 1 .. m
  BY <1>1, <1>2, EmptySeq DEF Top, Last, Active
<1>4. /\ stack'[m].code = next \o stack[m].code /\ Alike(stack'[m], stack[m]) /\ IsFrame(stack'[m])
      /\ stack'[m].flag = stack[m].flag
  BY <1>1
<1>5. IsTop(m)' /\ Goes(m)' = {next \o stack[m].code}
  BY <1>2, <1>4 DEF IsTop, Goes
<1>6. ASSUME NEW i \in 1 .. m - 1 PROVE i \in Waiting /\ IsAsBefore(i)
  <2>1. stack'[i] = stack[i] /\ i \in Nat /\ i # m /\ i # Len(stack)
    BY <1>1, <1>6
  <2>2. Alike(stack'[i + 1], stack[i + 1])
    <3>1. CASE i + 1 = m
      BY <3>1, <1>1, <1>4
    <3>2. CASE i + 1 # m
      <4>1. i + 1 \in 1 .. m - 1
        BY <3>2, <1>1, <1>6
      <4> QED BY <4>1, <1>1 DEF Alike
    <3> QED BY <3>1, <3>2
  <2>3. i \in Waiting
    BY <1>1, <1>6 DEF Waiting
  <2> QED BY <1>2, <2>1, <2>2, <2>3 DEF IsAsBefore, Goes, AfterOk, AfterNon, AfterBad, IsTop, Alike
<1>7. m \in Waiting /\ \A i \in Active' : i \in 1 .. m - 1 \/ i = m
  BY <1>3 DEF Waiting
<1> QED BY <1>1, <1>2, <1>3, <1>4, <1>5, <1>6, <1>7

-----------------------------------------------------------------------------
(* The control points are kept *)

LEMMA PassedIsOneOf ==
  ASSUME OnPoints, ~Done, NEW m \in Nat \ {0}, Len(stack) = m + 1
  PROVE  /\ Passed \o stack[m].code \in Goes(m)
         /\ Status = "SUCCESS" => Passed \o stack[m].code = AfterOk(m)
         /\ Status = "NONCOMMITTED" => Passed \o stack[m].code = AfterNon(m)
         /\ Status \notin {"SUCCESS", "NONCOMMITTED"} => Passed \o stack[m].code = AfterBad(m)
<1>1. Top = stack[m + 1]
  BY TopIs
<1>2. Passed \in {Top.ok, Top.non, Top.bad}
      /\ (Status = "SUCCESS" => Passed = Top.ok)
      /\ (Status = "NONCOMMITTED" => Passed = Top.non)
      /\ (Status \notin {"SUCCESS", "NONCOMMITTED"} => Passed = Top.bad)
  BY DEF Passed
<1>3. ~IsTop(m)
  BY DEF IsTop
<1> QED BY <1>1, <1>2, <1>3 DEF Goes, AfterOk, AfterNon, AfterBad

LEMMA PointsKept ==
  ASSUME OnPoints, ControlStep  PROVE OnPoints'
<1>0. ~Done
  BY DEF ControlStep
<1>1. PICK n \in Nat \ {0} : n = Len(stack)
  BY <1>0, Depths
<1>2. /\ \A i \in Active : IsFrame(stack[i]) /\ Goes(i) \subseteq Points[stack[i].fn]
      /\ error_count \in Nat
  BY DEF OnPoints
<1>3. /\ Top = stack[n] /\ Goes(n) = {Top.code} /\ n \in Active
      /\ IsFrame(Top) /\ Top.fn \in DOMAIN Code /\ Top.code \in Points[Top.fn]
      /\ \A i \in Waiting : i \in Active
  BY <1>0, <1>1, Depths, TopIs
<1>w. ASSUME NEW i \in Waiting, IsAsBefore(i)
      PROVE  IsFrame(stack'[i]) /\ Goes(i)' \subseteq Points[stack'[i].fn]
  BY <1>2, <1>3, <1>w DEF IsAsBefore
<1>4. CASE Advances
  <2>1. PICK d \in Ways(Top.code) : Top.code # <<>> /\ GoesOnWith(d) /\ Effects(d)
    BY <1>4 DEF Advances
  <2>2. d \in Points[Top.fn]
    BY <1>3, <2>1, PointsAssumption
  <2>3. error_count' \in Nat
    BY <1>2, <2>1 DEF Effects, Counts
  <2>4. /\ \A i \in Waiting : IsAsBefore(i)
        /\ Goes(n)' = {d} /\ Top' = stack'[n] /\ Alike(Top', Top) /\ IsFrame(Top')
        /\ Active' = Active
    BY <1>0, <1>1, <2>1, AfterGoing
  <2>5. Goes(n)' \subseteq Points[stack'[n].fn]
    BY <2>2, <2>4 DEF Alike
  <2>6. \A i \in Active' : IsFrame(stack'[i]) /\ Goes(i)' \subseteq Points[stack'[i].fn]
    BY <1>0, <1>1, <1>w, <2>4, <2>5, Depths
  <2>7. stack' \in Seq(Range(stack'))
    BY <2>1 DEF GoesOnWith
  <2> QED BY <2>3, <2>6, <2>7 DEF OnPoints
<1>5. CASE Enters
  <2>1. PICK f : /\ WaitsFor(f) /\ IsFrame(f) /\ f.code = Code[f.fn]
                 /\ f.ok = (IF Step.op = "call" THEN Step.ok ELSE <<>>)
                 /\ f.non = Step.non /\ f.bad = Step.bad
    BY <1>5 DEF Enters
  <2>2. /\ Top.code # <<>> /\ Step.op \in {"call", "try"} /\ error_count' = error_count
    BY <1>5 DEF Enters, parserState
  <2>3. {f.ok \o Rest, f.non \o Rest, f.bad \o Rest} = Ways(Top.code)
    BY <2>1, <2>2, CallWays DEF AfterSuccess, AfterNoncommitted, AfterFailure, Step, Rest
  <2>4. /\ \A i \in Waiting : IsAsBefore(i)
        /\ Goes(n)' = {f.ok \o Rest, f.non \o Rest, f.bad \o Rest}
        /\ Alike(stack'[n], Top) /\ IsFrame(stack'[n])
        /\ Goes(n + 1)' = {f.code} /\ stack'[n + 1] = f
        /\ \A i \in Active' : i \in Waiting \/ i = n \/ i = n + 1
    BY <1>0, <1>1, <2>1, AfterCalling
  <2>5. Goes(n)' \subseteq Points[stack'[n].fn]
    BY <1>3, <2>2, <2>3, <2>4, PointsAssumption DEF Alike
  <2>6. Goes(n + 1)' \subseteq Points[stack'[n + 1].fn]
    <3>1. f.fn \in DOMAIN Code
      BY <2>1 DEF IsFrame
    <3> QED BY <3>1, <2>1, <2>4, PointsAssumption
  <2>7. \A i \in Active' : IsFrame(stack'[i]) /\ Goes(i)' \subseteq Points[stack'[i].fn]
    BY <1>w, <2>1, <2>4, <2>5, <2>6
  <2>8. stack' \in Seq(Range(stack'))
    BY <2>1 DEF WaitsFor
  <2> QED BY <1>2, <2>2, <2>7, <2>8 DEF OnPoints
<1>6. CASE Finishes
  <2>1. IsLeftFor(Passed) /\ error_count' = error_count
    BY <1>6 DEF Finishes, parserState
  <2>2. CASE n = 1
    <3>1. stack' = <<>>
      BY <1>1, <2>1, <2>2 DEF IsLeftFor
    <3> QED BY <1>2, <2>1, <3>1, EmptySeq DEF OnPoints, Active
  <2>3. CASE n # 1
    <3>1. PICK m \in Nat \ {0} : Len(stack) = m + 1
      BY <1>1, <2>3, NonEmptySeq, TopIs, <1>0
    <3>2. /\ m \in Waiting
          /\ \A i \in 1 .. m - 1 : i \in Waiting /\ IsAsBefore(i)
          /\ Goes(m)' = {Passed \o stack[m].code}
          /\ Alike(stack'[m], stack[m]) /\ IsFrame(stack'[m])
          /\ \A i \in Active' : i \in 1 .. m - 1 \/ i = m
      BY <1>0, <2>1, <3>1, AfterLeaving
    <3>3. Passed \o stack[m].code \in Goes(m)
      BY <1>0, <3>1, PassedIsOneOf
    <3>4. Goes(m)' \subseteq Points[stack'[m].fn]
      BY <1>2, <1>3, <3>2, <3>3 DEF Alike
    <3>5. \A i \in Active' : IsFrame(stack'[i]) /\ Goes(i)' \subseteq Points[stack'[i].fn]
      BY <1>w, <3>2, <3>4
    <3>6. stack' \in Seq(Range(stack'))
      BY <1>1, <2>1, <2>3 DEF IsLeftFor
    <3> QED BY <1>2, <2>1, <3>5, <3>6 DEF OnPoints
  <2> QED BY <2>2, <2>3
<1>7. CASE Dies
  BY <1>2, <1>7, EmptySeq DEF Dies, OnPoints, Active
<1> QED BY <1>0, <1>4, <1>5, <1>6, <1>7 DEF ControlStep

-----------------------------------------------------------------------------
(* A function that touched anything is committed *)

LEMMA StatusIs ==
  ASSUME ~Done
  PROVE
  /\ Status = "NONCOMMITTED" => EndsWith(Top.code, "NONCOMMITTED")
  /\ Status = "FAILED" => EndsWith(Top.code, "FAILED") \/ (Top.code # <<>> /\ Step.op = "flagged" /\ Top.flag)
  /\ Status = "SUCCESS" =>
       \/ Top.code = <<>> \/ EndsWith(Top.code, "SUCCESS")
       \/ (Top.code # <<>> /\ Step.op = "flagged" /\ ~Top.flag)
  /\ (Top.code # <<>> /\ Step.op \in {"ret", "flagged"}) \/ Top.code = <<>> \/ Status = "none"
<1>1. CASE Top.code = <<>>
  <2>1. Status = "SUCCESS"
    BY <1>1 DEF Status, Runs
  <2> QED BY <1>1, <2>1
<1>2. CASE Top.code # <<>> /\ Step.op = "ret"
  <2>1. Status = Step.status
    BY <1>2 DEF Status, Runs
  <2> QED BY <1>2, <2>1 DEF EndsWith, Step
<1>3. CASE Top.code # <<>> /\ Step.op = "flagged" /\ Top.flag
  <2>1. Status = "FAILED"
    BY <1>3 DEF Status, Runs
  <2> QED BY <1>3, <2>1
<1>4. CASE Top.code # <<>> /\ Step.op = "flagged" /\ ~Top.flag
  <2>1. Status = "SUCCESS"
    BY <1>4 DEF Status, Runs
  <2> QED BY <1>4, <2>1
<1>5. CASE Top.code # <<>> /\ Step.op \notin {"ret", "flagged"}
  <2>1. Status = "none"
    BY <1>5 DEF Status, Runs
  <2> QED BY <2>1
<1> QED BY <1>1, <1>2, <1>3, <1>4, <1>5

LEMMA CommitmentsKept ==
  ASSUME OnPoints, CommitsIfTouched, ControlStep  PROVE CommitsIfTouched'
<1>0. ~Done
  BY DEF ControlStep
<1>1. PICK n \in Nat \ {0} : n = Len(stack)
  BY <1>0, Depths
<1> DEFINE Fine(i) == \/ IsCommitted(i)
                      \/ /\ Untouched(i)
                         /\ ~IsTop(i) => /\ {AfterOk(i), AfterBad(i)} \subseteq Committed[stack[i].fn]
                                         /\ stack[i + 1].fn = "parameter" => AfterNon(i) \in Committed[stack[i].fn]
<1>2. \A i \in Active : Fine(i)
  BY DEF CommitsIfTouched
<1>3. /\ Top = stack[n] /\ Goes(n) = {Top.code} /\ n \in Active /\ IsTop(n)
      /\ Top.fn \in DOMAIN Code /\ Top.code \in Points[Top.fn]
      /\ \A i \in Waiting : i \in Active /\ ~IsTop(i)
  BY <1>0, <1>1, Depths, TopIs
<1>c. /\ Commitments(Top.code) \subseteq Committed[Top.fn]
      /\ Top.code \in Committed[Top.fn] => Ways(Top.code) \subseteq Committed[Top.fn]
      /\ Top.fn # "parameter" /\ Top.code \in Committed[Top.fn] => ~EndsWith(Top.code, "NONCOMMITTED")
  BY <1>3, CommittedAssumption
<1>t. \/ Top.code \in Committed[Top.fn]
      \/ cursor = Top.at /\ error_count = Top.errors
  BY <1>2, <1>3 DEF IsCommitted, Untouched
<1>w. ASSUME NEW i \in Waiting, IsAsBefore(i)
      PROVE  Fine(i)'
  <2>1. Fine(i) /\ ~IsTop(i)
    BY <1>2, <1>3
  <2>2. IsCommitted(i) => IsCommitted(i)'
    BY <1>w DEF IsAsBefore, IsCommitted
  <2>3. Untouched(i) => Untouched(i)'
    BY <1>w, <2>1 DEF IsAsBefore, Alike, Untouched
  <2>4. /\ {AfterOk(i), AfterBad(i)} \subseteq Committed[stack[i].fn]
        /\ stack[i + 1].fn = "parameter" => AfterNon(i) \in Committed[stack[i].fn]
        => ({AfterOk(i), AfterBad(i)} \subseteq Committed[stack[i].fn]
            /\ (stack[i + 1].fn = "parameter" => AfterNon(i) \in Committed[stack[i].fn]))'
    BY <1>w DEF IsAsBefore, Alike
  <2> QED BY <2>1, <2>2, <2>3, <2>4
<1>4. CASE Advances
  <2>1. PICK d \in Ways(Top.code) : Top.code # <<>> /\ GoesOnWith(d) /\ Effects(d)
    BY <1>4 DEF Advances
  <2>2. UNCHANGED <<cursor, error_count>> \/ d \in Committed[Top.fn]
    BY <1>c, <2>1 DEF Effects, CommitsTo
  <2>4. /\ \A i \in Waiting : IsAsBefore(i)
        /\ Goes(n)' = {d} /\ Top' = stack'[n] /\ Alike(Top', Top) /\ IsTop(n)'
        /\ Active' = Active
    BY <1>0, <1>1, <2>1, AfterGoing
  <2>5. Fine(n)'
    <3>1. CASE d \in Committed[Top.fn]
      BY <3>1, <2>4 DEF IsCommitted, Alike
    <3>2. CASE d \notin Committed[Top.fn]
      <4>1. cursor' = Top.at /\ error_count' = Top.errors
        BY <3>2, <2>1, <2>2, <1>c, <1>t
      <4> QED BY <4>1, <2>4 DEF Untouched, Alike
    <3> QED BY <3>1, <3>2
  <2>6. \A i \in Active' : Fine(i)'
    BY <1>0, <1>1, <1>w, <2>4, <2>5, Depths
  <2> QED BY <2>6 DEF CommitsIfTouched
<1>5. CASE Enters
  <2>1. PICK f : /\ WaitsFor(f) /\ Called(f.fn)
                 /\ f.ok = (IF Step.op = "call" THEN Step.ok ELSE <<>>)
                 /\ f.non = Step.non /\ f.bad = Step.bad
                 /\ f.at = cursor /\ f.errors = error_count
    BY <1>5 DEF Enters
  <2>2. /\ Top.code # <<>> /\ Step.op \in {"call", "try"} /\ UNCHANGED <<cursor, error_count>>
    BY <1>5 DEF Enters, parserState, streamVars
  <2>3. /\ f.ok \o Rest = AfterSuccess(Top.code) /\ f.non \o Rest = AfterNoncommitted(Top.code)
        /\ f.bad \o Rest = AfterFailure(Top.code)
    BY <2>1, <2>2 DEF AfterSuccess, AfterNoncommitted, AfterFailure, Step, Rest
  <2>4. /\ \A i \in Waiting : IsAsBefore(i)
        /\ Goes(n)' = {f.ok \o Rest, f.non \o Rest, f.bad \o Rest}
        /\ AfterOk(n)' = f.ok \o Rest /\ AfterNon(n)' = f.non \o Rest /\ AfterBad(n)' = f.bad \o Rest
        /\ Alike(stack'[n], Top) /\ ~IsTop(n)'
        /\ IsTop(n + 1)' /\ stack'[n + 1] = f
        /\ \A i \in Active' : i \in Waiting \/ i = n \/ i = n + 1
    BY <1>0, <1>1, <2>1, AfterCalling
  <2>5. Fine(n)'
    <3>1. CASE Top.code \in Committed[Top.fn]
      <4>1. Goes(n)' \subseteq Committed[Top.fn]
        BY <3>1, <1>c, <2>2, <2>3, <2>4, CallWays DEF Step
      <4> QED BY <4>1, <2>4 DEF IsCommitted, Alike
    <3>2. CASE Top.code \notin Committed[Top.fn]
      <4>1. {AfterOk(n)', AfterBad(n)'} \subseteq Committed[Top.fn]
        BY <1>c, <2>2, <2>3, <2>4, CommitmentsOf DEF Step
      <4>2. ASSUME f.fn = "parameter" PROVE AfterNon(n)' \in Committed[Top.fn]
        <5>1. Step.op = "call" /\ Step.fn = "parameter"
          <6>1. CASE Step.op = "try"
            <7>1. \A i \in DOMAIN Step.fns : Step.fns[i] # "parameter"
              BY <6>1, <1>3, <2>2, PointsAssumption DEF Step
            <7> QED BY <7>1, <6>1, <4>2, <2>1 DEF Called
          <6> QED BY <6>1, <4>2, <2>1, <2>2 DEF Called
        <5> QED BY <5>1, <1>c, <2>2, <2>3, <2>4, CommitmentsOf DEF Step
      <4>3. Untouched(n)'
        BY <3>2, <1>t, <2>1, <2>4 DEF Untouched, Alike
      <4> QED BY <4>1, <4>2, <4>3, <2>4 DEF Alike
    <3> QED BY <3>1, <3>2
  <2>6. Fine(n + 1)'
    BY <2>1, <2>2, <2>4 DEF Untouched
  <2>7. \A i \in Active' : Fine(i)'
    BY <1>w, <2>4, <2>5, <2>6
  <2> QED BY <2>7 DEF CommitsIfTouched
<1>6. CASE Finishes
  <2>1. IsLeftFor(Passed) /\ UNCHANGED <<cursor, error_count>> /\ Status # "none"
    BY <1>6 DEF Finishes, parserState, streamVars
  <2>2. CASE n = 1
    <3>1. stack' = <<>>
      BY <1>1, <2>1, <2>2 DEF IsLeftFor
    <3> QED BY <3>1, EmptySeq DEF CommitsIfTouched, Active
  <2>3. CASE n # 1
    <3>1. PICK m \in Nat \ {0} : Len(stack) = m + 1
      BY <1>1, <2>3, NonEmptySeq, TopIs, <1>0
    <3>2. /\ m \in Waiting
          /\ \A i \in 1 .. m - 1 : i \in Waiting /\ IsAsBefore(i)
          /\ Goes(m)' = {Passed \o stack[m].code} /\ IsTop(m)'
          /\ Alike(stack'[m], stack[m])
          /\ \A i \in Active' : i \in 1 .. m - 1 \/ i = m
      BY <1>0, <2>1, <3>1, AfterLeaving
    <3>3. /\ Passed \o stack[m].code \in Goes(m)
          /\ Status = "SUCCESS" => Passed \o stack[m].code = AfterOk(m)
          /\ Status = "NONCOMMITTED" => Passed \o stack[m].code = AfterNon(m)
          /\ Status \notin {"SUCCESS", "NONCOMMITTED"} => Passed \o stack[m].code = AfterBad(m)
      BY <1>0, <3>1, PassedIsOneOf
    <3>4. Fine(m)'
      <4>1. CASE Passed \o stack[m].code \in Committed[stack[m].fn]
        BY <4>1, <3>2 DEF IsCommitted, Alike
      <4>2. CASE Passed \o stack[m].code \notin Committed[stack[m].fn]
        <5>1. ~IsCommitted(m) /\ ~IsTop(m)
          BY <4>2, <3>2, <3>3, <1>3 DEF IsCommitted
        <5>2. /\ Top.at = stack[m].at /\ Top.errors = stack[m].errors
              /\ {AfterOk(m), AfterBad(m)} \subseteq Committed[stack[m].fn]
              /\ Top.fn = "parameter" => AfterNon(m) \in Committed[stack[m].fn]
          <6>1. Top = stack[m + 1] /\ Fine(m)
            BY <1>1, <1>2, <1>3, <3>1, <3>2
          <6> QED BY <5>1, <6>1 DEF Untouched
        <5>3. Status = "NONCOMMITTED" /\ Top.fn # "parameter"
          BY <4>2, <5>2, <3>3
        <5>4. cursor = Top.at /\ error_count = Top.errors
          BY <5>3, <1>c, <1>t, <1>0, StatusIs
        <5> QED BY <5>2, <5>4, <2>1, <3>2 DEF Untouched, Alike
      <4> QED BY <4>1, <4>2
    <3>5. \A i \in Active' : Fine(i)'
      BY <1>w, <3>2, <3>4
    <3> QED BY <3>5 DEF CommitsIfTouched
  <2> QED BY <2>2, <2>3
<1>7. CASE Dies
  BY <1>7, EmptySeq DEF Dies, CommitsIfTouched, Active
<1> QED BY <1>0, <1>4, <1>5, <1>6, <1>7 DEF ControlStep

-----------------------------------------------------------------------------
(* The marks on record are those of the functions inside one *)

InMark(i) == Goes(i) \subseteq Marking[stack[i].fn]
OutOfMark(i) == Goes(i) \subseteq Unmarked[stack[i].fn]

LEMMA MarksKept ==
  ASSUME OnPoints, OnPoints', MarksAreKept, ControlStep, StreamInv
  PROVE  MarksAreKept'
<1> SUFFICES ASSUME ~crashed' PROVE MarksAreKept'
  BY DEF MarksAreKept
<1>0. ~Done
  BY DEF ControlStep
<1>1. PICK n \in Nat \ {0} : n = Len(stack)
  BY <1>0, Depths
<1>2. ~crashed /\ ~Dies
  BY DEF ControlStep, Advances, Effects, Enters, Finishes, Dies, parserState
<1> DEFINE X == Inside
<1>3. /\ X \subseteq Active /\ Cardinality(X) = Len(rollback_stack)
      /\ \A i \in X : InMark(i)
      /\ \A i \in Active \ X : OutOfMark(i)
  BY <1>2 DEF MarksAreKept, Inside, InMark, OutOfMark
<1>f. IsFiniteSet(X) /\ Cardinality(X) \in Nat
  <2>1. Active = 1 .. n /\ IsFiniteSet(1 .. n)
    BY <1>1, FS_Interval DEF Active
  <2> QED BY <1>3, <2>1, FS_Subset, FS_CardinalityType
<1> HIDE DEF X
<1>4. /\ Top = stack[n] /\ Goes(n) = {Top.code} /\ n \in Active /\ IsTop(n)
      /\ Top.fn \in DOMAIN Code /\ Top.code \in Points[Top.fn]
      /\ \A i \in Waiting : i \in Active /\ ~IsTop(i) /\ i # n
      /\ \A i \in Active : i \in Waiting \/ i = n
      /\ Active = 1 .. n
  BY <1>0, <1>1, Depths, TopIs DEF Active
<1>m. /\ n \in X => Top.code \in Marking[Top.fn]
      /\ n \notin X => Top.code \in Unmarked[Top.fn]
  BY <1>3, <1>4 DEF InMark, OutOfMark
<1>a. /\ n \in X => /\ Top.code # <<>> /\ Step.op \notin {"mark", "ret", "flagged"}
                    /\ Step.op \in {"rollback", "commit"} => Rest \in Unmarked[Top.fn]
                    /\ Step.op \notin {"rollback", "commit"} => Ways(Top.code) \subseteq Marking[Top.fn]
      /\ n \notin X /\ Top.code # <<>> =>
            /\ Step.op \notin {"rollback", "commit"}
            /\ Step.op = "mark" => Rest \in Marking[Top.fn]
            /\ Step.op # "mark" => Ways(Top.code) \subseteq Unmarked[Top.fn]
  BY <1>4, <1>m, MarkAssumption DEF Step, Rest
<1>w. ASSUME NEW i \in Waiting, IsAsBefore(i)
      PROVE  (i \in X => InMark(i)') /\ (i \notin X => OutOfMark(i)')
  BY <1>3, <1>4, <1>w DEF IsAsBefore, InMark, OutOfMark
<1> DEFINE Fits(Y) == /\ Y \subseteq Active' /\ Cardinality(Y) = Len(rollback_stack')
                      /\ \A i \in Y : InMark(i)'
                      /\ \A i \in Active' \ Y : OutOfMark(i)'
<1>5. ASSUME Advances PROVE \E Y : Fits(Y)
  <2>1. PICK d \in Ways(Top.code) : Top.code # <<>> /\ GoesOnWith(d) /\ Effects(d)
    BY <1>5 DEF Advances
  <2>2. KeepsMarks
    BY <2>1 DEF Effects
  <2>3. /\ \A i \in Waiting : IsAsBefore(i)
        /\ Goes(n)' = {d} /\ Top' = stack'[n] /\ Alike(Top', Top)
        /\ Active' = Active
    BY <1>0, <1>1, <2>1, AfterGoing
  <2>4. /\ d \in Marking[Top.fn] => InMark(n)'
        /\ d \in Unmarked[Top.fn] => OutOfMark(n)'
    BY <2>3 DEF Alike, InMark, OutOfMark
  <2>5. Step.op \in {"mark", "rollback", "commit"} => d = Rest
    <3>1. Step.op \in Simple => Ways(Top.code) = {Rest}
      BY <2>1, WaysOf DEF Step, Rest
    <3> QED BY <2>1, <3>1 DEF Simple
  <2>6. CASE n \in X /\ Step.op \in {"rollback", "commit"}
    <3>1. d \in Unmarked[Top.fn]
      BY <2>5, <2>6, <1>a
    <3>2. rollback_stack # <<>> /\ rollback_stack' = Front(rollback_stack)
      BY <2>2, <2>6 DEF KeepsMarks, rollback, commit_rollback
    <3>3. rollback_stack \in Seq(MarkSet)
      BY DEF StreamInv, Recorded, Marked
    <3>4. PICK k \in Nat : Len(rollback_stack) = k + 1
      BY <3>2, <3>3, NonEmptySeq
    <3>5. Len(rollback_stack') = k
      BY <3>2, <3>3, <3>4, FrontOfSeq
    <3>6. Cardinality(X \ {n}) = k
      <4>1. Cardinality(X \ {n}) = Cardinality(X) - 1
        BY <1>f, <2>6, FS_RemoveElement
      <4> QED BY <4>1, <1>3, <3>4
    <3>7. /\ \A i \in X \ {n} : InMark(i)'
          /\ \A i \in Active \ (X \ {n}) : OutOfMark(i)'
      BY <1>3, <1>4, <1>w, <2>3, <2>4, <3>1
    <3>8. Fits(X \ {n})
      BY <1>3, <2>3, <3>5, <3>6, <3>7
    <3> QED BY <3>8
  <2>7. CASE n \notin X /\ Step.op = "mark"
    <3>1. d \in Marking[Top.fn]
      BY <2>1, <2>5, <2>7, <1>a
    <3>2. PICK e : e \in MarkSet /\ rollback_stack' = Append(rollback_stack, e)
      BY <2>2, <2>7 DEF KeepsMarks, mark_rollback, MarkSet, StreamInv
    <3>3. rollback_stack \in Seq(MarkSet)
      BY DEF StreamInv, Recorded, Marked
    <3>4. Len(rollback_stack') = Len(rollback_stack) + 1
      BY <3>2, <3>3, AppendToSeq
    <3>5. Cardinality(X \cup {n}) = Len(rollback_stack) + 1
      BY <1>3, <1>f, <2>7, FS_AddElement
    <3>6. /\ \A i \in X \cup {n} : InMark(i)'
          /\ \A i \in Active \ (X \cup {n}) : OutOfMark(i)'
      BY <1>3, <1>4, <1>w, <2>3, <2>4, <3>1
    <3>7. Fits(X \cup {n})
      BY <1>3, <1>4, <2>3, <3>4, <3>5, <3>6
    <3> QED BY <3>7
  <2>8. CASE Step.op \notin {"mark", "rollback", "commit"}
    <3>1. rollback_stack' = rollback_stack
      BY <2>2, <2>8 DEF KeepsMarks
    <3>2. /\ n \in X => d \in Marking[Top.fn]
          /\ n \notin X => d \in Unmarked[Top.fn]
      BY <2>1, <2>8, <1>a
    <3>3. /\ \A i \in X : InMark(i)'
          /\ \A i \in Active \ X : OutOfMark(i)'
      BY <1>3, <1>4, <1>w, <2>3, <2>4, <3>2
    <3>4. Fits(X)
      BY <1>3, <2>3, <3>1, <3>3
    <3> QED BY <3>4
  <2>9. /\ n \in X => Step.op # "mark"
        /\ n \notin X => Step.op \notin {"rollback", "commit"}
    BY <2>1, <1>a
  <2> QED BY <2>6, <2>7, <2>8, <2>9
<1>6. ASSUME Enters PROVE \E Y : Fits(Y)
  <2>1. PICK f : /\ WaitsFor(f) /\ IsFrame(f) /\ f.code = Code[f.fn]
                 /\ f.ok = (IF Step.op = "call" THEN Step.ok ELSE <<>>)
                 /\ f.non = Step.non /\ f.bad = Step.bad
    BY <1>6 DEF Enters
  <2>2. /\ Top.code # <<>> /\ Step.op \in {"call", "try"} /\ UNCHANGED rollback_stack
    BY <1>6 DEF Enters, streamVars
  <2>3. {f.ok \o Rest, f.non \o Rest, f.bad \o Rest} = Ways(Top.code)
    BY <2>1, <2>2, CallWays DEF AfterSuccess, AfterNoncommitted, AfterFailure, Step, Rest
  <2>4. /\ \A i \in Waiting : IsAsBefore(i)
        /\ Goes(n)' = {f.ok \o Rest, f.non \o Rest, f.bad \o Rest}
        /\ Alike(stack'[n], Top) /\ Active' = 1 .. n + 1
        /\ Goes(n + 1)' = {f.code} /\ stack'[n + 1] = f
        /\ \A i \in Active' : i \in Waiting \/ i = n \/ i = n + 1
    BY <1>0, <1>1, <2>1, AfterCalling
  <2>5. (n \in X => InMark(n)') /\ (n \notin X => OutOfMark(n)')
    <3>1. /\ n \in X => Ways(Top.code) \subseteq Marking[Top.fn]
          /\ n \notin X => Ways(Top.code) \subseteq Unmarked[Top.fn]
      BY <2>2, <1>a
    <3> QED BY <3>1, <2>3, <2>4 DEF Alike, InMark, OutOfMark
  <2>6. n + 1 \notin X /\ OutOfMark(n + 1)'
    <3>1. f.fn \in DOMAIN Code
      BY <2>1 DEF IsFrame
    <3>2. n + 1 \notin X
      BY <1>3, <1>4
    <3> QED BY <3>1, <3>2, <2>1, <2>4, MarkAssumption DEF OutOfMark
  <2>7. X \subseteq Active'
    BY <1>3, <1>4, <2>4
  <2>8. /\ \A i \in X : InMark(i)'
        /\ \A i \in Active' \ X : OutOfMark(i)'
    BY <1>3, <1>4, <1>w, <2>4, <2>5, <2>6
  <2>9. Fits(X)
    BY <1>3, <2>2, <2>7, <2>8
  <2> QED BY <2>9
<1>7. ASSUME Finishes PROVE \E Y : Fits(Y)
  <2>1. IsLeftFor(Passed) /\ UNCHANGED rollback_stack /\ Status # "none"
    BY <1>7 DEF Finishes, streamVars
  <2>2. n \notin X
    <3>1. Top.code = <<>> \/ Step.op \in {"ret", "flagged"}
      BY <1>0, <2>1, StatusIs
    <3> QED BY <3>1, <1>a
  <2>3. CASE n = 1
    <3>1. stack' = <<>>
      BY <1>1, <2>1, <2>3 DEF IsLeftFor
    <3>2. Active' = {}
      BY <3>1, EmptySeq DEF Active
    <3>3. X = {}
      BY <1>3, <1>4, <2>2, <2>3
    <3>4. Fits(X)
      BY <1>3, <2>1, <3>2, <3>3
    <3> QED BY <3>4
  <2>4. CASE n # 1
    <3>1. PICK m \in Nat \ {0} : Len(stack) = m + 1
      BY <1>1, <2>4, NonEmptySeq, TopIs, <1>0
    <3>2. /\ m \in Waiting /\ Active' = 1 .. m
          /\ \A i \in 1 .. m - 1 : i \in Waiting /\ IsAsBefore(i)
          /\ Goes(m)' = {Passed \o stack[m].code}
          /\ Alike(stack'[m], stack[m])
          /\ \A i \in Active' : i \in 1 .. m - 1 \/ i = m
      BY <1>0, <2>1, <3>1, AfterLeaving
    <3>3. Passed \o stack[m].code \in Goes(m)
      BY <1>0, <3>1, PassedIsOneOf
    <3>4. (m \in X => InMark(m)') /\ (m \notin X => OutOfMark(m)')
      BY <1>3, <1>4, <3>2, <3>3 DEF Alike, InMark, OutOfMark
    <3>5. X \subseteq Active'
      BY <1>1, <1>3, <1>4, <2>2, <3>1, <3>2
    <3>6. /\ \A i \in X : InMark(i)'
          /\ \A i \in Active' \ X : OutOfMark(i)'
      BY <1>w, <3>2, <3>4, <3>5
    <3>7. Fits(X)
      BY <1>3, <2>1, <3>5, <3>6
    <3> QED BY <3>7
  <2> QED BY <2>3, <2>4
<1>8. PICK Y : Fits(Y)
  BY <1>2, <1>5, <1>6, <1>7 DEF ControlStep
<1>9. \A i \in Active' : ~(InMark(i)' /\ OutOfMark(i)')
  <2> SUFFICES ASSUME NEW i \in Active' PROVE ~(InMark(i)' /\ OutOfMark(i)')
    OBVIOUS
  <2>1. PICK c : c \in Goes(i)'
    BY DEF Goes
  <2>2. stack'[i].fn \in DOMAIN Code
    BY DEF OnPoints, IsFrame
  <2> QED BY <2>1, <2>2, MarkAssumption DEF InMark, OutOfMark
<1>10. Inside' = Y
  BY <1>8, <1>9 DEF Inside, InMark
<1> QED BY <1>8, <1>10 DEF MarksAreKept, OutOfMark

-----------------------------------------------------------------------------
(* A dereference is owed on the way to the operand only *)

LEMMA SeesOne ==
  ASSUME NEW kind, kind # "integer", kind \notin Words, Sees({kind})
  PROVE  peek.tok_type = kind
BY DEF Sees, Names

LEMMA OwedKept ==
  ASSUME OnPoints, OwedIsAsked, ControlStep  PROVE OwedIsAsked'
<1>0. ~Done
  BY DEF ControlStep
<1>1. PICK n \in Nat \ {0} : n = Len(stack)
  BY <1>0, Depths
<1>2. Top.fn \in DOMAIN Code /\ Top.code \in Points[Top.fn]
  BY <1>0, TopIs
<1>a. Top.code # <<>> /\ Step.op = "owe" => Asks(Rest)
  BY <1>2, OwedAssumption DEF Step, Rest
<1>b. Top.fn = "ParsePrimaryExpr" /\ Top.code = Code["ParsePrimaryExpr"] =>
        /\ Top.code # <<>> /\ Step.op = "try" /\ DOMAIN Step.fns = 1 .. Len(Step.fns)
        /\ Len(Step.fns) > 1 /\ Step.fns[1] = "neg" /\ Step.fns[2] = "ParseDerefExpr"
  BY OwedAssumption DEF Step
<1>c. Top.fn = "neg" /\ Top.code = Code["neg"] =>
        /\ Top.code # <<>> /\ Step.op = "expect" /\ Step.kinds = {"-"} /\ Asks(Step.yes \o Rest)
  BY OwedAssumption DEF Step, Rest
<1>d. Top.fn = "ParseDerefExpr" /\ Top.code = Code["ParseDerefExpr"] =>
        Top.code # <<>> /\ Step.op = "pending"
  BY OwedAssumption DEF Step
<1>e. Asks(Top.code) => Top.code # <<>> /\ Step.op = "call" /\ Step.fn = "ParsePrimaryExpr"
  BY DEF Asks, Step
<1>f. Code["neg"] # <<>> /\ Code["neg"][1].kinds = {"-"}
  BY OwedAssumption
<1>g. pending_deref # 0 =>
        /\ pending_deref = 1
        /\ \/ Asks(Top.code)
           \/ Top.fn \in {"ParsePrimaryExpr", "ParseDerefExpr"} /\ Top.code = Code[Top.fn]
           \/ Top.fn = "neg" /\ Top.code = Code["neg"] /\ Sees({"-"})
  BY DEF OwedIsAsked
<1>h. pending_deref # 0 => Top.code # <<>> /\ Step.op \in {"call", "try", "pending", "expect"}
  BY <1>b, <1>c, <1>d, <1>e, <1>g
<1>4. CASE Advances
  <2>1. PICK d \in Ways(Top.code) : Top.code # <<>> /\ GoesOnWith(d) /\ Effects(d)
    BY <1>4 DEF Advances
  <2>2. Top'.code = d /\ stack' # <<>>
    BY <1>0, <1>1, <2>1, AfterGoing
  <2>3. KeepsOwed /\ LooksAt(d) /\ NoneCommits(d)
    BY <2>1 DEF Effects
  <2>4. CASE pending_deref = 0 /\ Step.op = "owe"
    <3>1. d = Rest
      <4>1. Ways(Top.code) = {Rest}
        BY <2>1, <2>4, WaysOf DEF Step, Rest, Simple
      <4> QED BY <2>1, <4>1
    <3>2. pending_deref' = 1
      BY <2>3, <2>4 DEF KeepsOwed
    <3> QED BY <3>1, <3>2, <2>1, <2>2, <2>4, <1>a DEF OwedIsAsked
  <2>5. CASE pending_deref = 0 /\ Step.op # "owe"
    <3>1. pending_deref' = 0
      BY <2>3, <2>5 DEF KeepsOwed
    <3> QED BY <3>1 DEF OwedIsAsked
  <2>6. CASE pending_deref # 0 /\ Step.op = "pending"
    <3>1. pending_deref = 1
      BY <1>g, <2>6
    <3>2. pending_deref' = 0
      BY <2>3, <2>6, <3>1 DEF KeepsOwed
    <3> QED BY <3>2 DEF OwedIsAsked
  <2>7. CASE pending_deref # 0 /\ Step.op = "expect"
    <3>1. Top.fn = "neg" /\ Top.code = Code["neg"] /\ Sees({"-"})
      BY <1>b, <1>d, <1>e, <1>g, <2>7
    <3>2. Step.kinds = {"-"} /\ Asks(Step.yes \o Rest)
      BY <1>c, <3>1
    <3>3. ~isEnd
      <4>1. peek.tok_type = "-"
        <5>1. "-" # "integer" /\ "-" \notin Words
          BY DEF Words
        <5> QED BY <3>1, <5>1, SeesOne
      <4> QED BY <4>1 DEF isEnd
    <3>4. d = Step.yes \o Rest
      BY <2>3, <2>7, <3>1, <3>2, <3>3 DEF LooksAt
    <3>5. pending_deref' = 1
      BY <1>g, <2>3, <2>7 DEF KeepsOwed
    <3> QED BY <3>2, <3>4, <3>5, <2>2 DEF OwedIsAsked
  <2>8. CASE pending_deref # 0 /\ Step.op = "try"
    <3>1. Top.fn = "ParsePrimaryExpr" /\ Top.code = Code["ParsePrimaryExpr"]
      BY <1>c, <1>d, <1>e, <1>g, <2>8
    <3>2. 2 \in DOMAIN Step.fns /\ Step.fns[2] = "ParseDerefExpr"
      <4>1. DOMAIN Step.fns = 1 .. Len(Step.fns) /\ Len(Step.fns) > 1 /\ DOMAIN Step.fns \subseteq Nat
        BY <1>b, <1>2, <3>1, PointsAssumption DEF Step
      <4>2. 2 \in 1 .. Len(Step.fns)
        BY <1>b, <3>1, <4>1
      <4> QED BY <1>b, <3>1, <4>1, <4>2
    <3>3. Commits("ParseDerefExpr")
      BY <1>g, <2>8 DEF Commits
    <3> QED BY <3>2, <3>3, <2>3, <2>8 DEF NoneCommits
  <2>9. CASE Step.op = "call"
    BY <2>3, <2>9 DEF NoneCommits
  <2> QED BY <1>h, <2>4, <2>5, <2>6, <2>7, <2>8, <2>9
<1>5. CASE Enters
  <2>1. PICK f : WaitsFor(f) /\ Called(f.fn) /\ f.code = Code[f.fn]
    BY <1>5 DEF Enters
  <2>2. /\ Top.code # <<>> /\ Step.op \in {"call", "try"} /\ UNCHANGED pending_deref
        /\ UNCHANGED <<TokStream, cursor>>
    BY <1>5 DEF Enters, parserState, streamVars
  <2>3. Top' = f /\ stack' # <<>>
    BY <1>0, <1>1, <2>1, AfterCalling
  <2>4. CASE pending_deref = 0
    BY <2>2, <2>4 DEF OwedIsAsked
  <2>5. CASE pending_deref # 0 /\ Step.op = "call"
    <3>1. f.fn = "ParsePrimaryExpr"
      BY <1>b, <1>c, <1>d, <1>e, <1>g, <2>1, <2>5 DEF Called
    <3> QED BY <3>1, <2>1, <2>2, <2>3, <2>5, <1>g DEF OwedIsAsked
  <2>6. CASE pending_deref # 0 /\ Step.op = "try"
    <3>1. Top.fn = "ParsePrimaryExpr" /\ Top.code = Code["ParsePrimaryExpr"]
      BY <1>c, <1>d, <1>e, <1>g, <2>6
    <3>2. DOMAIN Step.fns \subseteq Nat /\ DOMAIN Step.fns = 1 .. Len(Step.fns) /\ Len(Step.fns) > 1
          /\ Step.fns[1] = "neg" /\ Step.fns[2] = "ParseDerefExpr"
      BY <1>b, <1>2, <3>1, PointsAssumption DEF Step
    <3>3. PICK i \in DOMAIN Step.fns :
            /\ f.fn = Step.fns[i] /\ Commits(f.fn)
            /\ \A j \in DOMAIN Step.fns : Commits(Step.fns[j]) => i <= j
      BY <2>1, <2>6 DEF Called
    <3>4. 1 \in DOMAIN Step.fns /\ 2 \in DOMAIN Step.fns
      BY <3>2, <3>3
    <3>5. Commits("ParseDerefExpr")
      BY <1>g, <2>6 DEF Commits
    <3>6. i = 1 \/ i = 2
      BY <3>2, <3>3, <3>4, <3>5
    <3>7. f.fn = "neg" => Sees({"-"})'
      <4>1. Commits("neg") => Sees({"-"})
        BY <1>f DEF Commits
      <4>2. Sees({"-"})' = Sees({"-"})
        BY <2>2 DEF Sees, Names, peek
      <4> QED BY <4>1, <4>2, <3>3
    <3>8. pending_deref' = 1
      BY <1>g, <2>2, <2>6
    <3>9. f.fn \in {"neg", "ParseDerefExpr"}
      BY <3>2, <3>3, <3>6
    <3> QED BY <3>7, <3>8, <3>9, <2>1, <2>3 DEF OwedIsAsked
  <2> QED BY <2>2, <2>4, <2>5, <2>6
<1>6. CASE Finishes
  <2>1. UNCHANGED pending_deref /\ Status # "none"
    BY <1>6 DEF Finishes, parserState
  <2>2. Top.code = <<>> \/ Step.op \in {"ret", "flagged"}
    BY <1>0, <2>1, StatusIs
  <2>3. pending_deref = 0
    BY <1>h, <2>2
  <2> QED BY <2>1, <2>3 DEF OwedIsAsked
<1>7. CASE Dies
  <2>1. pending_deref = 0 /\ pending_deref' = 0
    BY <1>h, <1>7 DEF Dies
  <2> QED BY <2>1 DEF OwedIsAsked
<1> QED BY <1>0, <1>4, <1>5, <1>6, <1>7 DEF ControlStep

-----------------------------------------------------------------------------
(* A function fails only where something was reported *)

\* A kernel has a name: what follows the token just taken.
KernelIsNamed ==
  cursor > 1 /\ TokStream[cursor - 1].tok_type = "kernel" => peek.tok_type = "identifier"

\* The silent call takes up the next token.
LEMMA SilentCallee ==
  ASSUME OnPoints, ~Done, KernelIsNamed, StreamInv, NEW caller, Silently(caller, Top.fn), Seen(caller),
         Top.code = Code[Top.fn]
  PROVE  /\ Top.code # <<>> /\ Step.op = "expect" /\ Sees(Step.kinds) /\ ~isEnd
         /\ Top.fn # "parameter"
<1>1. CASE caller = "ParseIfExpr" /\ Top.fn = "ParseIfExpr"
  <2>1. Sees({"if"})
    BY <1>1 DEF Seen
  <2>2. "if" # "integer" /\ "if" \notin Words
    BY DEF Words
  <2>3. peek.tok_type = "if"
    BY <2>1, <2>2, SeesOne
  <2>4. Top.code # <<>> /\ Step.op = "expect" /\ Step.kinds = {"if"}
    BY <1>1, SilentAssumption DEF Step
  <2> QED BY <1>1, <2>1, <2>3, <2>4 DEF isEnd
<1>2. CASE caller = "ParseKernelDef" /\ Top.fn = "ParsePrototype"
  <2>1. peek.tok_type = "identifier"
    BY <1>2 DEF Seen, KernelIsNamed
  <2>2. Sees({"identifier"})
    BY <2>1 DEF Sees, Names
  <2>3. Top.code # <<>> /\ Step.op = "expect" /\ Step.kinds = {"identifier"}
    BY <1>2, SilentAssumption DEF Step
  <2> QED BY <1>2, <2>1, <2>2, <2>3 DEF isEnd
<1> QED BY <1>1, <1>2 DEF Silently

\* What does not return NONCOMMITTED does not do so after a step.
LEMMA CertainWaits ==
  ASSUME OnPoints, ~Done, NEW i \in Waiting, IsAsBefore(i), Certain(i)  PROVE Certain(i)'
<1>1. ~IsTop(i) /\ stack'[i] = stack[i]
  BY Depths DEF IsAsBefore
<1>2. IsCommitted(i) => IsCommitted(i)'
  BY DEF IsCommitted, IsAsBefore
<1>3. AlwaysCommits(stack[i].fn) \/ (IsCommitted(i) /\ stack[i].fn # "parameter")
  BY <1>1 DEF Certain
<1> QED BY <1>1, <1>2, <1>3 DEF Certain

LEMMA CertainGoes ==
  ASSUME OnPoints, ~Done, KernelIsNamed, StreamInv, NEW n, n = Len(stack), Certain(n),
         NEW d \in Ways(Top.code), Top.code # <<>>, GoesOnWith(d), Effects(d)
  PROVE  Certain(n)'
<1>1. /\ Top = stack[n] /\ Goes(n) = {Top.code} /\ Top.fn \in DOMAIN Code
      /\ Top.code \in Points[Top.fn]
  BY Depths, TopIs
<1>2. Goes(n)' = {d} /\ stack'[n].fn = Top.fn
  BY AfterGoing DEF Alike
<1>3. CASE AlwaysCommits(Top.fn)
  BY <1>2, <1>3 DEF Certain
<1>4. CASE IsCommitted(n) /\ Top.fn # "parameter"
  <2>1. d \in Committed[Top.fn]
    BY <1>1, <1>4, CommittedAssumption DEF IsCommitted
  <2> QED BY <1>2, <1>4, <2>1 DEF Certain, IsCommitted
<1>5. CASE \E caller : Silently(caller, Top.fn) /\ Seen(caller) /\ Top.code = Code[Top.fn]
  <2>1. /\ Step.op = "expect" /\ Sees(Step.kinds) /\ ~isEnd /\ Top.fn # "parameter"
    BY <1>5, SilentCallee
  <2>2. d = Step.yes \o Rest
    BY <2>1 DEF Effects, LooksAt
  <2>3. d \in Commitments(Top.code)
    BY <2>1, <2>2, CommitmentsOf DEF Step, Rest
  <2>4. d \in Committed[Top.fn]
    BY <1>1, <2>3, CommittedAssumption
  <2> QED BY <1>2, <2>1, <2>4 DEF Certain, IsCommitted
<1> QED BY <1>1, <1>3, <1>4, <1>5 DEF Certain

LEMMA CertainCalls ==
  ASSUME OnPoints, ~Done, KernelIsNamed, StreamInv, NEW n, n = Len(stack), Certain(n),
         Top.code # <<>>, Step.op \in {"call", "try"},
         Goes(n)' = Ways(Top.code), stack'[n].fn = Top.fn
  PROVE  Certain(n)'
<1>1. /\ Top = stack[n] /\ Goes(n) = {Top.code} /\ Top.fn \in DOMAIN Code
      /\ Top.code \in Points[Top.fn]
  BY Depths, TopIs
<1>2. ~(\E caller : Silently(caller, Top.fn) /\ Seen(caller) /\ Top.code = Code[Top.fn])
  BY SilentCallee
<1>3. AlwaysCommits(Top.fn) \/ (IsCommitted(n) /\ Top.fn # "parameter")
  BY <1>1, <1>2 DEF Certain
<1>4. IsCommitted(n) => IsCommitted(n)'
  BY <1>1, CommittedAssumption DEF IsCommitted
<1> QED BY <1>3, <1>4 DEF Certain

\* It does not return it now either.
LEMMA CertainReturns ==
  ASSUME OnPoints, ~Done, KernelIsNamed, StreamInv, Certain(Len(stack))
  PROVE  Status # "NONCOMMITTED"
<1> SUFFICES ASSUME Status = "NONCOMMITTED" PROVE FALSE
  OBVIOUS
<1>1. EndsWith(Top.code, "NONCOMMITTED")
  BY StatusIs
<1>2. /\ Top = stack[Len(stack)] /\ Goes(Len(stack)) = {Top.code} /\ Top.fn \in DOMAIN Code
      /\ Top.code \in Points[Top.fn]
  BY Depths, TopIs
<1>3. ~AlwaysCommits(Top.fn)
  BY <1>1, <1>2 DEF AlwaysCommits
<1>4. ~(IsCommitted(Len(stack)) /\ Top.fn # "parameter")
  BY <1>1, <1>2, CommittedAssumption DEF IsCommitted
<1>5. ~(\E caller : Silently(caller, Top.fn) /\ Seen(caller) /\ Top.code = Code[Top.fn])
  BY <1>1, SilentCallee DEF EndsWith, Step
<1> QED BY <1>2, <1>3, <1>4, <1>5 DEF Certain


LEMMA QuietWaits ==
  ASSUME OnPoints, ~Done, NEW i \in Waiting, IsAsBefore(i), IsQuiet(i),
         Certain(i + 1) => Certain(i + 1)'
  PROVE  IsQuiet(i)'
<1>1. ~IsTop(i) /\ ~IsTop(i)' /\ stack'[i] = stack[i]
      /\ AfterOk(i)' = AfterOk(i) /\ AfterNon(i)' = AfterNon(i)
  BY Depths DEF IsAsBefore
<1>2. /\ stack[i].flag = FALSE
      /\ AfterOk(i) \in Quiet[stack[i].fn] /\ ~SilentCall(stack[i].fn, AfterOk(i))
      /\ \/ AfterNon(i) \in Quiet[stack[i].fn] /\ ~SilentCall(stack[i].fn, AfterNon(i))
         \/ Certain(i + 1)
  BY <1>1 DEF IsQuiet
<1>3. /\ stack'[i].flag = FALSE
      /\ AfterOk(i)' \in Quiet[stack'[i].fn] /\ ~SilentCall(stack'[i].fn, AfterOk(i)')
      /\ \/ AfterNon(i)' \in Quiet[stack'[i].fn] /\ ~SilentCall(stack'[i].fn, AfterNon(i)')
         \/ Certain(i + 1)'
  BY <1>1, <1>2
<1> QED BY <1>1, <1>3 DEF IsQuiet

\* What is true of a quiet function on top.
LEMMA QuietTop ==
  ASSUME OnPoints, ~Done, IsQuiet(Len(stack))
  PROVE  /\ Top.flag = FALSE /\ Top.code \in Quiet[Top.fn]
         /\ SilentCall(Top.fn, Top.code) => Seen(Top.fn)
         /\ QuietWays(Top.fn, Top.code) \subseteq Quiet[Top.fn]
         /\ Top.code # <<>> /\ Step.op = "ret" => Step.status \in {"SUCCESS", "NONCOMMITTED"}
         /\ Top.code # <<>> => Step.op # "flag"
         /\ Top.code # <<>> /\ Step.op = "exhaust" => Rest # <<>> /\ Rest[1] = Err
<1>1. Top = stack[Len(stack)] /\ IsTop(Len(stack)) /\ Top.fn \in DOMAIN Code
  BY Depths, TopIs
<1>2. /\ Top.flag = FALSE /\ Top.code \in Quiet[Top.fn]
      /\ SilentCall(Top.fn, Top.code) => Seen(Top.fn)
  BY <1>1 DEF IsQuiet
<1> QED BY <1>1, <1>2, QuietAssumption DEF Step, Rest

LEMMA QuietDoesNotFail ==
  ASSUME OnPoints, ~Done, IsQuiet(Len(stack)), Status # "none"
  PROVE  Status \in {"SUCCESS", "NONCOMMITTED"}
<1>1. /\ Top.flag = FALSE
      /\ Top.code # <<>> /\ Step.op = "ret" => Step.status \in {"SUCCESS", "NONCOMMITTED"}
  BY QuietTop
<1>2. CASE Top.code = <<>>
  BY <1>2 DEF Status, Runs
<1>3. CASE Top.code # <<>> /\ Step.op = "ret"
  BY <1>1, <1>3 DEF Status, Runs
<1>4. CASE Top.code # <<>> /\ Step.op = "flagged"
  BY <1>1, <1>4 DEF Status, Runs
<1> QED BY <1>2, <1>3, <1>4, StatusIs

LEMMA QuietGoes ==
  ASSUME OnPoints, ~Done, StreamInv, NEW n, n = Len(stack), IsQuiet(n), Top.code # <<>>,
         NEW d \in Ways(Top.code), GoesOnWith(d), Effects(d), Step.op # "err"
  PROVE  IsQuiet(n)'
<1> DEFINE c == Top.code
<1>0. PICK fn : fn = Top.fn
  OBVIOUS
<1>1. /\ Top = stack[n] /\ fn \in DOMAIN Code /\ c \in Points[fn]
  BY <1>0, Depths, TopIs
<1>2. /\ Top.flag = FALSE /\ c \in Quiet[fn] /\ QuietWays(fn, c) \subseteq Quiet[fn]
      /\ Step.op # "flag"
  BY <1>0, QuietTop
<1>3. /\ stack'[n].fn = fn /\ stack'[n].code = d /\ IsTop(n)'
  BY <1>0, AfterGoing DEF Alike
<1>4. stack'[n].flag = FALSE
  BY <1>2 DEF Effects, KeepsFlag
<1>5. NoneCommits(d) /\ LooksAt(d)
  BY DEF Effects
<1>6. d \in QuietWays(fn, c)
  <2>1. CASE Step.op = "try"
    <3>1. d = AfterNoncommitted(c)
      BY <1>5, <2>1 DEF NoneCommits, AfterNoncommitted, Step, Rest
    <3>2. ~SilentCall(fn, c) /\ c[1].op # "call" /\ Calls(c)
      BY <2>1 DEF SilentCall, Step, Calls
    <3> QED BY <3>1, <3>2 DEF QuietWays
  <2>2. CASE Step.op # "try"
    <3>1. ~Calls(c) /\ c[1].op # "err"
      BY <1>5, <2>2 DEF NoneCommits, Step, Calls
    <3>2. Ways(c) = Moves(c) /\ QuietWays(fn, c) = Moves(c)
      BY <3>1 DEF Ways, QuietWays
    <3> QED BY <3>2
  <2> QED BY <2>1, <2>2
<1>7. SilentCall(fn, d) => Seen(fn)'
  <2> SUFFICES ASSUME SilentCall(fn, d) PROVE Seen(fn)'
    OBVIOUS
  <2>1. /\ d # Step.no \o Rest
        /\ \/ fn = "ParseIfExpr" /\ Step.op = "peek" /\ Step.kinds = {"if"}
           \/ fn = "ParseKernelDef" /\ Step.op = "expect" /\ Step.kinds = {"kernel"}
    BY <1>1, SilentAssumption DEF Step, Rest
  <2>2. CASE fn = "ParseIfExpr" /\ Step.op = "peek" /\ Step.kinds = {"if"}
    <3>1. Sees({"if"}) /\ UNCHANGED streamVars
      BY <1>5, <2>1, <2>2 DEF LooksAt
    <3>2. Sees({"if"})'
      BY <3>1 DEF Sees, Names, peek, streamVars
    <3> QED BY <2>2, <3>2 DEF Seen
  <2>3. CASE fn = "ParseKernelDef" /\ Step.op = "expect" /\ Step.kinds = {"kernel"}
    <3>1. Sees({"kernel"}) /\ consume
      BY <1>5, <2>1, <2>3 DEF LooksAt
    <3>2. "kernel" # "integer" /\ "kernel" \notin Words
      BY DEF Words
    <3>3. TokStream[cursor].tok_type = "kernel"
      BY <3>1, <3>2, SeesOne DEF peek
    <3>4. cursor \in Nat \ {0}
      BY DEF StreamInv
    <3>5. cursor' = cursor + 1 /\ TokStream' = TokStream
      BY <3>1, <3>3 DEF consume, Past
    <3>6. cursor' > 1 /\ cursor' - 1 = cursor
      BY <3>4, <3>5
    <3>7. TokStream'[cursor' - 1].tok_type = "kernel"
      BY <3>3, <3>5, <3>6
    <3> QED BY <2>3, <3>6, <3>7 DEF Seen
  <2> QED BY <2>1, <2>2, <2>3
<1> QED BY <1>2, <1>3, <1>4, <1>6, <1>7 DEF IsQuiet

LEMMA QuietCalls ==
  ASSUME OnPoints, ~Done, StreamInv, NEW n, n = Len(stack), IsQuiet(n), Top.code # <<>>,
         Step.op \in {"call", "try"}, UNCHANGED <<TokStream, cursor>>,
         NEW f, WaitsFor(f), Called(f.fn), f.code = Code[f.fn],
         AfterOk(n)' = AfterSuccess(Top.code), AfterNon(n)' = AfterNoncommitted(Top.code)
  PROVE  IsQuiet(n)'
<1> DEFINE c == Top.code
<1>0. PICK fn : fn = Top.fn
  OBVIOUS
<1>1. /\ Top = stack[n] /\ fn \in DOMAIN Code /\ c \in Points[fn] /\ n \in Nat \ {0}
  BY <1>0, Depths, TopIs
<1>2. /\ Top.flag = FALSE /\ c \in Quiet[fn] /\ QuietWays(fn, c) \subseteq Quiet[fn]
      /\ SilentCall(fn, c) => Seen(fn)
  BY <1>0, QuietTop
<1>3. /\ stack'[n].fn = fn /\ stack'[n].flag = FALSE /\ ~IsTop(n)'
      /\ stack'[n + 1] = f /\ IsTop(n + 1)'
  BY <1>0, <1>2, AfterCalling DEF Alike
<1>4. \A d \in Ways(c) : ~SilentCall(fn, d)
  BY <1>1, SilentAssumption DEF Step
<1>5. AfterSuccess(c) \in Ways(c) /\ AfterNoncommitted(c) \in Ways(c)
  BY CallWays DEF Step
<1>6. AfterSuccess(c) \in QuietWays(fn, c)
  BY DEF QuietWays, Calls, Step
<1>7. \/ AfterNoncommitted(c) \in QuietWays(fn, c)
      \/ SilentCall(fn, c)
      \/ Step.op = "call" /\ AlwaysCommits(Step.fn)
  BY DEF QuietWays, Calls, Step
<1>8. CASE AfterNoncommitted(c) \in QuietWays(fn, c)
  BY <1>2, <1>3, <1>4, <1>5, <1>6, <1>8 DEF IsQuiet
<1>9. CASE Step.op = "call" /\ AlwaysCommits(Step.fn)
  <2>1. f.fn = Step.fn
    BY <1>9 DEF Called
  <2>2. Certain(n + 1)'
    BY <1>3, <1>9, <2>1 DEF Certain
  <2> QED BY <1>2, <1>3, <1>4, <1>5, <1>6, <2>2 DEF IsQuiet
<1>10. CASE SilentCall(fn, c)
  <2>1. Seen(fn) /\ Step.op = "call" /\ Silently(fn, Step.fn)
    BY <1>2, <1>10 DEF SilentCall, Step
  <2>2. f.fn = Step.fn
    BY <2>1 DEF Called
  <2>3. Seen(fn)'
    BY <2>1 DEF Seen, Sees, Names, peek
  <2>4. n + 1 > 1 /\ (n + 1) - 1 = n
    BY <1>1
  <2>5. stack'[n + 1].code = Code[stack'[n + 1].fn] /\ Silently(stack'[n].fn, stack'[n + 1].fn)
    BY <1>3, <2>1, <2>2
  <2>6. Certain(n + 1)'
    BY <1>3, <2>3, <2>4, <2>5 DEF Certain
  <2> QED BY <1>2, <1>3, <1>4, <1>5, <1>6, <2>6 DEF IsQuiet
<1> QED BY <1>7, <1>8, <1>9, <1>10


\* What ReportsIfFails says of the order of the errors at the starts.
LEMMA ErrorsAre ==
  ASSUME OnPoints, ~Done, ReportsIfFails, NEW i \in Active
  PROVE  /\ error_count \in Nat /\ stack[i].errors \in Nat /\ stack[i].errors <= error_count
         /\ stack[i].errors <= Top.errors /\ Top.errors <= error_count
         /\ error_count > stack[i].errors \/ IsQuiet(i)
<1>1. Top = stack[Len(stack)] /\ Len(stack) \in Active /\ (i < Len(stack) \/ i = Len(stack))
  BY Depths DEF Active, Waiting
<1>2. stack[i].errors \in 0 .. error_count /\ Top.errors \in 0 .. error_count /\ error_count \in Nat
  BY <1>1 DEF ReportsIfFails, OnPoints
<1>3. i < Len(stack) => stack[i].errors <= Top.errors
  BY <1>1 DEF ReportsIfFails
<1>4. error_count > stack[i].errors \/ IsQuiet(i)
  BY DEF ReportsIfFails
<1> QED BY <1>1, <1>2, <1>3, <1>4

LEMMA ReportsKept ==
  ASSUME OnPoints, OnPoints', ReportsIfFails, KernelIsNamed, StreamInv, ControlStep
  PROVE  ReportsIfFails'
<1>0. ~Done
  BY DEF ControlStep
<1>1. PICK n \in Nat \ {0} : n = Len(stack)
  BY <1>0, Depths
<1>2. /\ Top = stack[n] /\ n \in Active /\ IsTop(n) /\ Active = 1 .. n
      /\ Top.fn \in DOMAIN Code /\ Top.code \in Points[Top.fn]
      /\ \A i \in Waiting : i \in Active /\ i + 1 \in Active /\ ~IsTop(i) /\ i < n
      /\ \A i \in Active : i \in Waiting \/ i = n
  BY <1>0, <1>1, Depths, TopIs DEF Active
<1>3. \A i \in Active : /\ stack[i].errors \in Nat /\ stack[i].errors <= error_count
                        /\ error_count > stack[i].errors \/ IsQuiet(i)
                        /\ stack[i].errors <= Top.errors
  BY <1>0, ErrorsAre
<1>e. error_count \in Nat /\ \A i, j \in Active : i < j => stack[i].errors <= stack[j].errors
  BY DEF OnPoints, ReportsIfFails
<1>w. ASSUME NEW i \in Waiting, IsAsBefore(i), error_count' \in Nat, error_count' >= error_count,
             Certain(i + 1) => Certain(i + 1)'
      PROVE  error_count' > stack'[i].errors \/ IsQuiet(i)'
  <2>1. stack'[i] = stack[i]
    BY <1>w DEF IsAsBefore
  <2>2. CASE error_count > stack[i].errors
    BY <1>2, <1>3, <1>e, <1>w, <2>1, <2>2
  <2>3. CASE IsQuiet(i)
    BY <1>0, <1>w, <2>3, QuietWaits
  <2> QED BY <1>2, <1>3, <2>2, <2>3
<1>c. ASSUME NEW i \in Waiting, IsAsBefore(i) PROVE Certain(i) => Certain(i)'
  BY <1>0, <1>c, CertainWaits
<1>4. CASE Advances
  <2>1. PICK d \in Ways(Top.code) : Top.code # <<>> /\ GoesOnWith(d) /\ Effects(d)
    BY <1>4 DEF Advances
  <2>2. error_count' = error_count + (IF Step.op = "err" THEN 1 ELSE 0)
    BY <2>1 DEF Effects, Counts
  <2>3. error_count' \in Nat /\ error_count' >= error_count
    BY <1>e, <2>2
  <2>4. /\ \A i \in Waiting : IsAsBefore(i)
        /\ Top' = stack'[n] /\ Alike(Top', Top) /\ Active' = Active
    BY <1>0, <1>1, <2>1, AfterGoing
  <2>5. Certain(n) => Certain(n)'
    BY <1>0, <1>1, <2>1, CertainGoes
  <2>6. \A i \in Active : stack'[i].errors = stack[i].errors
    BY <1>2, <2>4 DEF Alike, IsAsBefore
  <2>7. error_count' > stack'[n].errors \/ IsQuiet(n)'
    <3>1. CASE error_count > stack[n].errors \/ Step.op = "err"
      BY <1>2, <1>3, <1>e, <2>2, <2>6, <3>1
    <3>2. CASE ~(error_count > stack[n].errors) /\ Step.op # "err"
      BY <1>0, <1>1, <1>2, <1>3, <2>1, <3>2, QuietGoes
    <3> QED BY <3>1, <3>2
  <2>8. \A i \in Active : i \in Waiting => error_count' > stack'[i].errors \/ IsQuiet(i)'
    <3> SUFFICES ASSUME NEW i \in Waiting PROVE error_count' > stack'[i].errors \/ IsQuiet(i)'
      OBVIOUS
    <3>1. i + 1 \in Waiting \/ i + 1 = n
      BY <1>2
    <3>2. Certain(i + 1) => Certain(i + 1)'
      BY <1>c, <2>4, <2>5, <3>1
    <3> QED BY <1>w, <2>3, <2>4, <3>2
  <2>9. \A i \in Active' : error_count' > stack'[i].errors \/ IsQuiet(i)'
    BY <1>2, <2>4, <2>7, <2>8
  <2>10. \A i \in Active' : stack'[i].errors \in 0 .. error_count'
    BY <1>3, <1>e, <2>3, <2>4, <2>6
  <2>11. \A i, j \in Active' : i < j => stack'[i].errors <= stack'[j].errors
    BY <1>e, <2>4, <2>6
  <2> QED BY <2>9, <2>10, <2>11 DEF ReportsIfFails
<1>5. CASE Enters
  <2>1. PICK f : /\ WaitsFor(f) /\ IsFrame(f) /\ Called(f.fn) /\ f.code = Code[f.fn]
                 /\ f.ok = (IF Step.op = "call" THEN Step.ok ELSE <<>>)
                 /\ f.non = Step.non /\ f.bad = Step.bad
                 /\ f.errors = error_count /\ f.flag = FALSE
    BY <1>5 DEF Enters
  <2>2. /\ Top.code # <<>> /\ Step.op \in {"call", "try"}
        /\ error_count' = error_count /\ UNCHANGED <<TokStream, cursor>>
    BY <1>5 DEF Enters, streamVars, parserState
  <2>3. /\ f.ok \o Rest = AfterSuccess(Top.code) /\ f.non \o Rest = AfterNoncommitted(Top.code)
        /\ f.bad \o Rest = AfterFailure(Top.code)
    BY <2>1, <2>2 DEF AfterSuccess, AfterNoncommitted, AfterFailure, Step, Rest
  <2>4. /\ \A i \in Waiting : IsAsBefore(i)
        /\ Goes(n)' = {f.ok \o Rest, f.non \o Rest, f.bad \o Rest}
        /\ AfterOk(n)' = f.ok \o Rest /\ AfterNon(n)' = f.non \o Rest
        /\ Alike(stack'[n], Top) /\ Active' = 1 .. n + 1
        /\ IsTop(n + 1)' /\ stack'[n + 1] = f
        /\ \A i \in Active' : i \in Waiting \/ i = n \/ i = n + 1
    BY <1>0, <1>1, <2>1, AfterCalling
  <2>5. Goes(n)' = Ways(Top.code) /\ stack'[n].fn = Top.fn
    BY <2>2, <2>3, <2>4, CallWays DEF Step, Alike
  <2>6. Certain(n) => Certain(n)'
    BY <1>0, <1>1, <2>2, <2>5, CertainCalls
  <2>7. /\ \A i \in Active : stack'[i].errors = stack[i].errors
        /\ stack'[n + 1].errors = error_count
    BY <1>2, <2>1, <2>4 DEF Alike, IsAsBefore
  <2>8. error_count' > stack'[n].errors \/ IsQuiet(n)'
    <3>1. CASE error_count > stack[n].errors
      BY <1>2, <2>2, <2>7, <3>1
    <3>2. CASE IsQuiet(n)
      BY <1>0, <1>1, <2>1, <2>2, <2>3, <2>4, <3>2, QuietCalls
    <3> QED BY <1>2, <1>3, <3>1, <3>2
  <2>9. IsQuiet(n + 1)'
    <3>1. f.fn \in DOMAIN Code
      BY <2>1 DEF IsFrame
    <3>2. f.code \in Quiet[f.fn] /\ ~SilentCall(f.fn, f.code)
      BY <2>1, <3>1, QuietAssumption, SilentAssumption
    <3> QED BY <2>1, <2>4, <3>2 DEF IsQuiet
  <2>10. \A i \in Waiting : error_count' > stack'[i].errors \/ IsQuiet(i)'
    <3> SUFFICES ASSUME NEW i \in Waiting PROVE error_count' > stack'[i].errors \/ IsQuiet(i)'
      OBVIOUS
    <3>1. i + 1 \in Waiting \/ i + 1 = n
      BY <1>2
    <3>2. Certain(i + 1) => Certain(i + 1)'
      BY <1>c, <2>4, <2>6, <3>1
    <3>3. error_count' \in Nat /\ error_count' >= error_count
      BY <1>e, <2>2
    <3> QED BY <1>w, <2>4, <3>2, <3>3
  <2>11. \A i \in Active' : error_count' > stack'[i].errors \/ IsQuiet(i)'
    BY <2>4, <2>8, <2>9, <2>10
  <2>12. \A i \in Active' : i \in Active \/ i = n + 1
    BY <1>2, <2>4
  <2>13. \A i \in Active' : stack'[i].errors \in 0 .. error_count'
    BY <1>3, <1>e, <2>2, <2>7, <2>12
  <2>14. \A i, j \in Active' : i < j => stack'[i].errors <= stack'[j].errors
    <3> SUFFICES ASSUME NEW i \in Active', NEW j \in Active', i < j
                 PROVE  stack'[i].errors <= stack'[j].errors
      OBVIOUS
    <3>1. i \in Active
      BY <1>2, <2>4
    <3>2. CASE j \in Active
      BY <1>e, <2>7, <3>1, <3>2
    <3>3. CASE j = n + 1
      BY <1>3, <2>7, <3>1, <3>3
    <3> QED BY <2>12, <3>2, <3>3
  <2> QED BY <2>11, <2>13, <2>14 DEF ReportsIfFails
<1>6. CASE Finishes
  <2>1. IsLeftFor(Passed) /\ error_count' = error_count /\ Status # "none"
    BY <1>6 DEF Finishes, parserState
  <2>2. CASE n = 1
    <3>1. stack' = <<>>
      BY <1>1, <2>1, <2>2 DEF IsLeftFor
    <3> QED BY <3>1, EmptySeq DEF ReportsIfFails, Active
  <2>3. CASE n # 1
    <3>1. PICK m \in Nat \ {0} : Len(stack) = m + 1
      BY <1>1, <2>3, NonEmptySeq, TopIs, <1>0
    <3>2. /\ m \in Waiting /\ Active' = 1 .. m
          /\ \A i \in 1 .. m - 1 : i \in Waiting /\ IsAsBefore(i)
          /\ Goes(m)' = {Passed \o stack[m].code} /\ IsTop(m)'
          /\ Alike(stack'[m], stack[m]) /\ stack'[m].flag = stack[m].flag
          /\ stack'[m].code = Passed \o stack[m].code
          /\ \A i \in Active' : i \in 1 .. m - 1 \/ i = m
      BY <1>0, <2>1, <3>1, AfterLeaving
    <3>3. /\ Passed \o stack[m].code \in Goes(m)
          /\ Status = "SUCCESS" => Passed \o stack[m].code = AfterOk(m)
          /\ Status = "NONCOMMITTED" => Passed \o stack[m].code = AfterNon(m)
      BY <1>0, <3>1, PassedIsOneOf
    <3>4. Certain(m) => Certain(m)'
      <4> SUFFICES ASSUME Certain(m) PROVE Certain(m)'
        OBVIOUS
      <4>1. AlwaysCommits(stack[m].fn) \/ (IsCommitted(m) /\ stack[m].fn # "parameter")
        BY <1>2, <3>2 DEF Certain
      <4>2. IsCommitted(m) => IsCommitted(m)'
        BY <3>2, <3>3 DEF IsCommitted, Alike
      <4> QED BY <4>1, <4>2, <3>2 DEF Certain, Alike
    <3>5. \A i \in Active' : i \in Active /\ stack'[i].errors = stack[i].errors
      BY <1>2, <3>2 DEF Alike, IsAsBefore
    <3>6. error_count' > stack'[m].errors \/ IsQuiet(m)'
      <4>1. CASE error_count > stack[m].errors
        BY <2>1, <3>2, <4>1 DEF Alike
      <4>2. CASE ~(error_count > stack[m].errors)
        <5>1. IsQuiet(m) /\ m \in Active /\ ~IsTop(m)
          BY <1>2, <1>3, <3>2, <4>2
        <5>2. IsQuiet(n)
          <6>1. error_count = Top.errors
            BY <1>2, <1>3, <1>e, <4>2, <5>1
          <6> QED BY <1>2, <1>3, <1>e, <6>1
        <5>3. Status \in {"SUCCESS", "NONCOMMITTED"}
          BY <1>0, <1>1, <2>1, <5>2, QuietDoesNotFail
        <5>4. n = m + 1
          BY <1>1, <3>1
        <5>5. /\ stack[m].flag = FALSE
              /\ AfterOk(m) \in Quiet[stack[m].fn] /\ ~SilentCall(stack[m].fn, AfterOk(m))
              /\ \/ AfterNon(m) \in Quiet[stack[m].fn] /\ ~SilentCall(stack[m].fn, AfterNon(m))
                 \/ Certain(n)
          BY <5>1, <5>4 DEF IsQuiet
        <5>6. Status = "NONCOMMITTED" => ~Certain(n)
          BY <1>0, <1>1, CertainReturns
        <5>7. LET d == Passed \o stack[m].code
              IN d \in Quiet[stack[m].fn] /\ ~SilentCall(stack[m].fn, d)
          BY <3>3, <5>3, <5>5, <5>6
        <5> QED BY <3>2, <5>5, <5>7 DEF IsQuiet, Alike
      <4> QED BY <4>1, <4>2
    <3>7. \A i \in 1 .. m - 1 : error_count' > stack'[i].errors \/ IsQuiet(i)'
      <4> SUFFICES ASSUME NEW i \in 1 .. m - 1 PROVE error_count' > stack'[i].errors \/ IsQuiet(i)'
        OBVIOUS
      <4>1. i \in Waiting /\ IsAsBefore(i)
        BY <3>2
      <4>2. i + 1 \in 1 .. m - 1 \/ i + 1 = m
        OBVIOUS
      <4>3. Certain(i + 1) => Certain(i + 1)'
        BY <1>c, <3>2, <3>4, <4>2
      <4>4. error_count' \in Nat /\ error_count' >= error_count
        BY <1>e, <2>1
      <4> QED BY <1>w, <4>1, <4>3, <4>4
    <3>8. \A i \in Active' : error_count' > stack'[i].errors \/ IsQuiet(i)'
      BY <3>2, <3>6, <3>7
    <3>9. \A i \in Active' : stack'[i].errors \in 0 .. error_count'
      BY <1>3, <1>e, <2>1, <3>5
    <3>10. \A i, j \in Active' : i < j => stack'[i].errors <= stack'[j].errors
      BY <1>e, <3>5
    <3> QED BY <3>8, <3>9, <3>10 DEF ReportsIfFails
  <2> QED BY <2>2, <2>3
<1>7. CASE Dies
  BY <1>7, EmptySeq DEF Dies, ReportsIfFails, Active
<1> QED BY <1>0, <1>4, <1>5, <1>6, <1>7 DEF ControlStep

-----------------------------------------------------------------------------
(* What is skipped is reported *)

LEMMA ErrorsGrow ==
  ASSUME OnPoints, ControlStep
  PROVE  /\ error_count' \in Nat /\ error_count \in Nat /\ error_count <= error_count'
         /\ crashed => crashed'
<1>0. error_count \in Nat
  BY DEF OnPoints
<1>1. ASSUME Advances PROVE error_count' \in Nat /\ error_count <= error_count' /\ crashed' = crashed
  BY <1>0, <1>1 DEF Advances, Effects, Counts
<1>2. ASSUME Enters \/ Finishes \/ Dies PROVE error_count' = error_count /\ (crashed => crashed')
  BY <1>2 DEF Enters, Finishes, Dies, parserState
<1> QED BY <1>0, <1>1, <1>2 DEF ControlStep

LEMMA SkipsKept ==
  ASSUME OnPoints, ReportsIfFails, SkipsAreReported, ControlStep  PROVE SkipsAreReported'
<1> SUFFICES ASSUME skipped', ~crashed', ~(error_count' > 0)
             PROVE  stack' # <<>> /\ Top'.code # <<>> /\ Top'.code[1] = Err
  BY DEF SkipsAreReported
<1>0. ~Done
  BY DEF ControlStep
<1>1. PICK n \in Nat \ {0} : n = Len(stack)
  BY <1>0, Depths
<1>2. error_count = 0 /\ error_count' = 0 /\ ~crashed
  BY ErrorsGrow
<1>3. IsQuiet(n)
  <2>1. n \in Active
    BY <1>0, <1>1, Depths
  <2> QED BY <1>0, <1>2, <2>1, ErrorsAre
<1>4. skipped => Top.code # <<>> /\ Step = Err
  BY <1>2 DEF SkipsAreReported, Step
<1>5. CASE Advances
  <2>1. PICK d \in Ways(Top.code) : Top.code # <<>> /\ GoesOnWith(d) /\ Effects(d)
    BY <1>5 DEF Advances
  <2>2. Step.op # "err"
    BY <1>2, <2>1 DEF Effects, Counts
  <2>3. ~skipped
    BY <1>4, <2>2 DEF Err
  <2>4. Step.op = "exhaust"
    BY <2>1, <2>3 DEF Effects
  <2>5. Rest # <<>> /\ Rest[1] = Err
    BY <1>0, <1>1, <1>3, <2>1, <2>4, QuietTop
  <2>6. d = Rest
    <3>1. Ways(Top.code) = {Rest}
      BY <2>1, <2>4, WaysOf DEF Step, Rest, Simple
    <3> QED BY <2>1, <3>1
  <2>7. Top'.code = d /\ stack' # <<>>
    BY <1>0, <1>1, <2>1, AfterGoing
  <2> QED BY <2>5, <2>6, <2>7
<1>6. CASE Enters
  <2>1. skipped /\ Top.code # <<>> /\ Step.op \in {"call", "try"}
    BY <1>6 DEF Enters, parserState
  <2> QED BY <1>4, <2>1 DEF Err
<1>7. CASE Finishes
  <2>1. skipped /\ Status # "none"
    BY <1>7 DEF Finishes, parserState
  <2>2. Top.code # <<>> /\ Step.op = "err"
    BY <1>4, <2>1 DEF Err
  <2> QED BY <1>0, <2>1, <2>2, StatusIs
<1>8. CASE Dies
  BY <1>8 DEF Dies
<1> QED BY <1>5, <1>6, <1>7, <1>8 DEF ControlStep

-----------------------------------------------------------------------------
(* The program is not left before the end of file *)

LEMMA EndKept ==
  ASSUME OnPoints, ReportsIfFails, EndIsReached, ControlStep  PROVE EndIsReached'
<1>0. ~Done
  BY DEF ControlStep
<1>1. PICK n \in Nat \ {0} : n = Len(stack)
  BY <1>0, Depths
<1>2. stack[1].fn = "ParseProgram"
  BY <1>0 DEF EndIsReached, Done
<1>3. error_count' = 0 /\ ~crashed' => error_count = 0 /\ ~crashed
  BY ErrorsGrow
<1>4. Top = stack[n] /\ n \in Active /\ (n # 1 => 1 \in Waiting)
  BY <1>0, <1>1, Depths DEF Waiting
<1>5. error_count = 0 => IsQuiet(n)
  BY <1>0, <1>4, ErrorsAre
<1>6. error_count = 0 /\ ~crashed =>
        /\ n = 1 /\ Top.code = <<>> => isEnd
        /\ n # 1 => AfterOk(1) # <<>> /\ AfterNon(1) # <<>>
  BY <1>0, <1>1, <1>4 DEF EndIsReached, Done
<1>7. error_count = 0 /\ n = 1 /\ Top.code # <<>> =>
        /\ Step.op \notin {"ret", "flagged"}
        /\ Step.op # "err" /\ <<>> \in Ways(Top.code) =>
             Step.op = "peek" /\ Step.kinds = {"EOF"} /\ Step.no \o Rest # <<>>
  BY <1>0, <1>1, <1>2, <1>4, <1>5, QuietTop, EndAssumption DEF Step, Rest
<1>8. CASE Advances
  <2>1. PICK d \in Ways(Top.code) : Top.code # <<>> /\ GoesOnWith(d) /\ Effects(d)
    BY <1>8 DEF Advances
  <2>2. /\ Len(stack') = n /\ stack' # <<>> /\ \A i \in Waiting : IsAsBefore(i)
        /\ Top' = stack'[n] /\ Top'.code = d /\ Alike(Top', Top)
    BY <1>0, <1>1, <2>1, AfterGoing
  <2>3. stack'[1].fn = "ParseProgram"
    BY <1>2, <1>4, <2>2 DEF Alike, IsAsBefore
  <2>4. error_count' = 0 => Step.op # "err"
    BY <2>1, ErrorsGrow DEF Effects, Counts
  <2>5. CASE n = 1
    <3>1. ASSUME error_count' = 0, ~crashed', d = <<>> PROVE isEnd'
      <4>1. Step.op = "peek" /\ Step.kinds = {"EOF"} /\ Step.no \o Rest # <<>>
        BY <1>3, <1>7, <2>1, <2>4, <2>5, <3>1
      <4>2. Sees({"EOF"}) /\ UNCHANGED streamVars
        BY <2>1, <3>1, <4>1 DEF Effects, LooksAt
      <4>3. peek.tok_type = "EOF"
        <5>1. "EOF" # "integer" /\ "EOF" \notin Words
          BY DEF Words
        <5> QED BY <4>2, <5>1, SeesOne
      <4> QED BY <4>2, <4>3 DEF isEnd, peek, streamVars
    <3> QED BY <2>2, <2>3, <2>5, <3>1 DEF EndIsReached
  <2>6. CASE n # 1
    <3>1. AfterOk(1)' = AfterOk(1) /\ AfterNon(1)' = AfterNon(1)
      BY <1>4, <2>2, <2>6 DEF IsAsBefore
    <3> QED BY <1>3, <1>6, <2>2, <2>3, <2>6, <3>1 DEF EndIsReached
  <2> QED BY <2>5, <2>6
<1>9. CASE Enters
  <2>1. PICK f : /\ WaitsFor(f)
                 /\ f.ok = (IF Step.op = "call" THEN Step.ok ELSE <<>>)
                 /\ f.non = Step.non /\ f.bad = Step.bad
    BY <1>9 DEF Enters
  <2>2. /\ Top.code # <<>> /\ Step.op \in {"call", "try"}
    BY <1>9 DEF Enters
  <2>3. /\ f.ok \o Rest = AfterSuccess(Top.code) /\ f.non \o Rest = AfterNoncommitted(Top.code)
    BY <2>1, <2>2 DEF AfterSuccess, AfterNoncommitted, Step, Rest
  <2>4. /\ \A i \in Waiting : IsAsBefore(i)
        /\ AfterOk(n)' = f.ok \o Rest /\ AfterNon(n)' = f.non \o Rest
        /\ Alike(stack'[n], Top)
    BY <1>0, <1>1, <2>1, AfterCalling
  <2>5. Len(stack') = n + 1 /\ stack' # <<>>
    BY <1>0, <1>1, <2>1, AfterCalling
  <2>6. stack'[1].fn = "ParseProgram"
    BY <1>2, <1>4, <2>4 DEF Alike, IsAsBefore
  <2>7. ASSUME error_count' = 0, ~crashed' PROVE AfterOk(1)' # <<>> /\ AfterNon(1)' # <<>>
    <3>1. CASE n = 1
      <4>1. <<>> \notin Ways(Top.code)
        BY <1>3, <1>7, <2>2, <2>7, <3>1
      <4>2. {AfterOk(n)', AfterNon(n)'} \subseteq Ways(Top.code)
        BY <2>2, <2>3, <2>4, CallWays DEF Step
      <4> QED BY <3>1, <4>1, <4>2
    <3>2. CASE n # 1
      <4>1. AfterOk(1)' = AfterOk(1) /\ AfterNon(1)' = AfterNon(1)
        BY <1>4, <2>4, <3>2 DEF IsAsBefore
      <4> QED BY <1>3, <1>6, <2>7, <3>2, <4>1
    <3> QED BY <3>1, <3>2
  <2> QED BY <2>5, <2>6, <2>7 DEF EndIsReached
<1>10. CASE Finishes
  <2>1. /\ IsLeftFor(Passed) /\ UNCHANGED <<error_count, crashed, streamVars>> /\ Status # "none"
    BY <1>10 DEF Finishes, parserState
  <2>2. Top.code = <<>> \/ Step.op \in {"ret", "flagged"}
    BY <1>0, <2>1, StatusIs
  <2>3. CASE n = 1
    <3>1. stack' = <<>>
      BY <1>1, <2>1, <2>3 DEF IsLeftFor
    <3>2. error_count' = 0 /\ ~crashed' => isEnd
      BY <1>3, <1>6, <1>7, <2>2, <2>3
    <3>3. isEnd' = isEnd
      BY <2>1 DEF isEnd, peek, streamVars
    <3>4. Len(stack') = 0
      BY <3>1
    <3> QED BY <3>1, <3>2, <3>3, <3>4 DEF EndIsReached
  <2>4. CASE n # 1
    <3>1. PICK m \in Nat \ {0} : Len(stack) = m + 1
      BY <1>1, <2>4, NonEmptySeq, TopIs, <1>0
    <3>2. /\ \A i \in 1 .. m - 1 : i \in Waiting /\ IsAsBefore(i)
          /\ Len(stack') = m /\ stack' # <<>>
          /\ Alike(stack'[m], stack[m])
          /\ stack'[m].code = Passed \o stack[m].code
      BY <1>0, <2>1, <3>1, AfterLeaving
    <3>3. stack'[1].fn = "ParseProgram"
      <4>1. CASE m = 1
        BY <1>2, <3>2, <4>1 DEF Alike
      <4>2. CASE m # 1
        <5>1. 1 \in 1 .. m - 1
          BY <4>2
        <5> QED BY <1>2, <3>2, <5>1 DEF IsAsBefore
      <4> QED BY <4>1, <4>2
    <3>4. ASSUME error_count' = 0, ~crashed' PROVE m = 1 => stack'[1].code # <<>>
      <4>1. /\ Status = "SUCCESS" => Passed \o stack[m].code = AfterOk(m)
            /\ Status = "NONCOMMITTED" => Passed \o stack[m].code = AfterNon(m)
        BY <1>0, <3>1, PassedIsOneOf
      <4>2. Status \in {"SUCCESS", "NONCOMMITTED"}
        BY <1>0, <1>1, <1>3, <1>5, <2>1, <3>4, QuietDoesNotFail
      <4> QED BY <1>3, <1>6, <2>4, <3>2, <3>4, <4>1, <4>2
    <3>5. ASSUME error_count' = 0, ~crashed', m > 1
          PROVE  AfterOk(1)' # <<>> /\ AfterNon(1)' # <<>>
      <4>1. AfterOk(1)' = AfterOk(1) /\ AfterNon(1)' = AfterNon(1)
        BY <3>2, <3>5 DEF IsAsBefore
      <4> QED BY <1>3, <1>6, <2>4, <3>5, <4>1
    <3> QED BY <3>2, <3>3, <3>4, <3>5 DEF EndIsReached
  <2> QED BY <2>3, <2>4
<1>11. CASE Dies
  BY <1>11 DEF Dies, EndIsReached
<1> QED BY <1>8, <1>9, <1>10, <1>11 DEF ControlStep

-----------------------------------------------------------------------------
(* A kernel keeps its name *)

KernelsNamed(t) ==
  \A i \in 1 .. Len(t) - 1 : t[i].tok_type = "kernel" => t[i + 1].tok_type = "identifier"
AllNamed(h) == \A k \in 0 .. Len(pending_splits) : KernelsNamed(h[k])
NamedHistory == ~KernelAlone => \E h : Recorded(h) /\ AllNamed(h)

LEMMA SplitNames ==
  ASSUME NEW t \in Seq(Token), NEW c \in 1 .. Len(t), c < Len(t), t[c].tok_type \in {">>", ">="},
         NEW first \in Halves, NEW second \in Halves, KernelsNamed(t)
  PROVE  KernelsNamed(Halved(t, c, first, second))
<1>1. first \in Token /\ second \in Token /\ first.tok_type # "kernel" /\ second.tok_type # "kernel"
  BY DEF Halves, Token, GreaterThan, Assign
<1> DEFINE h == Halved(t, c, first, second)
<1>2. /\ Len(h) = Len(t) + 1
      /\ \A i \in 1 .. Len(t) + 1 :
           h[i] = IF i < c THEN t[i] ELSE IF i = c THEN first
                  ELSE IF i = c + 1 THEN second ELSE t[i - 1]
  <2> HIDE DEF h
  <2>1. h \in Seq(Token) /\ Len(h) = Len(t) + 1
    BY <1>1, HalvedIs, SMTT(30) DEF h
  <2>2. ASSUME NEW i \in 1 .. Len(t) + 1
        PROVE  h[i] = IF i < c THEN t[i] ELSE IF i = c THEN first
                      ELSE IF i = c + 1 THEN second ELSE t[i - 1]
    BY <1>1, HalvedIs, SMTT(30) DEF h
  <2> QED BY <2>1, <2>2, Zenon
<1> HIDE DEF h
<1>3. Len(t) \in Nat
  OBVIOUS
<1> SUFFICES ASSUME NEW i \in 1 .. Len(h) - 1, h[i].tok_type = "kernel"
             PROVE  h[i + 1].tok_type = "identifier"
  BY DEF KernelsNamed, h
<1>4. i \in 1 .. Len(t) + 1 /\ i + 1 \in 1 .. Len(t) + 1
  BY <1>2, <1>3
<1>5. CASE i < c
  <2>1. h[i] = t[i] /\ i \in 1 .. Len(t) - 1
    BY <1>2, <1>3, <1>4, <1>5
  <2>2. t[i + 1].tok_type = "identifier"
    BY <2>1 DEF KernelsNamed
  <2>3. i + 1 # c
    BY <2>2
  <2>4. h[i + 1] = t[i + 1]
    BY <1>2, <1>4, <1>5, <2>3
  <2> QED BY <2>2, <2>4
<1>6. CASE i = c \/ i = c + 1
  BY <1>1, <1>2, <1>4, <1>6
<1>7. CASE i > c + 1
  <2>1. h[i] = t[i - 1] /\ h[i + 1] = t[(i + 1) - 1]
    BY <1>2, <1>3, <1>4, <1>7
  <2>2. i - 1 \in 1 .. Len(t) - 1 /\ (i - 1) + 1 = (i + 1) - 1
    BY <1>3, <1>4, <1>7
  <2> QED BY <2>1, <2>2 DEF KernelsNamed
<1> QED BY <1>5, <1>6, <1>7

LEMMA NamesKept ==
  ASSUME StreamInv, NamedHistory, StreamStep, source' = source  PROVE NamedHistory'
<1> SUFFICES ASSUME ~KernelAlone' PROVE (\E h : Recorded(h) /\ AllNamed(h))'
  BY DEF NamedHistory
<1>1. ~KernelAlone
  BY DEF KernelAlone
<1>2. PICK h : Recorded(h) /\ AllNamed(h)
  BY <1>1 DEF NamedHistory
<1>3. CASE Moved \/ mark_rollback \/ commit_rollback
  <2>1. Recorded(h)'
    BY <1>2, <1>3, MovedKeeps, MarkKeeps, CommitKeeps
  <2>2. pending_splits' = pending_splits
    BY <1>3 DEF Moved, mark_rollback, commit_rollback
  <2>3. AllNamed(h)'
    BY <1>2, <2>2 DEF AllNamed
  <2> QED BY <2>1, <2>3
<1>4. CASE rollback
  <2>1. PICK f : /\ Recorded(f)'
                 /\ \A k \in 0 .. Last(rollback_stack).splits_at_mark : f[k] = h[k]
    BY <1>2, <1>4, RollbackKeeps
  <2>2. Len(pending_splits') = Last(rollback_stack).splits_at_mark
    BY <1>2, <1>4, RollbackKeeps
  <2>3. Last(rollback_stack).splits_at_mark \in 0 .. Len(pending_splits) /\ Len(pending_splits) \in Nat
    BY <1>2, <1>4, RollbackRestores DEF StreamInv
  <2>4. AllNamed(f)'
    BY <1>2, <2>1, <2>2, <2>3 DEF AllNamed
  <2> QED BY <2>1, <2>4
<1>5. CASE Splits
  <2> DEFINE N == Len(pending_splits)
  <2>1. PICK f : Recorded(f)' /\ \A k \in 0 .. N : f[k] = h[k]
    BY <1>2, <1>5, SplitKeeps
  <2>2. Len(pending_splits') = N + 1 /\ N \in Nat
    BY <1>2, <1>5, SplitKeeps DEF StreamInv
  <2>3. TokStream = h[N] /\ TokStream' = f[N + 1]
    BY <1>2, <2>1, <2>2 DEF Recorded, History
  <2>4. KernelsNamed(TokStream)
    BY <1>2, <2>2, <2>3 DEF AllNamed
  <2>5. PICK first \in Halves, second \in Halves :
          /\ cursor < Len(TokStream) /\ TokStream[cursor].tok_type \in {">>", ">="}
          /\ TokStream' = Halved(TokStream, cursor, first, second)
    BY <1>5 DEF Splits, SplitAndConsume, Halved, peek
  <2>6. TokStream \in Seq(Token) /\ cursor \in 1 .. Len(TokStream)
    BY DEF StreamInv
  <2>7. KernelsNamed(f[N + 1])
    BY <2>3, <2>4, <2>5, <2>6, SplitNames
  <2>8. \A k \in 0 .. N + 1 : k \in 0 .. N \/ k = N + 1
    BY <2>2
  <2>9. \A k \in 0 .. N : KernelsNamed(f[k])
    BY <1>2, <2>1 DEF AllNamed
  <2>10. \A k \in 0 .. Len(pending_splits') : KernelsNamed(f[k])
    BY <2>2, <2>7, <2>8, <2>9
  <2>11. AllNamed(f)'
    BY <2>10 DEF AllNamed
  <2> QED BY <2>1, <2>11
<1> QED BY <1>3, <1>4, <1>5 DEF StreamStep

LEMMA NamedNow ==
  ASSUME StreamInv, NamedHistory, ~KernelAlone  PROVE KernelIsNamed
<1>1. PICK h : Recorded(h) /\ AllNamed(h)
  BY DEF NamedHistory
<1>2. Len(pending_splits) \in Nat
  BY DEF StreamInv
<1>3. KernelsNamed(TokStream)
  BY <1>1, <1>2 DEF AllNamed, Recorded, History
<1>4. cursor \in 1 .. Len(TokStream) /\ Len(TokStream) \in Nat
  BY DEF StreamInv
<1>5. cursor > 1 => cursor - 1 \in 1 .. Len(TokStream) - 1 /\ (cursor - 1) + 1 = cursor
  BY <1>4
<1> QED BY <1>3, <1>5 DEF KernelIsNamed, KernelsNamed, peek

LEMMA StartsNamed == ASSUME Init  PROVE NamedHistory
<1> SUFFICES ASSUME ~KernelAlone PROVE \E h : Recorded(h) /\ AllNamed(h)
  BY DEF NamedHistory
<1>1. StreamInv
  BY StartsRecorded
<1>2. PICK h : Recorded(h)
  BY <1>1 DEF StreamInv
<1>3. pending_splits = <<>> /\ TokStream = Append(source, EOF)
  BY DEF Init, StreamInit
<1>4. Len(pending_splits) = 0
  BY <1>3
<1>5. h[0] = Append(source, EOF)
  BY <1>2 DEF Recorded
<1>6. source \in Seq(Token) /\ EOF \in Token
  BY <1>1 DEF StreamInv, Token
<1> DEFINE t == Append(source, EOF)
<1>7. Len(t) = Len(source) + 1 /\ (\A i \in 1 .. Len(source) : t[i] = source[i]) /\ Len(source) \in Nat
  BY <1>6, AppendToSeq
<1>8. \A i \in 1 .. Len(source) : source[i].tok_type = "kernel" =>
        i # Len(source) /\ source[i + 1].tok_type = "identifier"
  BY <1>6 DEF KernelAlone
<1> HIDE DEF t
<1>9. KernelsNamed(t)
  <2> SUFFICES ASSUME NEW i \in 1 .. Len(t) - 1, t[i].tok_type = "kernel"
               PROVE  t[i + 1].tok_type = "identifier"
    BY DEF KernelsNamed
  <2>1. i \in 1 .. Len(source) /\ t[i] = source[i]
    BY <1>7
  <2>2. i # Len(source) /\ source[i + 1].tok_type = "identifier"
    BY <1>8, <2>1
  <2>3. i + 1 \in 1 .. Len(source)
    BY <1>7, <2>1, <2>2
  <2> QED BY <1>7, <2>2, <2>3
<1>10. AllNamed(h)
  <2>1. \A k \in 0 .. Len(pending_splits) : k = 0
    BY <1>4
  <2>2. h[0] = t
    BY <1>5 DEF t
  <2> QED BY <2>1, <2>2, <1>9 DEF AllNamed
<1> QED BY <1>2, <1>10

-----------------------------------------------------------------------------
(* The invariant of the parser *)

LEMMA StartsOnPoints == ASSUME Init  PROVE ParserInvariant
<1>0. PICK f : /\ f = [fn |-> "ParseProgram", code |-> Code["ParseProgram"], start |-> 0,
                       prec |-> 0, flag |-> FALSE, ok |-> <<>>, non |-> <<>>, bad |-> <<>>,
                       at |-> 1, errors |-> 0]
               /\ stack = <<f>>
  BY DEF Init
<1>1. /\ f.fn = "ParseProgram" /\ f.code = Code["ParseProgram"] /\ f.flag = FALSE
      /\ f.at = 1 /\ f.errors = 0
  BY <1>0
<1>2. IsFrame(f)
  <2>1. "ParseProgram" \in DOMAIN Code
    BY PointsAssumption
  <2> QED BY <1>0, <2>1 DEF IsFrame
<1>3. /\ cursor = 1 /\ error_count = 0 /\ pending_deref = 0 /\ skipped = FALSE /\ crashed = FALSE
      /\ rollback_stack = <<>>
  BY DEF Init, StreamInit
<1>4. /\ Len(stack) = 1 /\ stack[1] = f /\ Active = {1} /\ IsTop(1) /\ Goes(1) = {f.code}
      /\ stack # <<>>
  BY <1>0 DEF Active, IsTop, Goes
<1>5. /\ f.code \in Points[f.fn] /\ f.code \in Quiet[f.fn] /\ f.code \in Unmarked[f.fn]
      /\ ~SilentCall(f.fn, f.code) /\ f.code # <<>>
  <2>0. "ParseProgram" \in DOMAIN Code
    BY PointsAssumption
  <2>1. Code["ParseProgram"] \in Points["ParseProgram"]
    BY <2>0, PointsAssumption
  <2>2. Code["ParseProgram"] \in Quiet["ParseProgram"]
    BY <2>0, QuietAssumption
  <2>3. Code["ParseProgram"] \in Unmarked["ParseProgram"]
    BY <2>0, MarkAssumption
  <2>4. ~SilentCall("ParseProgram", Code["ParseProgram"])
    BY <2>0, SilentAssumption
  <2>5. Code["ParseProgram"] # <<>>
    BY EndAssumption
  <2> QED BY <1>1, <2>1, <2>2, <2>3, <2>4, <2>5
<1>6. OnPoints
  <2>1. stack \in Seq({f})
    BY <1>0
  <2>2. stack \in Seq(Range(stack))
    BY <2>1, SeqOfRange
  <2> QED BY <1>2, <1>3, <1>4, <1>5, <2>2 DEF OnPoints
<1>7. CommitsIfTouched
  BY <1>1, <1>3, <1>4 DEF CommitsIfTouched, Untouched
<1>8. MarksAreKept
  <2>1. ~(Goes(1) \subseteq Marking[f.fn])
    <3>1. f.code \notin Marking[f.fn]
      BY <1>1, <1>5, PointsAssumption, MarkAssumption
    <3> QED BY <1>4, <3>1
  <2>2. Inside = {}
    BY <1>4, <2>1 DEF Inside
  <2>3. Cardinality(Inside) = 0 /\ Len(rollback_stack) = 0
    BY <1>3, <2>2, FS_EmptySet
  <2> QED BY <1>4, <1>5, <2>3 DEF MarksAreKept
<1>9. OwedIsAsked
  BY <1>3 DEF OwedIsAsked
<1>10. ReportsIfFails
  BY <1>1, <1>3, <1>4, <1>5 DEF ReportsIfFails, IsQuiet
<1>11. SkipsAreReported /\ EndIsReached
  BY <1>1, <1>3, <1>4, <1>5 DEF SkipsAreReported, EndIsReached
<1> QED BY <1>6, <1>7, <1>8, <1>9, <1>10, <1>11 DEF ParserInvariant

LEMMA InvariantKept ==
  ASSUME StreamInv, NamedHistory, ParserInvariant, Next  PROVE ParserInvariant'
<1>1. OnPoints /\ CommitsIfTouched /\ MarksAreKept /\ OwedIsAsked
  BY DEF ParserInvariant
<1>2. ControlStep
  BY <1>1, NextIsControl
<1>3. OnPoints' /\ CommitsIfTouched' /\ OwedIsAsked'
  BY <1>1, <1>2, PointsKept, CommitmentsKept, OwedKept
<1>4. MarksAreKept'
  BY <1>1, <1>2, <1>3, MarksKept
<1>5. ASSUME ~KernelAlone' PROVE ReportsIfFails' /\ SkipsAreReported' /\ EndIsReached'
  <2>1. source' = source
    BY NextOnStream
  <2>2. ~KernelAlone
    BY <1>5, <2>1 DEF KernelAlone
  <2>3. KernelIsNamed
    BY <2>2, NamedNow
  <2>4. ReportsIfFails /\ SkipsAreReported /\ EndIsReached
    BY <2>2 DEF ParserInvariant
  <2> QED BY <1>1, <1>2, <1>3, <2>3, <2>4, ReportsKept, SkipsKept, EndKept
<1> QED BY <1>3, <1>4, <1>5 DEF ParserInvariant

LEMMA InvariantStays ==
  ASSUME ParserInvariant, UNCHANGED vars  PROVE ParserInvariant'
<1>1. /\ UNCHANGED <<TokStream, cursor, pending_splits, rollback_stack, source, stack>>
      /\ UNCHANGED <<error_count, pending_deref, skipped, crashed>>
  BY DEF vars, streamVars, parserState
<1>2. /\ Active' = Active /\ Top' = Top /\ KernelAlone' = KernelAlone /\ isEnd' = isEnd
      /\ Sees({"-"})' = Sees({"-"})
  BY <1>1 DEF Active, Top, KernelAlone, isEnd, peek, Sees, Names
<1>3. ASSUME NEW i
      PROVE  /\ Goes(i)' = Goes(i) /\ IsTop(i)' = IsTop(i) /\ AfterOk(i)' = AfterOk(i)
             /\ AfterNon(i)' = AfterNon(i) /\ AfterBad(i)' = AfterBad(i)
  BY <1>1 DEF Goes, IsTop, AfterOk, AfterNon, AfterBad
<1>4. ASSUME NEW fn PROVE Seen(fn)' = Seen(fn)
  BY <1>1 DEF Seen, Sees, Names, peek
<1>5. ASSUME NEW i PROVE IsCommitted(i)' = IsCommitted(i) /\ Untouched(i)' = Untouched(i)
  BY <1>1, <1>3 DEF IsCommitted, Untouched
<1>6. ASSUME NEW i PROVE Certain(i)' = Certain(i)
  BY <1>1, <1>3, <1>4, <1>5 DEF Certain
<1>7. ASSUME NEW i PROVE IsQuiet(i)' = IsQuiet(i)
  BY <1>1, <1>3, <1>4, <1>6 DEF IsQuiet
<1>8. OnPoints' = OnPoints /\ CommitsIfTouched' = CommitsIfTouched
  BY <1>1, <1>2, <1>3, <1>5 DEF OnPoints, CommitsIfTouched
<1>9. MarksAreKept' = MarksAreKept
  <2>1. Inside' = Inside
    BY <1>1, <1>2, <1>3 DEF Inside
  <2> QED BY <1>1, <1>2, <1>3, <2>1 DEF MarksAreKept
<1>10. OwedIsAsked' = OwedIsAsked
  BY <1>1, <1>2 DEF OwedIsAsked
<1>11. ReportsIfFails' = ReportsIfFails
  BY <1>1, <1>2, <1>7 DEF ReportsIfFails
<1>12. SkipsAreReported' = SkipsAreReported /\ EndIsReached' = EndIsReached
  BY <1>1, <1>2, <1>3 DEF SkipsAreReported, EndIsReached
<1> QED BY <1>2, <1>8, <1>9, <1>10, <1>11, <1>12 DEF ParserInvariant

Inv == StreamInv /\ NamedHistory /\ ParserInvariant

LEMMA InvariantHolds == Spec => []Inv
<1>1. Init => Inv
  BY StartsRecorded, StartsNamed, StartsOnPoints DEF Inv
<1>2. ASSUME Inv, [Next]_vars PROVE Inv'
  <2>1. StreamInv'
    BY <1>2, StepKeeps DEF Inv
  <2>2. CASE Next
    <3>1. StreamStep /\ source' = source
      BY <1>2, <2>2, NextOnStream DEF Inv
    <3> QED BY <1>2, <2>1, <2>2, <3>1, NamesKept, InvariantKept DEF Inv
  <2>3. CASE UNCHANGED vars
    <3>1. Moved /\ source' = source
      BY <1>2, <2>3, Stays DEF vars, Inv
    <3> QED BY <1>2, <2>1, <2>3, <3>1, NamesKept, InvariantStays DEF Inv, StreamStep
  <2> QED BY <1>2, <2>2, <2>3
<1> QED BY <1>1, <1>2, PTL DEF Spec

-----------------------------------------------------------------------------
(* What follows for the results of the parse functions *)

\* For any files: a parse function that returns FAILED has reported an error.
THEOREM FailuresAreReported == Spec => FailureIsReported
<1>1. ASSUME Inv, Returns("FAILED"), ~KernelAlone PROVE error_count > Top.errors
  <2>1. OnPoints /\ ReportsIfFails /\ ~Done /\ Status = "FAILED"
    BY <1>1 DEF Inv, ParserInvariant, Returns
  <2>2. Len(stack) \in Active /\ Top = stack[Len(stack)]
    BY <2>1, Depths
  <2>3. ~IsQuiet(Len(stack))
    BY <2>1, QuietDoesNotFail
  <2> QED BY <2>1, <2>2, <2>3, ErrorsAre
<1> QED BY <1>1, InvariantHolds, PTL DEF FailureIsReported

\* For any files: a parse function that returns NONCOMMITTED has consumed and
\* reported nothing.
THEOREM NoncommittedConsumed == Spec => NoncommittedConsumesNothing
<1>1. ASSUME Inv, Returns("NONCOMMITTED"), Top.fn # "parameter"
      PROVE  cursor = Top.at /\ error_count = Top.errors
  <2>1. OnPoints /\ CommitsIfTouched /\ ~Done /\ Status = "NONCOMMITTED"
    BY <1>1 DEF Inv, ParserInvariant, Returns
  <2>2. /\ Len(stack) \in Active /\ Top = stack[Len(stack)] /\ IsTop(Len(stack))
        /\ Goes(Len(stack)) = {Top.code} /\ Top.fn \in DOMAIN Code
    BY <2>1, Depths, TopIs
  <2>3. ~IsCommitted(Len(stack))
    <3>1. EndsWith(Top.code, "NONCOMMITTED")
      BY <2>1, StatusIs
    <3> QED BY <1>1, <2>2, <3>1, CommittedAssumption DEF IsCommitted
  <2> QED BY <2>1, <2>2, <2>3 DEF CommitsIfTouched, Untouched
<1> QED BY <1>1, InvariantHolds, PTL DEF NoncommittedConsumesNothing

\* For any files: none is accepted of which a part was skipped or not reached,
\* or that leaves a mark or a dereference open.
THEOREM NothingIsSkipped == Spec => []NothingSkippedSilently
<1>1. Inv => NothingSkippedSilently
  <2> SUFFICES ASSUME Inv, Accepted, ~KernelAlone
               PROVE  ~skipped /\ isEnd /\ rollback_stack = <<>> /\ pending_deref = 0
    BY DEF NothingSkippedSilently
  <2>1. stack = <<>> /\ ~crashed /\ error_count = 0
    BY DEF Accepted, Done
  <2>2. SkipsAreReported /\ EndIsReached /\ MarksAreKept /\ OwedIsAsked /\ StreamInv
    BY DEF Inv, ParserInvariant
  <2>3. ~skipped /\ isEnd /\ pending_deref = 0
    BY <2>1, <2>2 DEF SkipsAreReported, EndIsReached, OwedIsAsked
  <2>4. rollback_stack = <<>>
    <3>1. Active = {}
      BY <2>1, EmptySeq DEF Active
    <3>2. Inside = {}
      BY <3>1 DEF Inside
    <3>3. Len(rollback_stack) = 0
      BY <2>1, <2>2, <3>2, FS_EmptySet DEF MarksAreKept
    <3>4. rollback_stack \in Seq(MarkSet)
      BY <2>2 DEF StreamInv, Recorded, Marked
    <3> QED BY <3>3, <3>4, EmptySeq
  <2> QED BY <2>3, <2>4
<1> QED BY <1>1, InvariantHolds, PTL

=============================================================================
