--------------------------- MODULE ResolverProofs ---------------------------
(***************************************************************************)
(* Theorems about Resolver, for any import graph, search path and disk:    *)
(* the recursion of import_module is bounded, only what the program        *)
(* imports itself is linked, what reaches the program is there once, in    *)
(* its order and no more than an importer is shown, what the program       *)
(* imports first itself is there in full, and the stage runs out of steps. *)
(***************************************************************************)
EXTENDS Resolver, SequenceLemmas, SequenceTheorems, FiniteSetTheorems, TLAPS

Activations == 2 .. Len(stack)
ModuleOf(i) == stack[i].file[2]

StackTyped ==
  /\ world \in WorldType
  /\ stack \in Seq(FrameType)
  /\ imported \subseteq Names
  /\ artifacts \in Seq(Range(artifacts))

\* A module is marked before its imports are walked, so no activation of
\* import_module below another is for the same module.
ActivationsDiffer ==
  /\ \A i \in Activations : ModuleOf(i) \in imported
  /\ \A i, j \in Activations : ModuleOf(i) = ModuleOf(j) => i = j

\* Resolve itself is at the bottom, and calls import_module on direct imports.
DirectActivations ==
  /\ stack # <<>> => stack[1].file = <<SourceDir, Main>>
  /\ \A i \in Activations : ~stack[i].transitive => ModuleOf(i) \in Direct

Calls == StackTyped /\ ActivationsDiffer /\ DirectActivations /\ OnlyDirectAreLinked

-----------------------------------------------------------------------------

LEMMA MainIsFile == <<SourceDir, Main>> \in Files
BY NamesAssumption, DirsAssumption DEF Files

LEMMA CallsInit == Init => Calls
<1> SUFFICES ASSUME Init  PROVE Calls
  OBVIOUS
<1> DEFINE f == [file |-> <<SourceDir, Main>>, transitive |-> FALSE, next |-> 1]
<1>1. f \in FrameType /\ stack = <<f>> /\ f.file = <<SourceDir, Main>>
  BY MainIsFile DEF FrameType, Init
<1> HIDE DEF f
<1>2. stack \in Seq(FrameType) /\ Len(stack) = 1 /\ stack[1] = f
  BY <1>1
<1>3. Activations = {}
  BY <1>2 DEF Activations
<1>4. artifacts \in Seq(Range(artifacts)) /\ Range(artifacts) = {}
  BY DEF Init, Range
<1>5. StackTyped
  BY <1>2, <1>4, WorldsAssumption DEF StackTyped, Init
<1> QED
  BY <1>1, <1>2, <1>3, <1>4, <1>5
     DEF Calls, ActivationsDiffer, DirectActivations, OnlyDirectAreLinked

\* The import the top frame calls next.
LEMMA CalleeType ==
  ASSUME Calls, Calling
  PROVE  /\ stack # <<>> /\ Len(stack) \in Nat /\ Len(stack) >= 1
         /\ Top \in FrameType /\ Callee \in Names
         /\ InResolve => Callee \in Direct
<1>1. PICK n \in Nat : Len(stack) = n + 1
  BY NonEmptySeq DEF Calling, Calls, StackTyped
<1>2. /\ stack # <<>> /\ Len(stack) \in Nat /\ Len(stack) >= 1
      /\ Len(stack) \in 1 .. Len(stack)
  BY <1>1 DEF Calling
<1>3. Top \in FrameType
  BY <1>2, ElementOfSeq DEF Top, Calls, StackTyped
<1>4. Top.file \in Files /\ Top.next \in Nat \ {0}
  BY <1>3 DEF FrameType
<1>5. Imports \in Seq(Names)
  BY <1>4 DEF Imports, Calls, StackTyped, WorldType
<1>6. Top.next \in 1 .. Len(Imports)
  BY <1>4, <1>5 DEF Calling
<1>7. Callee \in Names /\ Callee \in Range(Imports)
  BY <1>5, <1>6, ElementOfSeq DEF Callee, Range
<1>8. InResolve => Imports = world.imports[<<SourceDir, Main>>]
  BY <1>2 DEF InResolve, Imports, Top, Calls, DirectActivations
<1> QED
  BY <1>2, <1>3, <1>7, <1>8 DEF Direct

\* The loop of the top frame goes on to the next import.
LEMMA AdvancedStack ==
  ASSUME Calls, Calling
  PROVE  /\ Advanced \in Seq(FrameType) /\ Len(Advanced) = Len(stack)
         /\ \A i \in 1 .. Len(stack) : /\ Advanced[i].file = stack[i].file
                                      /\ Advanced[i].transitive = stack[i].transitive
<1>1. Len(stack) \in Nat /\ Len(stack) >= 1
  BY CalleeType
<1>2. stack \in Seq(FrameType)
  BY DEF Calls, StackTyped
<1>3. stack[Len(stack)] \in FrameType
  BY CalleeType DEF Top
<1> DEFINE g == [stack[Len(stack)] EXCEPT !.next = @ + 1]
<1>4. g \in FrameType /\ g.file = stack[Len(stack)].file
        /\ g.transitive = stack[Len(stack)].transitive
  BY <1>3 DEF FrameType
<1>5. Advanced = [stack EXCEPT ![Len(stack)] = g]
  BY DEF Advanced
<1> HIDE DEF g
<1>6. Len(stack) \in 1 .. Len(stack)
  BY <1>1
<1>7. /\ Advanced \in Seq(FrameType) /\ Len(Advanced) = Len(stack)
      /\ \A i \in 1 .. Len(stack) :
           Advanced[i] = IF i = Len(stack) THEN g ELSE stack[i]
  BY <1>2, <1>4, <1>5, <1>6, ExceptSeq
<1> QED
  BY <1>4, <1>7

\* A call that returns at once: the name may be marked, nothing else changes.
LEMMA ReturnsAtOnce ==
  ASSUME Calls, Calling, stack' = Advanced, imported' \in {imported, Marked},
         UNCHANGED <<world, artifacts>>
  PROVE  Calls'
<1>1. /\ stack' \in Seq(FrameType) /\ Len(stack') = Len(stack)
      /\ \A i \in 1 .. Len(stack) : /\ stack'[i].file = stack[i].file
                                   /\ stack'[i].transitive = stack[i].transitive
  BY AdvancedStack
<1>2. imported \subseteq imported' /\ imported' \subseteq Names
  BY CalleeType DEF Marked, Calls, StackTyped
<1>3. Len(stack) \in Nat /\ Len(stack) >= 1 /\ stack # <<>>
  BY CalleeType
<1>4. \A i \in Activations : i \in 1 .. Len(stack)
  BY <1>3 DEF Activations
<1>5. Activations' = Activations /\ \A i \in Activations : ModuleOf(i)' = ModuleOf(i)
  BY <1>1, <1>4 DEF Activations, ModuleOf
<1>6. StackTyped'
  BY <1>1, <1>2 DEF Calls, StackTyped
<1>7. ActivationsDiffer'
  BY <1>2, <1>5 DEF Calls, ActivationsDiffer
<1>8. stack'[1].file = <<SourceDir, Main>>
  BY <1>1, <1>3 DEF Calls, DirectActivations
<1>9. \A i \in Activations' : ~stack'[i].transitive => ModuleOf(i)' \in Direct'
  BY <1>1, <1>4, <1>5 DEF Calls, DirectActivations, Direct
<1>10. OnlyDirectAreLinked'
  BY DEF Calls, OnlyDirectAreLinked, Direct
<1> QED
  BY <1>6, <1>7, <1>8, <1>9, <1>10 DEF Calls, DirectActivations

LEMMA EnteredCalls ==
  ASSUME Calls, ModuleEntered
  PROVE  Calls'
<1> DEFINE g == [file |-> CalleeFile, transitive |-> CalledTransitively, next |-> 1]
<1>0. /\ Calling /\ Callee \notin imported /\ CalleeFile \in world.files
      /\ imported' = Marked /\ stack' = Append(Advanced, g)
      /\ UNCHANGED <<world, artifacts>>
  BY DEF ModuleEntered
<1>1. g \in FrameType /\ g.file[2] = Callee /\ g.transitive = ~InResolve
  BY <1>0 DEF FrameType, Calls, StackTyped, WorldType, CalleeFile, CalledTransitively,
              InResolve
<1> HIDE DEF g
<1>2. PICK n \in Nat : Len(stack) = n /\ n >= 1
  BY <1>0, CalleeType
<1>3. /\ Advanced \in Seq(FrameType) /\ Len(Advanced) = n
      /\ \A i \in 1 .. n : /\ Advanced[i].file = stack[i].file
                           /\ Advanced[i].transitive = stack[i].transitive
  BY <1>0, <1>2, AdvancedStack
<1>4. /\ stack' \in Seq(FrameType) /\ Len(stack') = n + 1
      /\ stack'[n + 1] = g
      /\ \A i \in 1 .. n : /\ stack'[i].file = stack[i].file
                           /\ stack'[i].transitive = stack[i].transitive
  BY <1>0, <1>1, <1>3, AppendToSeq
<1>5. /\ Activations' = Activations \cup {n + 1} /\ n + 1 \notin Activations
      /\ Activations \subseteq 1 .. n
  BY <1>2, <1>4 DEF Activations
<1>6. /\ \A i \in Activations : ModuleOf(i)' = ModuleOf(i)
      /\ ModuleOf(n + 1)' = Callee
  BY <1>1, <1>4, <1>5 DEF ModuleOf
<1>7. imported' = imported \cup {Callee} /\ Callee \in Names
  BY <1>0, CalleeType DEF Marked
<1>8. StackTyped'
  BY <1>0, <1>4, <1>7 DEF Calls, StackTyped
<1>9. ActivationsDiffer'
  BY <1>0, <1>5, <1>6, <1>7 DEF Calls, ActivationsDiffer
<1>10. stack'[1].file = <<SourceDir, Main>>
  BY <1>2, <1>4 DEF Calls, DirectActivations
<1>11. ASSUME NEW i \in Activations', ~stack'[i].transitive
       PROVE  ModuleOf(i)' \in Direct'
  <2>1. CASE i \in Activations
    BY <2>1, <1>0, <1>4, <1>5, <1>6, <1>11 DEF Calls, DirectActivations, Direct
  <2>2. CASE i = n + 1
    BY <2>2, <1>0, <1>1, <1>4, <1>6, <1>11, CalleeType DEF Direct
  <2> QED
    BY <2>1, <2>2, <1>5
<1>12. OnlyDirectAreLinked'
  BY <1>0 DEF Calls, OnlyDirectAreLinked, Direct
<1> QED
  BY <1>8, <1>9, <1>10, <1>11, <1>12 DEF Calls, DirectActivations

\* A call returns: its frame goes.
LEMMA PoppedCalls ==
  ASSUME Calls, stack # <<>>, stack' \in {Front(stack), <<>>},
         UNCHANGED <<world, imported>>,
         artifacts' \in Seq(Range(artifacts')), OnlyDirectAreLinked'
  PROVE  Calls'
<1>1. stack \in Seq(FrameType)
  BY DEF Calls, StackTyped
<1>2. PICK n \in Nat : Len(stack) = n + 1
  BY <1>1, NonEmptySeq
<1>3. PICK m \in Nat : /\ stack' \in Seq(FrameType) /\ Len(stack') = m /\ m <= n
                       /\ \A i \in 1 .. m : stack'[i] = stack[i]
  <2>1. CASE stack' = <<>>
    <3>1. stack' \in Seq(FrameType) /\ Len(stack') = 0 /\ 0 <= n
            /\ \A i \in 1 .. 0 : stack'[i] = stack[i]
      BY <2>1, <1>2
    <3> QED
      BY <3>1
  <2>2. CASE stack' = Front(stack)
    <3>1. /\ stack' \in Seq(FrameType) /\ Len(stack') = n
          /\ \A i \in 1 .. n : stack'[i] = stack[i]
      BY <2>2, <1>1, <1>2, FrontOfSeq
    <3> QED
      BY <3>1
  <2> QED
    BY <2>1, <2>2
<1>4. /\ Activations' \subseteq Activations /\ Activations' \subseteq 1 .. m
      /\ \A i \in Activations' : ModuleOf(i)' = ModuleOf(i)
  BY <1>2, <1>3 DEF Activations, ModuleOf
<1>5. StackTyped'
  BY <1>3 DEF Calls, StackTyped
<1>6. ActivationsDiffer'
  BY <1>4 DEF Calls, ActivationsDiffer
<1>7. stack' # <<>> => stack'[1].file = <<SourceDir, Main>>
  <2>1. stack' # <<>> => 1 \in 1 .. m
    BY <1>3, EmptySeq
  <2> QED
    BY <2>1, <1>3 DEF Calls, DirectActivations
<1>8. \A i \in Activations' : ~stack'[i].transitive => ModuleOf(i)' \in Direct'
  BY <1>3, <1>4 DEF Calls, DirectActivations, Direct
<1> QED
  BY <1>5, <1>6, <1>7, <1>8 DEF Calls, DirectActivations

\* traceLinkableArtifacts returns artifacts of the module it is asked for.
LEMMA ArtifactName ==
  ASSUME NEW name, NEW dir
  PROVE  /\ LinkableArtifact(name, dir) \in Seq(Range(LinkableArtifact(name, dir)))
         /\ \A lib \in Range(LinkableArtifact(name, dir)) : lib[2] = name
<1>1. LinkableArtifact(name, dir) = <<>>
        \/ \E d, e : LinkableArtifact(name, dir) = <<<<d, name, e>>>>
  BY Zenon DEF LinkableArtifact
<1>2. ASSUME NEW s, s = <<>>  PROVE s \in Seq(Range(s)) /\ Range(s) = {}
  BY <1>2 DEF Range
<1>3. ASSUME NEW s, NEW x, s = <<x>>  PROVE s \in Seq(Range(s)) /\ Range(s) = {x}
  <2>1. Range(s) = {x}
    BY <1>3 DEF Range
  <2> QED
    BY <1>3, <2>1
<1> HIDE DEF LinkableArtifact
<1>4. CASE LinkableArtifact(name, dir) = <<>>
  BY <1>4, <1>2
<1>5. ASSUME NEW d, NEW e, LinkableArtifact(name, dir) = <<<<d, name, e>>>>
      PROVE  /\ LinkableArtifact(name, dir) \in Seq(Range(LinkableArtifact(name, dir)))
             /\ Range(LinkableArtifact(name, dir)) = {<<d, name, e>>}
  BY <1>5, <1>3
<1> QED
  BY <1>1, <1>4, <1>5, <1>2

LEMMA ConcatRange ==
  ASSUME NEW s, NEW t, s \in Seq(Range(s)), t \in Seq(Range(t))
  PROVE  s \o t \in Seq(Range(s \o t)) /\ Range(s \o t) = Range(s) \cup Range(t)
<1> DEFINE S == Range(s) \cup Range(t)
<1>1. s \in Seq(S) /\ t \in Seq(S)
  <2>1. \A T, r : r \in Seq(T) /\ T \subseteq S => r \in Seq(S)
    OBVIOUS
  <2> QED
    BY <2>1
<1>2. /\ s \o t \in Seq(S) /\ Len(s \o t) = Len(s) + Len(t)
      /\ \A i \in 1 .. Len(s) + Len(t) :
           (s \o t)[i] = IF i <= Len(s) THEN s[i] ELSE t[i - Len(s)]
  BY <1>1, ConcatProperties
<1>3. Range(s \o t) = S
  <2>0. /\ Len(s) \in Nat /\ Len(t) \in Nat
        /\ DOMAIN s = 1 .. Len(s) /\ DOMAIN t = 1 .. Len(t)
        /\ DOMAIN (s \o t) = 1 .. Len(s) + Len(t)
    BY <1>1, <1>2, LenProperties
  <2>1. ASSUME NEW x \in Range(s)  PROVE x \in Range(s \o t)
    <3>1. PICK i \in 1 .. Len(s) : x = s[i]
      BY <2>0 DEF Range
    <3> QED
      BY <3>1, <2>0, <1>2 DEF Range
  <2>2. ASSUME NEW x \in Range(t)  PROVE x \in Range(s \o t)
    <3>1. PICK i \in 1 .. Len(t) : x = t[i]
      BY <2>0 DEF Range
    <3>2. /\ Len(s) + i \in 1 .. Len(s) + Len(t) /\ ~(Len(s) + i <= Len(s))
          /\ Len(s) + i - Len(s) = i
      BY <2>0
    <3>3. (s \o t)[Len(s) + i] = t[i]
      BY <3>2, <1>2
    <3> QED
      BY <3>1, <3>2, <3>3, <2>0 DEF Range
  <2>3. ASSUME NEW x \in Range(s \o t)  PROVE x \in S
    <3>1. PICK i \in 1 .. Len(s \o t) : x = (s \o t)[i]
      BY <2>0, <1>2 DEF Range
    <3> QED
      BY <3>1, <1>2, ElementOfSeq
  <2> QED
    BY <2>1, <2>2, <2>3
<1> QED
  BY <1>2, <1>3

LEMMA DoneCalls ==
  ASSUME Calls, ModuleDone
  PROVE  Calls'
<1>1. /\ stack # <<>> /\ stack' = Front(stack) /\ UNCHANGED <<world, imported>>
      /\ ~InResolve
      /\ artifacts' = IF Top.transitive THEN artifacts
                      ELSE artifacts \o LinkableArtifact(Top.file[2], SourceDir)
  BY DEF ModuleDone
<1>2. /\ artifacts \in Seq(Range(artifacts))
      /\ \A lib \in Range(artifacts) : lib[2] \in Direct
  BY DEF Calls, StackTyped, OnlyDirectAreLinked
<1>3. ~Top.transitive => Top.file[2] \in Direct
  <2>1. PICK n \in Nat : Len(stack) = n + 1
    BY <1>1, NonEmptySeq DEF Calls, StackTyped
  <2>2. Len(stack) \in Activations
    BY <2>1, <1>1 DEF Activations, InResolve
  <2> QED
    BY <2>2 DEF Calls, DirectActivations, Top, ModuleOf
<1>4. /\ artifacts' \in Seq(Range(artifacts'))
      /\ \A lib \in Range(artifacts') : lib[2] \in Direct
  <2> DEFINE more == LinkableArtifact(Top.file[2], SourceDir)
  <2>1. CASE Top.transitive
    BY <2>1, <1>1, <1>2
  <2>2. CASE ~Top.transitive
    <3>1. more \in Seq(Range(more)) /\ \A lib \in Range(more) : lib[2] = Top.file[2]
      BY ArtifactName
    <3>2. artifacts' = artifacts \o more
      BY <2>2, <1>1
    <3> HIDE DEF more
    <3> QED
      BY <2>2, <1>2, <1>3, <3>1, <3>2, ConcatRange
  <2> QED
    BY <2>1, <2>2
<1> QED
  BY <1>1, <1>4, PoppedCalls DEF OnlyDirectAreLinked, Direct

LEMMA CallsStep == Calls /\ [Next]_vars => Calls'
<1> SUFFICES ASSUME Calls, [Next]_vars  PROVE Calls'
  OBVIOUS
<1>1. CASE AlreadyImported \/ ModuleMissing \/ ModuleBroken
  BY <1>1, ReturnsAtOnce DEF AlreadyImported, ModuleMissing, ModuleBroken
<1>2. CASE ModuleEntered
  BY <1>2, EnteredCalls
<1>3. CASE ModuleDone
  BY <1>3, DoneCalls
<1>4. CASE ResolveReturns
  BY <1>4, PoppedCalls
     DEF ResolveReturns, Calls, StackTyped, OnlyDirectAreLinked, Direct
<1>5. CASE UNCHANGED vars
  BY <1>5 DEF vars, Calls, StackTyped, ActivationsDiffer, DirectActivations,
              OnlyDirectAreLinked, Activations, ModuleOf, Direct
<1> QED
  BY <1>1, <1>2, <1>3, <1>4, <1>5 DEF Next

\* As many activations as different marked names: the pigeonhole principle.
LEMMA CallsBound == Calls => RecursionBounded
<1> SUFFICES ASSUME Calls  PROVE RecursionBounded
  OBVIOUS
<1>1. stack \in Seq(FrameType) /\ Len(stack) \in Nat
  BY LenProperties DEF Calls, StackTyped
<1>2. IsFiniteSet(Names) /\ Cardinality(Names) \in Nat
  BY NamesAssumption, FS_CardinalityType
<1>3. IsFiniteSet(Activations)
      /\ Cardinality(Activations) = IF 2 > Len(stack) THEN 0 ELSE Len(stack) - 1
  <2>1. 2 \in Int /\ Len(stack) \in Int /\ Len(stack) - 2 + 1 = Len(stack) - 1
    BY <1>1
  <2> QED
    BY <2>1, FS_Interval DEF Activations
<1> DEFINE f == [i \in Activations |-> ModuleOf(i)]
<1>4. f \in Injection(Activations, Names)
  BY DEF Calls, StackTyped, ActivationsDiffer, Injection, IsInjective
<1>5. Cardinality(Activations) <= Cardinality(Names)
  BY <1>2, <1>4, FS_Injection
<1> QED
  BY <1>1, <1>2, <1>3, <1>5 DEF RecursionBounded

\* The recursion of import_module over cyclic and shared imports is never
\* deeper than there are names to import (resolver.cpp:30-33 marks a module
\* before it walks the module's imports).
THEOREM RecursionIsBounded == Spec => []RecursionBounded
BY CallsInit, CallsStep, CallsBound, PTL DEF Spec

\* Whatever the modules import, every artifact handed to the linker belongs to
\* a module the program imports itself (resolver.cpp:58-64).
THEOREM OnlyDirectLinked == Spec => []OnlyDirectAreLinked
<1>1. Calls => OnlyDirectAreLinked
  BY DEF Calls
<1> QED
  BY <1>1, CallsInit, CallsStep, PTL DEF Spec

-----------------------------------------------------------------------------
(***************************************************************************)
(* The definitions in the program                                          *)
(***************************************************************************)

ItemType == [file : Files, at : DOMAIN Text, kind : Kinds]

\* The definitions of a file from the k-th on that are shown to an importer,
\* in their order.
ShownFrom(k, file, transitive, items) ==
  /\ items \in Seq(ItemType)
  /\ \A j \in 1 .. Len(items) :
       /\ items[j].at >= k
       /\ items[j] = Item(file, items[j].at)
       /\ Kept(Text[items[j].at], transitive)
  /\ \A i, j \in 1 .. Len(items) : i < j => items[i].at < items[j].at
  /\ \A i \in DOMAIN Text :
       i >= k /\ Kept(Text[i], transitive) => \E j \in 1 .. Len(items) : items[j] = Item(file, i)

Shown(file, transitive, items) == ShownFrom(1, file, transitive, items)

LEMMA TextIndices == Len(Text) \in Nat /\ DOMAIN Text = 1 .. Len(Text)
BY TextAssumption, LenProperties

LEMMA ItemTyped ==
  ASSUME NEW file \in Files, NEW i \in DOMAIN Text
  PROVE  Item(file, i) \in ItemType
<1>1. Text[i] \in [kind : Kinds, exported : BOOLEAN]
  BY TextAssumption, TextIndices, ElementOfSeq
<1> QED
  BY <1>1 DEF Item, ItemType, Kinds

OneShown(k, file, transitive) == IF Kept(Text[k], transitive) THEN <<Item(file, k)>> ELSE <<>>

InFront(more, k, file, transitive, items) ==
  /\ ShownFrom(k, file, transitive, more)
  /\ \A p \in Seq(ItemType) : more \o p = OneShown(k, file, transitive) \o (items \o p)

\* One more definition in front of those behind it.
LEMMA ShownInFront ==
  ASSUME NEW file \in Files, NEW transitive, NEW items, NEW k \in DOMAIN Text,
         ShownFrom(k + 1, file, transitive, items)
  PROVE  \E more : InFront(more, k, file, transitive, items)
<1>0. k \in Nat /\ \A i \in DOMAIN Text : i \in Nat
  BY TextIndices
<1>1. items \in Seq(ItemType)
  BY DEF ShownFrom
<1>2. CASE ~Kept(Text[k], transitive)
  <2>1. \A p \in Seq(ItemType) : <<>> \o (items \o p) = items \o p
    BY <1>1, ConcatProperties, ConcatEmptySeq
  <2>2. ASSUME NEW j \in 1 .. Len(items)  PROVE items[j].at >= k
    <3>1. items[j].at >= k + 1 /\ items[j] \in ItemType
      BY <1>1, ElementOfSeq DEF ShownFrom
    <3> QED BY <3>1, <1>0 DEF ItemType
  <2>3. ASSUME NEW i \in DOMAIN Text, i >= k, Kept(Text[i], transitive)
        PROVE  \E j \in 1 .. Len(items) : items[j] = Item(file, i)
    <3>1. i >= k + 1
      BY <2>3, <1>2, <1>0
    <3> QED BY <2>3, <3>1 DEF ShownFrom
  <2>4. ShownFrom(k, file, transitive, items)
    BY <2>2, <2>3, <1>1 DEF ShownFrom
  <2> QED BY <1>2, <2>1, <2>4 DEF InFront, OneShown
<1>3. CASE Kept(Text[k], transitive)
  <2> DEFINE x == Item(file, k)
             more == <<x>> \o items
  <2>1. x \in ItemType /\ x.at = k
    BY ItemTyped DEF Item
  <2> HIDE DEF x
  <2>2. <<x>> \in Seq(ItemType) /\ Len(<<x>>) = 1 /\ <<x>>[1] = x
    BY <2>1
  <2>3. /\ more \in Seq(ItemType) /\ Len(more) = Len(items) + 1 /\ Len(items) \in Nat
        /\ more[1] = x
        /\ \A j \in 1 .. Len(items) : more[j + 1] = items[j]
    <3>1. /\ more \in Seq(ItemType) /\ Len(more) = 1 + Len(items)
          /\ \A i \in 1 .. 1 + Len(items) : more[i] = IF i <= 1 THEN <<x>>[i] ELSE items[i - 1]
      BY <1>1, <2>2, ConcatProperties
    <3>2. Len(items) \in Nat
      BY <1>1, LenProperties
    <3> HIDE DEF more
    <3>3. more[1] = x
      BY <3>1, <3>2, <2>2
    <3>4. ASSUME NEW j \in 1 .. Len(items)  PROVE more[j + 1] = items[j]
      <4>1. j + 1 \in 1 .. 1 + Len(items) /\ ~(j + 1 <= 1) /\ j + 1 - 1 = j
        BY <3>2
      <4> QED BY <4>1, <3>1
    <3> QED BY <3>1, <3>2, <3>3, <3>4
  <2>4. \A p \in Seq(ItemType) : more \o p = <<x>> \o (items \o p)
    BY <1>1, <2>2, ConcatAssociative
  <2> HIDE DEF more
  <2>5. \A j \in 1 .. Len(more) : j = 1 \/ (j - 1 \in 1 .. Len(items) /\ more[j] = items[j - 1])
    <3>1. ASSUME NEW j \in 1 .. Len(more), j # 1
          PROVE  j - 1 \in 1 .. Len(items) /\ more[j] = items[j - 1]
      <4>1. j - 1 \in 1 .. Len(items) /\ j - 1 + 1 = j
        BY <2>3, <3>1
      <4> QED BY <4>1, <2>3
    <3> QED BY <3>1
  <2>6. \A j \in 1 .. Len(items) : items[j].at \in Nat /\ items[j].at > k
    <3>1. ASSUME NEW j \in 1 .. Len(items)  PROVE items[j].at \in Nat /\ items[j].at > k
      <4>1. items[j].at >= k + 1 /\ items[j] \in ItemType
        BY <1>1, ElementOfSeq DEF ShownFrom
      <4> QED BY <4>1, <1>0 DEF ItemType
    <3> QED BY <3>1
  <2>7. ASSUME NEW j \in 1 .. Len(more)
        PROVE  /\ more[j].at >= k /\ more[j] = Item(file, more[j].at)
               /\ Kept(Text[more[j].at], transitive)
    <3>1. CASE j = 1
      BY <3>1, <2>1, <2>3, <1>0, <1>3 DEF x
    <3>2. CASE j # 1
      BY <3>2, <2>5, <2>6, <1>0 DEF ShownFrom
    <3> QED BY <3>1, <3>2
  <2>8. ASSUME NEW i \in 1 .. Len(more), NEW j \in 1 .. Len(more), i < j
        PROVE  more[i].at < more[j].at
    <3>1. j # 1 /\ j - 1 \in 1 .. Len(items) /\ more[j] = items[j - 1]
      BY <2>8, <2>5
    <3>2. CASE i = 1
      BY <3>1, <3>2, <2>1, <2>3, <2>6, <1>0
    <3>3. CASE i # 1
      <4>1. i - 1 \in 1 .. Len(items) /\ more[i] = items[i - 1] /\ i - 1 < j - 1
        BY <3>3, <2>5, <2>8
      <4> QED BY <4>1, <3>1 DEF ShownFrom
    <3> QED BY <3>2, <3>3
  <2>9. ASSUME NEW i \in DOMAIN Text, i >= k, Kept(Text[i], transitive)
        PROVE  \E j \in 1 .. Len(more) : more[j] = Item(file, i)
    <3>1. CASE i = k
      <4>1. 1 \in 1 .. Len(more)
        BY <2>3
      <4> QED BY <4>1, <3>1, <2>3 DEF x
    <3>2. CASE i # k
      <4>1. i >= k + 1
        BY <3>2, <2>9, <1>0
      <4>2. PICK j \in 1 .. Len(items) : items[j] = Item(file, i)
        BY <4>1, <2>9 DEF ShownFrom
      <4>3. j + 1 \in 1 .. Len(more) /\ more[j + 1] = Item(file, i)
        BY <4>2, <2>3
      <4> QED BY <4>3
    <3> QED BY <3>1, <3>2
  <2>10. ShownFrom(k, file, transitive, more)
    BY <2>3, <2>7, <2>8, <2>9 DEF ShownFrom
  <2> QED BY <1>3, <2>4, <2>10 DEF x, InFront, OneShown
<1> QED BY <1>2, <1>3

\* inject_definitions puts the definitions shown in front of the program.
LEMMA Injected ==
  ASSUME NEW file \in Files, NEW transitive, program \in Seq(ItemType)
  PROVE  \E items : /\ Shown(file, transitive, items)
                    /\ inject_definitions(file, transitive) = items \o program
<1> DEFINE N == Len(Text)
           X == Seq(ItemType)
           front(i) == IF Kept(Text[i], transitive) THEN <<Item(file, i)>> ELSE <<>>
           g == [s \in Nat \X X |-> IF s[1] < N THEN front(N - s[1]) \o s[2] ELSE s[2]]
           D == 0 .. N
           IsAfter(f) == f = [n \in D |-> IF n = 0 THEN program
                                          ELSE front(N + 1 - n) \o f[n - 1]]
<1>0. N \in Nat /\ DOMAIN Text = 1 .. N
  BY TextIndices
<1> HIDE DEF N
<1>1. \A i \in 1 .. N : front(i) \in X
  BY ItemTyped, <1>0, EmptySeq
<1>2. g \in [Nat \X X -> X]
  <2>1. ASSUME NEW n \in Nat, NEW x \in X, n < N  PROVE front(N - n) \o x \in X
    <3>1. N - n \in 1 .. N
      BY <1>0, <2>1
    <3> HIDE DEF front
    <3>2. front(N - n) \in X
      BY <1>1, <3>1
    <3> QED BY <3>2, ConcatProperties
  <2> HIDE DEF front, X
  <2> QED BY <2>1
<1>3. PICK f : f \in [Nat -> X] /\ f[0] = program /\ \A n \in Nat : f[n + 1] = g[<<n, f[n]>>]
  <2> HIDE DEF front, g
  <2>1. program \in X
    OBVIOUS
  <2> HIDE DEF X
  <2>2. \E f : Recurs(f, X, program, g)
    BY <2>1, <1>2, Recursion
  <2> QED BY <2>2 DEF Recurs
<1>4. ASSUME NEW n \in Nat, n < N  PROVE f[n + 1] = front(N - n) \o f[n]
  <2>1. f[n + 1] = g[<<n, f[n]>>] /\ f[n] \in X
    BY <1>3
  <2> HIDE DEF front, X
  <2> QED BY <2>1, <1>4
<1>5. \E h : IsAfter(h)
  <2> DEFINE h == [n \in D |-> f[n]]
  <2>1. ASSUME NEW n \in D, n # 0  PROVE f[n] = front(N + 1 - n) \o f[n - 1]
    <3>1. n - 1 \in Nat /\ n - 1 < N /\ n - 1 + 1 = n /\ N - (n - 1) = N + 1 - n
      BY <2>1, <1>0
    <3> HIDE DEF front
    <3> QED BY <3>1, <1>4
  <2>2. ASSUME NEW n \in D, n # 0  PROVE n - 1 \in D
    BY <2>2, <1>0
  <2> HIDE DEF front
  <2>3. IsAfter(h)
    BY <2>1, <2>2, <1>3
  <2> QED BY <2>3
<1> DEFINE after == CHOOSE h : IsAfter(h)
<1>6. inject_definitions(file, transitive) = after[N]
  BY DEF inject_definitions, N
<1>7. IsAfter(after)
  BY <1>5
<1> HIDE DEF after, front
<1>8. /\ after[0] = program
      /\ \A n \in Nat : n < N => after[n + 1] = front(N - n) \o after[n]
  <2>1. 0 \in D
    BY <1>0
  <2>2. after[0] = program
    BY <2>1, <1>7
  <2>3. ASSUME NEW n \in Nat, n < N  PROVE after[n + 1] = front(N - n) \o after[n]
    <3> DEFINE m == n + 1
    <3>1. m \in D /\ m # 0 /\ N + 1 - m = N - n /\ m - 1 = n
      BY <2>3, <1>0
    <3> HIDE DEF m
    <3>2. after[m] = front(N + 1 - m) \o after[m - 1]
      BY <3>1, <1>7
    <3>3. after[m] = front(N - n) \o after[n]
      BY <3>1, <3>2
    <3> QED BY <3>3 DEF m
  <2> QED BY <2>2, <2>3
<1> DEFINE S == {n \in Nat : n <= N => \E items : /\ ShownFrom(N + 1 - n, file, transitive, items)
                                                  /\ after[n] = items \o program}
<1>9. 0 \in S
  <2>1. <<>> \in Seq(ItemType) /\ Len(<<>>) = 0 /\ <<>> \o program = program
    BY EmptySeq, ConcatEmptySeq
  <2>2. \A i \in DOMAIN Text : ~(i >= N + 1 - 0)
    BY <1>0
  <2>3. ShownFrom(N + 1 - 0, file, transitive, <<>>)
    BY <2>1, <2>2 DEF ShownFrom
  <2> QED BY <2>1, <2>3, <1>8
<1>10. ASSUME NEW n \in Nat, n \in S  PROVE n + 1 \in S
  <2> SUFFICES ASSUME n + 1 <= N
               PROVE  \E items : /\ ShownFrom(N + 1 - (n + 1), file, transitive, items)
                                 /\ after[n + 1] = items \o program
    <3>1. n + 1 \in Nat
      OBVIOUS
    <3> QED BY <3>1, Zenon
  <2>1. /\ n <= N /\ n < N /\ N - n \in DOMAIN Text /\ N - n + 1 = N + 1 - n
        /\ N + 1 - (n + 1) = N - n
    BY <1>0
  <2>2. PICK items : ShownFrom(N - n + 1, file, transitive, items) /\ after[n] = items \o program
    BY <2>1, <1>10
  <2>3. PICK more : /\ ShownFrom(N - n, file, transitive, more)
                    /\ \A p \in Seq(ItemType) : more \o p = front(N - n) \o (items \o p)
    <3> DEFINE k == N - n
    <3>1. k \in DOMAIN Text /\ ShownFrom(k + 1, file, transitive, items)
      BY <2>1, <2>2
    <3> HIDE DEF k
    <3>2. PICK more : InFront(more, k, file, transitive, items)
      BY <3>1, ShownInFront
    <3>3. /\ ShownFrom(k, file, transitive, more)
          /\ \A p \in Seq(ItemType) : more \o p = front(k) \o (items \o p)
      BY <3>2 DEF InFront, OneShown, front
    <3> QED BY <3>3 DEF k
  <2>4. after[n + 1] = front(N - n) \o (items \o program)
    BY <2>1, <2>2, <1>8
  <2> QED BY <2>1, <2>3, <2>4
<1> HIDE DEF S
<1>11. N \in S
  BY <1>0, <1>9, <1>10, NatInductionSet
<1>12. N <= N /\ N + 1 - N = 1
  BY <1>0
<1> QED
  BY <1>6, <1>11, <1>12 DEF S, Shown
-----------------------------------------------------------------------------

\* The definitions of a module enter the program when its import is over, and
\* a module is imported once.
ItemsAreOver ==
  \A j \in 1 .. Len(program) :
    /\ program[j].file[2] \in imported
    /\ \A i \in Activations : ModuleOf(i) # program[j].file[2]

OrderedByName ==
  \A i, j \in 1 .. Len(program) :
    i < j /\ program[i].file[2] = program[j].file[2] => program[i].at < program[j].at

NothingLeaks ==
  \A j \in 1 .. Len(program) :
    program[j].file[2] \notin Direct => program[j].kind \in {"generic", "type"}

Content ==
  /\ Calls /\ program \in Seq(ItemType)
  /\ ItemsAreOver /\ OrderedByName /\ NothingLeaks

LEMMA ContentInit == Init => Content
<1> SUFFICES ASSUME Init  PROVE Content
  OBVIOUS
<1>1. program = <<>> /\ program \in Seq(ItemType) /\ Len(program) = 0
  BY EmptySeq DEF Init
<1>2. 1 .. 0 = {}
  OBVIOUS
<1> QED
  BY <1>1, <1>2, CallsInit DEF Content, ItemsAreOver, OrderedByName, NothingLeaks

\* What the steps do to the activations.
LEMMA ActivationsOfStep ==
  ASSUME Calls
  PROVE  /\ Calling /\ stack' = Advanced =>
              Activations' = Activations /\ \A i \in Activations : ModuleOf(i)' = ModuleOf(i)
         /\ ModuleEntered =>
              /\ \A i \in Activations' : ModuleOf(i)' = Callee
                                         \/ (i \in Activations /\ ModuleOf(i)' = ModuleOf(i))
         /\ ModuleDone =>
              /\ Len(stack) \in Activations /\ Len(stack) \notin Activations'
              /\ Activations' \subseteq Activations
              /\ \A i \in Activations' : ModuleOf(i)' = ModuleOf(i)
         /\ stack' = <<>> => Activations' = {}
<1>1. ASSUME Calling, stack' = Advanced
      PROVE  Activations' = Activations /\ \A i \in Activations : ModuleOf(i)' = ModuleOf(i)
  <2>1. /\ Len(stack') = Len(stack) /\ Len(stack) \in Nat
        /\ \A i \in 1 .. Len(stack) : stack'[i].file = stack[i].file
    BY <1>1, AdvancedStack, CalleeType
  <2>2. \A i \in Activations : i \in 1 .. Len(stack)
    BY <2>1 DEF Activations
  <2> QED BY <2>1, <2>2 DEF Activations, ModuleOf
<1>2. ASSUME ModuleEntered
      PROVE  \A i \in Activations' : ModuleOf(i)' = Callee
                                     \/ (i \in Activations /\ ModuleOf(i)' = ModuleOf(i))
  <2> DEFINE g == [file |-> CalleeFile, transitive |-> CalledTransitively, next |-> 1]
  <2>0. Calling /\ stack' = Append(Advanced, g) /\ CalleeFile \in world.files
    BY <1>2 DEF ModuleEntered
  <2>1. g.file[2] = Callee /\ g \in FrameType
    BY <2>0 DEF CalleeFile, FrameType, Calls, StackTyped, WorldType, CalledTransitively, InResolve
  <2> HIDE DEF g
  <2>2. PICK n \in Nat : Len(stack) = n /\ n >= 1
    BY <2>0, CalleeType
  <2>3. /\ Advanced \in Seq(FrameType) /\ Len(Advanced) = n
        /\ \A i \in 1 .. n : Advanced[i].file = stack[i].file
    BY <2>0, <2>2, AdvancedStack
  <2>4. /\ Len(stack') = n + 1 /\ stack'[n + 1] = g
        /\ \A i \in 1 .. n : stack'[i].file = stack[i].file
    BY <2>0, <2>1, <2>3, AppendToSeq
  <2>5. ASSUME NEW i \in Activations', i # n + 1
        PROVE  i \in Activations /\ ModuleOf(i)' = ModuleOf(i)
    <3>1. i \in 2 .. n /\ i \in 1 .. n
      BY <2>4, <2>5 DEF Activations
    <3> QED BY <3>1, <2>2, <2>4 DEF Activations, ModuleOf
  <2>6. ASSUME NEW i \in Activations', i = n + 1  PROVE ModuleOf(i)' = Callee
    BY <2>1, <2>4, <2>6 DEF ModuleOf
  <2> SUFFICES ASSUME NEW i \in Activations'
               PROVE  ModuleOf(i)' = Callee \/ (i \in Activations /\ ModuleOf(i)' = ModuleOf(i))
    OBVIOUS
  <2>7. CASE i = n + 1
    BY <2>6, <2>7
  <2>8. CASE i # n + 1
    BY <2>5, <2>8
  <2> QED BY <2>7, <2>8
<1>3. ASSUME ModuleDone
      PROVE  /\ Len(stack) \in Activations /\ Len(stack) \notin Activations'
             /\ Activations' \subseteq Activations
             /\ \A i \in Activations' : ModuleOf(i)' = ModuleOf(i)
  <2>1. /\ stack # <<>> /\ stack' = Front(stack) /\ ~InResolve /\ stack \in Seq(FrameType)
    BY <1>3 DEF ModuleDone, Calls, StackTyped
  <2>2. PICK n \in Nat : Len(stack) = n + 1
    BY <2>1, NonEmptySeq
  <2>3. Len(stack') = n /\ \A i \in 1 .. n : stack'[i] = stack[i]
    BY <2>1, <2>2, FrontOfSeq
  <2>4. n + 1 # 1
    BY <2>1, <2>2 DEF InResolve
  <2> QED BY <2>2, <2>3, <2>4 DEF Activations, ModuleOf
<1>4. ASSUME stack' = <<>>  PROVE Activations' = {}
  <2>1. Len(stack') = 0 /\ 2 .. 0 = {}
    BY <1>4
  <2> QED BY <2>1 DEF Activations
<1> QED BY <1>1, <1>2, <1>3, <1>4

\* Steps that leave the program alone.
LEMMA ContentKept ==
  ASSUME Content, Next, ~ModuleDone
  PROVE  Content'
<1>0. Calls /\ Calls'
  BY CallsStep DEF Content
<1>1. program' = program /\ world' = world /\ Direct' = Direct /\ imported \subseteq imported'
  BY DEF Next, AlreadyImported, ModuleMissing, ModuleBroken, ModuleEntered, ResolveReturns,
         Direct, Marked
<1>2. ASSUME NEW j \in 1 .. Len(program), NEW i \in Activations'
      PROVE  ModuleOf(i)' # program[j].file[2]
  <2>1. CASE AlreadyImported \/ ModuleMissing \/ ModuleBroken
    <3>1. i \in Activations /\ ModuleOf(i)' = ModuleOf(i)
      BY <2>1, <1>0, ActivationsOfStep DEF AlreadyImported, ModuleMissing, ModuleBroken
    <3> QED BY <3>1 DEF Content, ItemsAreOver
  <2>2. CASE ModuleEntered
    <3>1. Callee \notin imported
      BY <2>2 DEF ModuleEntered
    <3>2. ModuleOf(i)' = Callee \/ (i \in Activations /\ ModuleOf(i)' = ModuleOf(i))
      BY <2>2, <1>0, ActivationsOfStep
    <3> QED BY <3>1, <3>2 DEF Content, ItemsAreOver
  <2>3. CASE ResolveReturns
    BY <2>3, <1>0, ActivationsOfStep DEF ResolveReturns
  <2> QED BY <2>1, <2>2, <2>3 DEF Next
<1>3. ItemsAreOver'
  BY <1>1, <1>2 DEF Content, ItemsAreOver
<1> QED
  BY <1>0, <1>1, <1>3 DEF Content, OrderedByName, NothingLeaks

\* The top activation hands its definitions over.
LEMMA ContentDone ==
  ASSUME Content, ModuleDone
  PROVE  Content'
<1>0. Calls /\ Calls' /\ program \in Seq(ItemType)
  BY CallsStep DEF Content, Next
<1>1. /\ world' = world /\ imported' = imported /\ Direct' = Direct
      /\ program' = inject_definitions(Top.file, Top.transitive)
  BY DEF ModuleDone, Direct
<1>2. Len(stack) \in Activations /\ Len(stack) \in 1 .. Len(stack) /\ stack \in Seq(FrameType)
  BY <1>0, ActivationsOfStep DEF Calls, StackTyped, Activations
<1> DEFINE name == Top.file[2]
<1>3. /\ Top \in FrameType /\ Top.file \in Files /\ name \in imported
      /\ ~Top.transitive => name \in Direct
      /\ name = ModuleOf(Len(stack))
  <2>1. Top \in FrameType
    BY <1>2, ElementOfSeq DEF Top
  <2> QED BY <1>0, <1>2, <2>1
          DEF Top, FrameType, ModuleOf, Calls, ActivationsDiffer, DirectActivations
<1>4. PICK items : /\ Shown(Top.file, Top.transitive, items) /\ program' = items \o program
  BY <1>0, <1>1, <1>3, Injected
<1> DEFINE m == Len(items)
           n == Len(program)
<1>5. m \in Nat /\ n \in Nat /\ items \in Seq(ItemType)
  BY <1>0, <1>4, LenProperties DEF Shown, ShownFrom
<1>6. /\ program' \in Seq(ItemType) /\ Len(program') = m + n
      /\ \A i \in 1 .. m + n : program'[i] = IF i <= m THEN items[i] ELSE program[i - m]
  BY <1>0, <1>4, <1>5, ConcatProperties
<1>7. \A i \in 1 .. m : /\ items[i].file = Top.file
                        /\ items[i].kind \in {"generic", "type"} \/ ~Top.transitive
  <2>1. ASSUME NEW i \in 1 .. m
        PROVE  /\ items[i].file = Top.file
               /\ items[i].kind \in {"generic", "type"} \/ ~Top.transitive
    <3>1. items[i] = Item(Top.file, items[i].at) /\ Kept(Text[items[i].at], Top.transitive)
      BY <1>4 DEF Shown, ShownFrom
    <3> DEFINE k == items[i].at
    <3> HIDE DEF k
    <3>2. items[i] = Item(Top.file, k) /\ Kept(Text[k], Top.transitive)
      BY <3>1 DEF k
    <3>3. /\ items[i].file = Top.file
          /\ items[i].kind = IF Text[k].kind = "func" THEN "extern" ELSE Text[k].kind
      BY <3>2 DEF Item
    <3> QED BY <3>2, <3>3 DEF Kept
  <2> QED BY <2>1
<1>8. \A i \in 1 .. n : program[i].file[2] # name
  BY <1>2, <1>3 DEF Content, ItemsAreOver
<1>9. \A i \in 1 .. m + n : \/ i \in 1 .. m /\ program'[i] = items[i]
                            \/ i - m \in 1 .. n /\ program'[i] = program[i - m]
  BY <1>5, <1>6
<1> HIDE DEF m, n
<1>10. ItemsAreOver'
  <2>1. ASSUME NEW j \in 1 .. m + n
        PROVE  /\ program'[j].file[2] \in imported
               /\ \A i \in Activations' : ModuleOf(i)' # program'[j].file[2]
    <3>1. CASE j \in 1 .. m /\ program'[j] = items[j]
      <4>1. program'[j].file[2] = name
        BY <3>1, <1>7
      <4>2. ASSUME NEW i \in Activations'  PROVE ModuleOf(i)' # name
        <5>1. i \in Activations /\ i # Len(stack) /\ ModuleOf(i)' = ModuleOf(i)
          BY <1>0, ActivationsOfStep
        <5> QED BY <5>1, <1>0, <1>2, <1>3 DEF Calls, ActivationsDiffer
      <4> QED BY <4>1, <4>2, <1>3
    <3>2. CASE j - m \in 1 .. n /\ program'[j] = program[j - m]
      <4>1. \A i \in Activations' : i \in Activations /\ ModuleOf(i)' = ModuleOf(i)
        BY <1>0, ActivationsOfStep
      <4> QED BY <4>1, <3>2 DEF Content, ItemsAreOver, n
    <3> QED BY <3>1, <3>2, <1>9
  <2> QED BY <2>1, <1>1, <1>6 DEF ItemsAreOver
<1>11. OrderedByName'
  <2>1. ASSUME NEW i \in 1 .. m + n, NEW j \in 1 .. m + n, i < j,
               program'[i].file[2] = program'[j].file[2]
        PROVE  program'[i].at < program'[j].at
    <3>1. CASE i \in 1 .. m /\ j \in 1 .. m
      <4>1. program'[i] = items[i] /\ program'[j] = items[j]
        BY <3>1, <1>5, <1>6, <1>9
      <4> QED BY <4>1, <3>1, <2>1, <1>4 DEF Shown, ShownFrom, m
    <3>2. CASE i \in 1 .. m /\ j \notin 1 .. m
      <4>1. program'[i] = items[i] /\ j - m \in 1 .. n /\ program'[j] = program[j - m]
        BY <3>2, <1>5, <1>6, <1>9
      <4> QED BY <4>1, <3>2, <2>1, <1>7, <1>8
    <3>3. CASE i \notin 1 .. m
      <4>1. /\ i - m \in 1 .. n /\ program'[i] = program[i - m]
            /\ j - m \in 1 .. n /\ program'[j] = program[j - m]
            /\ i - m < j - m
        BY <3>3, <2>1, <1>5, <1>6, <1>9
      <4> QED BY <4>1, <2>1 DEF Content, OrderedByName, n
    <3> QED BY <3>1, <3>2, <3>3
  <2> QED BY <2>1, <1>6 DEF OrderedByName
<1>12. NothingLeaks'
  <2>1. ASSUME NEW j \in 1 .. m + n, program'[j].file[2] \notin Direct
        PROVE  program'[j].kind \in {"generic", "type"}
    <3>1. CASE j \in 1 .. m /\ program'[j] = items[j]
      BY <3>1, <2>1, <1>3, <1>7
    <3>2. CASE j - m \in 1 .. n /\ program'[j] = program[j - m]
      BY <3>2, <2>1 DEF Content, NothingLeaks, n
    <3> QED BY <3>1, <3>2, <1>9
  <2> QED BY <2>1, <1>1, <1>6 DEF NothingLeaks
<1> QED
  BY <1>0, <1>6, <1>10, <1>11, <1>12 DEF Content

LEMMA ContentStep == Content /\ [Next]_vars => Content'
<1> SUFFICES ASSUME Content, [Next]_vars  PROVE Content'
  OBVIOUS
<1>1. CASE Next
  BY <1>1, ContentKept, ContentDone
<1>2. CASE UNCHANGED vars
  <2>1. Calls'
    BY <1>2, CallsStep DEF Content
  <2> QED BY <1>2, <2>1 DEF vars, Content, ItemsAreOver, OrderedByName, NothingLeaks, Activations,
                            ModuleOf, Direct
<1> QED BY <1>1, <1>2

LEMMA ContentMeans ==
  Content => NoDefinitionTwice /\ SourceOrderKept /\ TransitiveDoesNotLeak
<1> SUFFICES ASSUME Content  PROVE NoDefinitionTwice /\ SourceOrderKept /\ TransitiveDoesNotLeak
  OBVIOUS
<1>1. /\ DOMAIN program = 1 .. Len(program) /\ Len(program) \in Nat
      /\ \A i \in 1 .. Len(program) : program[i] \in ItemType
  BY LenProperties, ElementOfSeq DEF Content
<1>2. \A i \in 1 .. Len(program) : program[i].at \in Nat
  BY <1>1, TextIndices DEF ItemType
<1>3. NoDefinitionTwice
  <2>1. ASSUME NEW i \in 1 .. Len(program), NEW j \in 1 .. Len(program), i # j,
               program[i].file[2] = program[j].file[2], program[i].at = program[j].at
        PROVE  FALSE
    <3>1. i < j \/ j < i
      BY <1>1, <2>1
    <3> QED BY <3>1, <2>1, <1>2 DEF Content, OrderedByName
  <2> QED BY <2>1, <1>1 DEF NoDefinitionTwice
<1>4. SourceOrderKept
  BY <1>1 DEF SourceOrderKept, Content, OrderedByName
<1>5. TransitiveDoesNotLeak
  BY <1>1 DEF TransitiveDoesNotLeak, Content, NothingLeaks, Range
<1> QED BY <1>3, <1>4, <1>5

\* No definition of a module enters the program twice, whatever diamonds and
\* cycles the imports form (resolver.cpp:30-33 and inject_definitions).
THEOREM DefinitionsAreUnique == Spec => []NoDefinitionTwice
BY ContentInit, ContentStep, ContentMeans, PTL DEF Spec

\* The definitions of one module are in the program in the order of its
\* source (inject_definitions walks them backwards and inserts in front).
THEOREM OrderIsKept == Spec => []SourceOrderKept
BY ContentInit, ContentStep, ContentMeans, PTL DEF Spec

\* What the program does not import by name reaches it only as generic
\* functions and exported types (resolver.cpp:117-172).
THEOREM TransitiveStaysInside == Spec => []TransitiveDoesNotLeak
BY ContentInit, ContentStep, ContentMeans, PTL DEF Spec
-----------------------------------------------------------------------------
(***************************************************************************)
(* What the program imports itself                                         *)
(***************************************************************************)

MainImports == world.imports[<<SourceDir, Main>>]

\* Resolve has led only to the names its imports so far lead to.
Reached == stack # <<>> => imported \subseteq ReachedBefore(stack[1].next)

\* A direct import of the name is active.
InProgress(n) ==
  \E k \in Activations : ~stack[k].transitive /\ stack[k].file = <<find_mn(n, SourceDir), n>>

DirectSettled ==
  \A i \in DOMAIN MainImports :
    (/\ errors = {} /\ (stack # <<>> => i < stack[1].next)
     /\ MainImports[i] \notin ReachedBefore(i))
      => Resolved(MainImports[i]) \/ InProgress(MainImports[i])

FirstReached == Content /\ Reached /\ DirectSettled

LEMMA ReachedGrows ==
  ASSUME NEW i \in Nat \ {0}
  PROVE  /\ ReachedBefore(i) \subseteq ReachedBefore(i + 1)
         /\ ReachedBefore(i) \subseteq Names
         /\ MainImports[i] \in Names => MainImports[i] \in ReachedBefore(i + 1)
<1>1. 1 .. (i - 1) \subseteq 1 .. (i + 1 - 1) /\ i \in 1 .. (i + 1 - 1)
  OBVIOUS
<1> DEFINE Start(k) == {MainImports[j] : j \in 1 .. (k - 1)}
           Closed(S) == \A f \in Files : f[2] \in S => Range(world.imports[f]) \subseteq S
<1> DEFINE m == i + 1
<1>2. Start(i) \subseteq Start(m) /\ MainImports[i] \in Start(m)
  BY <1>1
<1>3. \A k : ReachedBefore(k) =
         {n \in Names : \A S \in SUBSET Names : (Start(k) \subseteq S /\ Closed(S)) => n \in S}
  BY DEF ReachedBefore, MainImports
<1> HIDE DEF Start, Closed, m
<1>4. ReachedBefore(i) \subseteq ReachedBefore(m)
  BY <1>2, <1>3
<1>5. MainImports[i] \in Names => MainImports[i] \in ReachedBefore(m)
  BY <1>2, <1>3
<1>6. ReachedBefore(i) \subseteq Names
  BY <1>3
<1> QED BY <1>4, <1>5, <1>6 DEF m

LEMMA ReachedIsClosed ==
  ASSUME NEW i, NEW f \in Files, f[2] \in ReachedBefore(i), Range(world.imports[f]) \subseteq Names
  PROVE  Range(world.imports[f]) \subseteq ReachedBefore(i)
BY DEF ReachedBefore

\* A call of the top activation leads to nothing new but its callee.
LEMMA CalledIsReached ==
  ASSUME Calls, Reached, Calling
  PROVE  /\ stack[1].next \in Nat \ {0}
         /\ InResolve => /\ Callee = MainImports[stack[1].next]
                         /\ stack[1].next \in DOMAIN MainImports
                         /\ Advanced[1].next = stack[1].next + 1
         /\ ~InResolve => /\ Callee \in ReachedBefore(stack[1].next)
                          /\ Advanced[1].next = stack[1].next
<1>1. /\ stack # <<>> /\ Len(stack) \in Nat /\ Len(stack) >= 1
      /\ Top \in FrameType /\ Callee \in Names /\ stack \in Seq(FrameType)
  BY CalleeType DEF Calls, StackTyped
<1>2. 1 \in 1 .. Len(stack) /\ stack[1] \in FrameType /\ DOMAIN stack = 1 .. Len(stack)
  BY <1>1, ElementOfSeq, LenProperties
<1>3. stack[1].next \in Nat \ {0} /\ stack[1].file = <<SourceDir, Main>>
  BY <1>1, <1>2 DEF FrameType, Calls, DirectActivations
<1>4. ASSUME InResolve
      PROVE  /\ Callee = MainImports[stack[1].next]
             /\ stack[1].next \in DOMAIN MainImports
             /\ Advanced[1].next = stack[1].next + 1
  <2>1. Top = stack[1] /\ Len(stack) = 1
    BY <1>4 DEF InResolve, Top
  <2>2. MainImports \in Seq(Names)
    BY MainIsFile DEF MainImports, Calls, StackTyped, WorldType
  <2>3. Imports = MainImports /\ stack[1].next \in 1 .. Len(MainImports)
    BY <2>1, <2>2, <1>3 DEF Imports, MainImports, Calling
  <2>4. stack[1].next \in DOMAIN MainImports
    BY <2>2, <2>3, LenProperties
  <2>5. Advanced[1] = [stack[1] EXCEPT !.next = @ + 1]
    BY <2>1, <1>2 DEF Advanced
  <2>6. Advanced[1].next = stack[1].next + 1
    BY <2>5, <1>2 DEF FrameType
  <2> QED BY <2>1, <2>3, <2>4, <2>6 DEF Callee
<1>5. ASSUME ~InResolve
      PROVE  /\ Callee \in ReachedBefore(stack[1].next)
             /\ Advanced[1].next = stack[1].next
  <2>0. Len(stack) \in Nat /\ Len(stack) >= 1 /\ Len(stack) # 1
    BY <1>1, <1>5 DEF InResolve
  <2>1. Len(stack) \in Activations /\ Len(stack) # 1
    <3>1. PICK n \in Nat : Len(stack) = n /\ n >= 1 /\ n # 1
      BY <2>0
    <3> QED BY <3>1 DEF Activations
  <2>2. Advanced[1] = stack[1]
    BY <2>1, <1>2 DEF Advanced
  <2>3. Top.file[2] \in ReachedBefore(stack[1].next) /\ Top.file \in Files
    BY <2>1, <1>1 DEF Calls, ActivationsDiffer, ModuleOf, Top, Reached, FrameType
  <2>4. Imports \in Seq(Names)
    BY <2>3 DEF Imports, Calls, StackTyped, WorldType
  <2>5. Top.next \in DOMAIN Imports
    BY <2>4, <1>1, LenProperties DEF Calling, FrameType
  <2>6. Callee \in Range(Imports) /\ Range(Imports) \subseteq Names
    BY <2>4, <2>5, ElementOfSeq, LenProperties DEF Callee, Range
  <2>7. Range(Imports) \subseteq ReachedBefore(stack[1].next)
    BY <2>3, <2>6, ReachedIsClosed DEF Imports
  <2> QED BY <2>2, <2>6, <2>7
<1> QED BY <1>3, <1>4, <1>5
LEMMA PathTyped ==
  ASSUME NEW dir \in Dirs
  PROVE  SearchPath(dir) \in Seq(Dirs)
<1>1. <<Cwd>> \in Seq(Dirs) /\ <<dir>> \in Seq(Dirs) /\ ImportPaths \in Seq(Dirs)
  BY DirsAssumption
<1>2. (IF StdlibDir = NoDir THEN <<>> ELSE <<StdlibDir>>) \in Seq(Dirs)
  BY DirsAssumption
<1> QED BY <1>1, <1>2, ConcatProperties DEF SearchPath

\* traceLinkableArtifacts returns the artifact no other precedes.
LEMMA LinkedIsFirst ==
  ASSUME NEW name, NEW r \in Ranked(name),
         \A s \in Ranked(name) : r[1] < s[1] \/ (r[1] = s[1] /\ r[2] <= s[2])
  PROVE  LinkableArtifact(name, SourceDir) =
           <<<<SearchPath(SourceDir)[r[1]], name, Extensions[r[2]]>>>>
<1> DEFINE path == SearchPath(SourceDir)
           I == {i \in 1 .. Len(path) : \E e \in Range(Extensions) : <<path[i], name, e>> \in world.libs}
           J(d) == {j \in 1 .. Len(Extensions) : <<d, name, Extensions[j]>> \in world.libs}
<1>1. LinkableArtifact(name, SourceDir) =
        LET i == IF I # {} THEN Min(I) ELSE 0
        IN  IF i = 0 THEN <<>>
            ELSE LET j == IF J(path[i]) # {} THEN Min(J(path[i])) ELSE 0
                 IN  <<<<path[i], name, Extensions[j]>>>>
  BY DEF LinkableArtifact, SelectInSeq
<1>2. /\ path \in Seq(Dirs) /\ DOMAIN path = 1 .. Len(path) /\ Len(path) \in Nat
      /\ DOMAIN Extensions = 1 .. Len(Extensions) /\ Len(Extensions) \in Nat
  BY PathTyped, DirsAssumption, ExtensionsAssumption, LenProperties
<1> DEFINE p == r[1]
           e == r[2]
<1>3. /\ p \in 1 .. Len(path) /\ e \in 1 .. Len(Extensions)
      /\ <<path[p], name, Extensions[e]>> \in world.libs
  BY <1>2 DEF Ranked
<1>4. \A i \in 1 .. Len(path), j \in 1 .. Len(Extensions) :
        <<path[i], name, Extensions[j]>> \in world.libs => p < i \/ (p = i /\ e <= j)
  <2>1. ASSUME NEW i \in 1 .. Len(path), NEW j \in 1 .. Len(Extensions),
               <<path[i], name, Extensions[j]>> \in world.libs
        PROVE  p < i \/ (p = i /\ e <= j)
    <3>1. <<i, j>> \in Ranked(name)
      BY <1>2, <2>1 DEF Ranked
    <3> QED BY <3>1
  <2> QED BY <2>1
<1> HIDE DEF p, e, path
<1>5. p \in I /\ \A i \in I : p <= i
  <2>1. p \in I
    BY <1>2, <1>3 DEF Range
  <2>2. ASSUME NEW i \in I  PROVE p <= i
    <3>1. PICK x \in Range(Extensions) : <<path[i], name, x>> \in world.libs
      OBVIOUS
    <3>2. PICK j \in 1 .. Len(Extensions) : x = Extensions[j]
      BY <1>2 DEF Range
    <3>3. p < i \/ p = i
      BY <1>4, <3>1, <3>2
    <3> QED BY <3>3, <1>3
  <2> QED BY <2>1, <2>2
<1>6. I \in SUBSET Nat /\ I # {}
  BY <1>5
<1> HIDE DEF I
<1>7. Min(I) = p
  BY <1>5, <1>6, MinIs
<1>8. e \in J(path[p]) /\ \A j \in J(path[p]) : e <= j
  BY <1>3, <1>4
<1>9. J(path[p]) \in SUBSET Nat /\ J(path[p]) # {}
  BY <1>8
<1> HIDE DEF J
<1>10. Min(J(path[p])) = e
  BY <1>8, <1>9, MinIs
<1>11. p # 0
  BY <1>3
<1>12. LinkableArtifact(name, SourceDir) = <<<<path[p], name, Extensions[e]>>>>
  BY <1>1, <1>6, <1>7, <1>9, <1>10, <1>11
<1> QED BY <1>12 DEF p, e, path
LEMMA WorldStays ==
  ASSUME world' = world
  PROVE  /\ MainImports' = MainImports
         /\ \A i : ReachedBefore(i)' = ReachedBefore(i)
         /\ \A n : find_mn(n, SourceDir)' = find_mn(n, SourceDir)
         /\ \A n : Ranked(n)' = Ranked(n)
<1>1. MainImports' = MainImports
  BY DEF MainImports
<1>2. \A i : ReachedBefore(i)' = ReachedBefore(i)
  BY DEF ReachedBefore
<1>3. \A n : find_mn(n, SourceDir)' = find_mn(n, SourceDir)
  BY DEF find_mn, SelectInSeq
<1>4. \A n : Ranked(n)' = Ranked(n)
  BY DEF Ranked
<1> QED BY <1>1, <1>2, <1>3, <1>4

\* What is resolved stays so.
LEMMA ResolvedIsKept ==
  ASSUME world' = world, Range(program) \subseteq Range(program'),
         Range(artifacts) \subseteq Range(artifacts'), NEW n, Resolved(n)
  PROVE  Resolved(n)'
<1>1. find_mn(n, SourceDir)' = find_mn(n, SourceDir) /\ Ranked(n)' = Ranked(n)
  BY WorldStays
<1>2. BestLinked(n)'
  BY <1>1 DEF BestLinked, Resolved
<1> QED BY <1>1, <1>2 DEF Resolved

\* A direct import that is over is resolved.
LEMMA ResolvedAtEnd ==
  ASSUME Content, ModuleDone, NEW n, ~Top.transitive, Top.file = <<find_mn(n, SourceDir), n>>
  PROVE  Resolved(n)'
<1>0. Calls /\ program \in Seq(ItemType) /\ artifacts \in Seq(Range(artifacts))
  BY DEF Content, Calls, StackTyped
<1>1. /\ world' = world /\ program' = inject_definitions(Top.file, Top.transitive)
      /\ artifacts' = artifacts \o LinkableArtifact(n, SourceDir)
  BY DEF ModuleDone
<1>2. Top.file \in Files
  <2>1. Len(stack) \in Activations /\ Len(stack) \in 1 .. Len(stack) /\ stack \in Seq(FrameType)
    BY <1>0, ActivationsOfStep DEF Calls, StackTyped, Activations
  <2>2. Top \in FrameType
    BY <2>1, ElementOfSeq DEF Top
  <2> QED BY <2>2 DEF FrameType
<1> DEFINE dir == find_mn(n, SourceDir)
<1>3. dir # NoDir
  BY <1>2, DirsAssumption DEF Files
<1>4. /\ dir' = dir /\ Ranked(n)' = Ranked(n)
  BY <1>1, WorldStays
<1> HIDE DEF dir
<1>5. PICK items : Shown(Top.file, Top.transitive, items) /\ program' = items \o program
  BY <1>0, <1>1, <1>2, Injected
<1>6. ASSUME NEW i \in DOMAIN Text, Text[i].exported \/ Text[i].kind \in {"generic", "class"}
      PROVE  Item(<<dir, n>>, i) \in Range(program')
  <2>1. Text[i] \in [kind : Kinds, exported : BOOLEAN]
    BY TextAssumption, TextIndices, ElementOfSeq
  <2>2. Kept(Text[i], Top.transitive)
    BY <2>1, <1>6 DEF Kept, Kinds
  <2>3. i >= 1
    BY TextIndices
  <2>4. PICK j \in 1 .. Len(items) : items[j] = Item(<<dir, n>>, i)
    BY <2>2, <2>3, <1>5 DEF Shown, ShownFrom, dir
  <2>5. items \in Seq(ItemType)
    BY <1>5 DEF Shown, ShownFrom
  <2>6. j \in DOMAIN (items \o program) /\ (items \o program)[j] = items[j]
    BY <2>5, <1>0, ConcatProperties, LenProperties
  <2> QED BY <2>4, <2>6, <1>5 DEF Range
<1>7. BestLinked(n)'
  <2>1. ASSUME NEW r \in Ranked(n),
               \A s \in Ranked(n) : r[1] < s[1] \/ (r[1] = s[1] /\ r[2] <= s[2])
        PROVE  <<SearchPath(SourceDir)[r[1]], n, Extensions[r[2]]>> \in Range(artifacts')
    <3> DEFINE x == <<SearchPath(SourceDir)[r[1]], n, Extensions[r[2]]>>
    <3>1. LinkableArtifact(n, SourceDir) = <<x>>
      BY <2>1, LinkedIsFirst
    <3> HIDE DEF x
    <3>2. <<x>> \in Seq(Range(<<x>>)) /\ x \in Range(<<x>>)
      BY DEF Range
    <3>3. x \in Range(artifacts')
      BY <3>1, <3>2, <1>0, <1>1, ConcatRange
    <3> QED BY <3>3 DEF x
  <2> QED BY <2>1, <1>4 DEF BestLinked
<1> QED BY <1>3, <1>4, <1>6, <1>7 DEF Resolved, dir

LEMMA RangeOfMore ==
  ASSUME NEW S, NEW s \in Seq(S), NEW t \in Seq(S)
  PROVE  Range(s) \subseteq Range(t \o s) /\ Range(s) \subseteq Range(s \o t)
<1>1. /\ Len(s) \in Nat /\ Len(t) \in Nat /\ DOMAIN s = 1 .. Len(s)
      /\ s \o t \in Seq(S) /\ Len(s \o t) = Len(s) + Len(t)
      /\ t \o s \in Seq(S) /\ Len(t \o s) = Len(s) + Len(t)
  BY ConcatProperties, LenProperties
<1>2. DOMAIN (s \o t) = 1 .. Len(s) + Len(t) /\ DOMAIN (t \o s) = 1 .. Len(s) + Len(t)
  BY <1>1, LenProperties
<1>3. ASSUME NEW x \in Range(s)  PROVE x \in Range(t \o s) /\ x \in Range(s \o t)
  <2>1. PICK i \in 1 .. Len(s) : x = s[i]
    BY <1>1 DEF Range
  <2>2. (s \o t)[i] = x /\ i \in 1 .. Len(s) + Len(t)
    BY <1>1, <2>1, ConcatProperties
  <2>3. /\ Len(t) + i \in 1 .. Len(s) + Len(t) /\ Len(t) + i \in 1 .. Len(t) + Len(s)
        /\ ~(Len(t) + i <= Len(t)) /\ Len(t) + i - Len(t) = i
    BY <1>1
  <2> DEFINE k == Len(t) + i
  <2>4. (t \o s)[k] = IF k <= Len(t) THEN t[k] ELSE s[k - Len(t)]
    BY <2>3, ConcatProperties
  <2>5. (t \o s)[k] = x
    BY <2>1, <2>3, <2>4
  <2> HIDE DEF k
  <2>6. k \in 1 .. Len(s) + Len(t)
    BY <2>3 DEF k
  <2> QED BY <2>2, <2>5, <2>6, <1>2 DEF Range
<1> QED BY <1>3
\* Nothing that was brought in goes away.
LEMMA NothingGoes ==
  ASSUME Content, Next
  PROVE  /\ world' = world /\ errors \subseteq errors'
         /\ Range(program) \subseteq Range(program')
         /\ Range(artifacts) \subseteq Range(artifacts')
<1>1. world' = world /\ errors \subseteq errors'
  BY DEF Next, AlreadyImported, ModuleMissing, ModuleBroken, ModuleEntered, ModuleDone,
         ResolveReturns
<1>2. CASE ~ModuleDone
  <2>1. program' = program /\ artifacts' = artifacts
    BY <1>2 DEF Next, AlreadyImported, ModuleMissing, ModuleBroken, ModuleEntered, ResolveReturns
  <2> QED BY <1>1, <2>1
<1>3. CASE ModuleDone
  <2>0. Calls /\ program \in Seq(ItemType) /\ artifacts \in Seq(Range(artifacts))
    BY DEF Content, Calls, StackTyped
  <2>1. Len(stack) \in Activations /\ Len(stack) \in 1 .. Len(stack) /\ stack \in Seq(FrameType)
    BY <1>3, <2>0, ActivationsOfStep DEF Calls, StackTyped, Activations
  <2>2. Top \in FrameType
    BY <2>1, ElementOfSeq DEF Top
  <2>3. PICK items : /\ Shown(Top.file, Top.transitive, items)
                     /\ program' = items \o program
    BY <1>3, <2>0, <2>2, Injected DEF FrameType, ModuleDone
  <2>4. Range(program) \subseteq Range(program')
    BY <2>0, <2>3, RangeOfMore DEF Shown, ShownFrom
  <2> DEFINE more == LinkableArtifact(Top.file[2], SourceDir)
  <2>5. artifacts' = artifacts \/ artifacts' = artifacts \o more
    BY <1>3 DEF ModuleDone
  <2>6. more \in Seq(Range(more))
    BY ArtifactName
  <2> HIDE DEF more
  <2>7. Range(artifacts) \subseteq Range(artifacts')
    BY <2>0, <2>5, <2>6, ConcatRange
  <2> QED BY <1>1, <2>4, <2>7
<1> QED BY <1>2, <1>3

LEMMA FirstReachedInit == Init => FirstReached
<1> SUFFICES ASSUME Init  PROVE FirstReached
  OBVIOUS
<1>1. Content /\ Calls
  BY ContentInit DEF Content
<1>2. imported = {} /\ stack # <<>> /\ stack[1].next = 1
  BY DEF Init
<1>3. Reached
  BY <1>2 DEF Reached
<1>4. MainImports \in Seq(Names)
  BY <1>1, MainIsFile DEF MainImports, Calls, StackTyped, WorldType
<1>5. \A i \in DOMAIN MainImports : ~(i < 1)
  BY <1>4, LenProperties
<1>6. DirectSettled
  BY <1>2, <1>5 DEF DirectSettled
<1> QED BY <1>1, <1>3, <1>6 DEF FirstReached

\* A call of the loop of the top activation.
LEMMA CallReaches ==
  ASSUME Calls, Reached, Calling, world' = world, imported' \in {imported, Marked},
         stack'[1].next = Advanced[1].next
  PROVE  Reached'
<1> DEFINE n == stack[1].next
           m == n + 1
<1>1. imported \subseteq ReachedBefore(n) /\ Callee \in Names
  BY CalleeType DEF Reached
<1>2. n \in Nat \ {0} /\ \A i : ReachedBefore(i)' = ReachedBefore(i)
  BY CalledIsReached, WorldStays
<1>3. CASE InResolve
  <2>1. Callee = MainImports[n] /\ stack'[1].next = m
    BY <1>3, CalledIsReached
  <2>2. ReachedBefore(n) \subseteq ReachedBefore(m) /\ Callee \in ReachedBefore(m)
    BY <1>1, <1>2, <2>1, ReachedGrows
  <2> HIDE DEF n, m
  <2>3. imported' \subseteq ReachedBefore(m)
    BY <1>1, <2>2 DEF Marked
  <2> QED BY <1>2, <2>1, <2>3 DEF Reached
<1>4. CASE ~InResolve
  <2>1. Callee \in ReachedBefore(n) /\ stack'[1].next = n
    BY <1>4, CalledIsReached
  <2> HIDE DEF n
  <2>2. imported' \subseteq ReachedBefore(n)
    BY <1>1, <2>1 DEF Marked
  <2> QED BY <1>2, <2>1, <2>2 DEF Reached
<1> QED BY <1>3, <1>4

\* Direct imports that are active stay so, but for the one that ends.
LEMMA InProgressStays ==
  ASSUME Calls, Next, NEW n, InProgress(n)
  PROVE  \/ InProgress(n)'
         \/ ModuleDone /\ ~Top.transitive /\ Top.file = <<find_mn(n, SourceDir), n>>
<1>0. world' = world
  BY DEF Next, AlreadyImported, ModuleMissing, ModuleBroken, ModuleEntered, ModuleDone,
         ResolveReturns
<1>1. PICK k \in Activations : /\ ~stack[k].transitive
                               /\ stack[k].file = <<find_mn(n, SourceDir), n>>
  BY DEF InProgress
<1>2. PICK m \in Nat : Len(stack) = m /\ stack \in Seq(FrameType)
  BY LenProperties DEF Calls, StackTyped
<1>3. k \in 2 .. m /\ k \in 1 .. m
  BY <1>1, <1>2 DEF Activations
<1>4. ASSUME Len(stack') \in Nat, Len(stack') >= k, stack'[k].file = stack[k].file,
             stack'[k].transitive = stack[k].transitive
      PROVE  InProgress(n)'
  <2>1. k \in Activations'
    BY <1>3, <1>4 DEF Activations
  <2>2. find_mn(n, SourceDir)' = find_mn(n, SourceDir)
    BY <1>0, WorldStays
  <2> QED BY <1>1, <1>4, <2>1, <2>2 DEF InProgress
<1>5. CASE AlreadyImported \/ ModuleMissing \/ ModuleBroken
  <2>1. Calling /\ stack' = Advanced
    BY <1>5 DEF AlreadyImported, ModuleMissing, ModuleBroken
  <2>2. /\ Len(stack') \in Nat /\ Len(stack') >= k
        /\ stack'[k].file = stack[k].file /\ stack'[k].transitive = stack[k].transitive
    BY <1>2, <1>3, <2>1, AdvancedStack
  <2> QED BY <1>4, <2>2
<1>6. CASE ModuleEntered
  <2> DEFINE g == [file |-> CalleeFile, transitive |-> CalledTransitively, next |-> 1]
  <2>1. Calling /\ stack' = Append(Advanced, g) /\ CalleeFile \in world.files
    BY <1>6 DEF ModuleEntered
  <2>2. g \in FrameType
    BY <2>1 DEF FrameType, Calls, StackTyped, WorldType, CalledTransitively, InResolve
  <2> HIDE DEF g
  <2>3. /\ Len(stack') = m + 1 /\ \A i \in 1 .. m : stack'[i] = Advanced[i]
        /\ \A i \in 1 .. m : /\ Advanced[i].file = stack[i].file
                             /\ Advanced[i].transitive = stack[i].transitive
    BY <1>2, <2>1, <2>2, AdvancedStack, AppendToSeq
  <2>4. Len(stack') \in Nat /\ Len(stack') >= k
    BY <1>3, <2>3
  <2> QED BY <1>3, <1>4, <2>3, <2>4
<1>7. CASE ModuleDone
  <2>1. CASE k = Len(stack)
    BY <2>1, <1>1, <1>7 DEF Top
  <2>2. CASE k # Len(stack)
    <3>1. /\ m - 1 \in Nat /\ Len(stack) = m - 1 + 1 /\ k \in 1 .. m - 1 /\ m - 1 >= k
      BY <1>2, <1>3, <2>2
    <3>2. Len(stack') = m - 1 /\ \A i \in 1 .. m - 1 : stack'[i] = stack[i]
      BY <1>2, <1>7, <3>1, FrontOfSeq DEF ModuleDone
    <3> QED BY <1>4, <3>1, <3>2
  <2> QED BY <2>1, <2>2
<1>8. CASE ResolveReturns
  BY <1>2, <1>3, <1>8 DEF ResolveReturns, InResolve
<1> QED BY <1>5, <1>6, <1>7, <1>8 DEF Next
\* A call of Resolve itself with a name nothing led to before brings the
\* module in, or queues an error.
LEMMA DirectCallSettles ==
  ASSUME Calls, Reached, Next, ~ModuleDone, ~ResolveReturns, InResolve, errors' = {},
         NEW n, n = Callee, n \notin ReachedBefore(stack[1].next)
  PROVE  InProgress(n)'
<1>1. Calling /\ stack # <<>> /\ Callee \notin imported
  BY DEF Reached, Next, AlreadyImported, ModuleMissing, ModuleBroken, ModuleEntered, Calling
<1>2. ModuleEntered
  <2>1. ~CalledTransitively
    BY DEF CalledTransitively
  <2>2. <<"missing", Callee>> \in {x \in {<<"missing", Callee>>} : ~CalledTransitively}
    BY <2>1
  <2>3. ModuleMissing => errors' # {}
    BY <2>2 DEF ModuleMissing
  <2>4. ModuleBroken => errors' # {}
    BY DEF ModuleBroken
  <2> QED BY <1>1, <2>3, <2>4 DEF Next, AlreadyImported
<1> DEFINE g == [file |-> CalleeFile, transitive |-> CalledTransitively, next |-> 1]
<1>3. /\ stack' = Append(Advanced, g) /\ CalleeFile \in world.files /\ world' = world
  BY <1>2 DEF ModuleEntered
<1>4. g \in FrameType /\ ~g.transitive /\ g.file = CalleeFile
  <2>1. CalledTransitively = FALSE
    BY DEF CalledTransitively
  <2>2. g = [file |-> CalleeFile, transitive |-> FALSE, next |-> 1]
    BY <2>1
  <2>3. CalleeFile \in Files
    BY <1>3 DEF Calls, StackTyped, WorldType
  <2> HIDE DEF g
  <2> QED BY <2>2, <2>3 DEF FrameType
<1> HIDE DEF g
<1>5. Len(stack) = 1
  BY DEF InResolve
<1>6. Len(stack') = 2 /\ stack'[2] = g
  <2>1. PICK s \in Seq(FrameType) : s = Advanced /\ Len(s) = 1
    BY <1>1, <1>5, AdvancedStack
  <2>2. /\ Len(Append(s, g)) = Len(s) + 1
        /\ Append(s, g)[Len(s) + 1] = g
    BY <1>4, AppendToSeq
  <2> QED BY <1>3, <2>1, <2>2
<1>7. Top.file[1] = SourceDir
  BY <1>1, <1>5 DEF Top, Calls, DirectActivations
<1>8. g.file = <<find_mn(n, SourceDir), n>>
  BY <1>4, <1>7 DEF CalleeFile, CalleeDir
<1>9. find_mn(n, SourceDir)' = find_mn(n, SourceDir)
  BY <1>3, WorldStays
<1>10. 2 \in Activations'
  BY <1>6 DEF Activations
<1> QED BY <1>4, <1>6, <1>8, <1>9, <1>10 DEF InProgress

LEMMA SettledNext ==
  ASSUME MainImports' = MainImports, \A i : ReachedBefore(i)' = ReachedBefore(i),
         ASSUME NEW i \in DOMAIN MainImports, errors' = {}, stack' # <<>> => i < stack'[1].next,
                MainImports[i] \notin ReachedBefore(i)
         PROVE  \A n : n = MainImports[i] => Resolved(n)' \/ InProgress(n)'
  PROVE  DirectSettled'
<1> SUFFICES ASSUME NEW i \in DOMAIN MainImports, errors' = {},
                    stack' # <<>> => i < stack'[1].next, MainImports[i] \notin ReachedBefore(i)
             PROVE  Resolved(MainImports[i])' \/ InProgress(MainImports[i])'
  BY DEF DirectSettled
<1>1. PICK n : n = MainImports[i]
  OBVIOUS
<1>2. Resolved(n)' \/ InProgress(n)'
  BY <1>1
<1>3. Resolved(MainImports[i])' = Resolved(n)' /\ InProgress(MainImports[i])' = InProgress(n)'
  BY <1>1 DEF Resolved, InProgress, BestLinked, Ranked
<1> QED BY <1>2, <1>3

LEMMA FirstReachedStep == FirstReached /\ [Next]_vars => FirstReached'
<1> SUFFICES ASSUME FirstReached, [Next]_vars  PROVE FirstReached'
  OBVIOUS
<1>0. Content /\ Content' /\ Calls /\ Reached /\ DirectSettled
  BY ContentStep DEF FirstReached, Content
<1>1. CASE UNCHANGED vars
  <2>1. world' = world /\ stack' = stack /\ imported' = imported /\ errors' = errors
        /\ program' = program /\ artifacts' = artifacts
    BY <1>1 DEF vars
  <2>2. Reached'
    BY <2>1, <1>0, WorldStays DEF Reached
  <2>3. /\ MainImports' = MainImports /\ \A i : ReachedBefore(i)' = ReachedBefore(i)
    BY <2>1, WorldStays
  <2>4. ASSUME NEW n, InProgress(n)  PROVE InProgress(n)'
    <3>1. find_mn(n, SourceDir)' = find_mn(n, SourceDir)
      BY <2>1, WorldStays
    <3> QED BY <2>1, <2>4, <3>1 DEF InProgress, Activations
  <2>5. ASSUME NEW n, Resolved(n)  PROVE Resolved(n)'
    BY <2>1, <2>5, ResolvedIsKept
  <2>6. ASSUME NEW i \in DOMAIN MainImports, errors = {}, stack # <<>> => i < stack[1].next,
               MainImports[i] \notin ReachedBefore(i)
        PROVE  \A n : n = MainImports[i] => Resolved(n)' \/ InProgress(n)'
    <3>1. Resolved(MainImports[i]) \/ InProgress(MainImports[i])
      BY <2>6, <1>0 DEF DirectSettled
    <3> QED BY <3>1, <2>4, <2>5
  <2>7. DirectSettled'
    BY <2>1, <2>3, <2>6, SettledNext
  <2> QED BY <1>0, <2>2, <2>7 DEF FirstReached
<1>2. CASE Next
  <2>0. /\ world' = world /\ errors \subseteq errors'
        /\ MainImports' = MainImports /\ \A i : ReachedBefore(i)' = ReachedBefore(i)
    BY <1>0, <1>2, NothingGoes, WorldStays
  <2>1. ASSUME Calling, ~ModuleDone, ~ResolveReturns
        PROVE  stack'[1].next = Advanced[1].next /\ imported' \in {imported, Marked} /\ stack' # <<>>
    <3>1. CASE ModuleEntered
      <4> DEFINE g == [file |-> CalleeFile, transitive |-> CalledTransitively, next |-> 1]
      <4>1. stack' = Append(Advanced, g) /\ CalleeFile \in world.files /\ imported' = Marked
        BY <3>1 DEF ModuleEntered
      <4>2. g \in FrameType
        BY <4>1, <1>0 DEF FrameType, Calls, StackTyped, WorldType, CalledTransitively, InResolve
      <4> HIDE DEF g
      <4>3. Len(stack) \in Nat /\ Len(stack) >= 1
        BY <1>0, <2>1, CalleeType
      <4>4. Len(stack') = Len(stack) + 1 /\ stack'[1] = Advanced[1]
        BY <1>0, <2>1, <4>1, <4>2, <4>3, AdvancedStack, AppendToSeq
      <4> QED BY <4>1, <4>3, <4>4
    <3>2. CASE ~ModuleEntered
      <4>1. stack' = Advanced /\ imported' \in {imported, Marked}
        BY <3>2, <2>1, <1>2 DEF Next, AlreadyImported, ModuleMissing, ModuleBroken
      <4>2. Len(Advanced) = Len(stack) /\ Len(stack) \in Nat /\ Len(stack) >= 1
        BY <1>0, <2>1, AdvancedStack, CalleeType
      <4> QED BY <4>1, <4>2
    <3> QED BY <3>1, <3>2
  <2>2. ~ModuleDone /\ ~ResolveReturns => Calling
    BY <1>2 DEF Next, AlreadyImported, ModuleMissing, ModuleBroken, ModuleEntered
  <2>3. ASSUME ModuleDone
        PROVE  stack' # <<>> => stack'[1].next = stack[1].next
    <3>1. stack # <<>> /\ stack' = Front(stack) /\ stack \in Seq(FrameType)
      BY <2>3, <1>0 DEF ModuleDone, Calls, StackTyped
    <3>2. PICK n \in Nat : Len(stack) = n + 1
      BY <3>1, NonEmptySeq
    <3>3. /\ stack' \in Seq(FrameType) /\ Len(stack') = n
          /\ \A i \in 1 .. n : stack'[i] = stack[i]
      BY <3>1, <3>2, FrontOfSeq
    <3>4. stack' # <<>> => 1 \in 1 .. n
      BY <3>3, EmptySeq
    <3> QED BY <3>3, <3>4
  <2>4. Reached'
    <3>1. CASE ~ModuleDone /\ ~ResolveReturns
      BY <3>1, <1>0, <2>0, <2>1, <2>2, CallReaches
    <3>2. CASE ModuleDone
      <4>1. imported' = imported /\ stack # <<>>
        BY <3>2 DEF ModuleDone
      <4> QED BY <3>2, <4>1, <1>0, <2>0, <2>3 DEF Reached
    <3>3. CASE ResolveReturns
      BY <3>3 DEF ResolveReturns, Reached
    <3> QED BY <3>1, <3>2, <3>3
  <2>5. ASSUME NEW i \in DOMAIN MainImports, errors' = {}, stack' # <<>> => i < stack'[1].next,
               MainImports[i] \notin ReachedBefore(i)
        PROVE  \A n : n = MainImports[i] => Resolved(n)' \/ InProgress(n)'
    <3> SUFFICES ASSUME NEW n, n = MainImports[i]  PROVE Resolved(n)' \/ InProgress(n)'
      OBVIOUS
    <3>1. errors = {} /\ i \in Nat
      <4>1. MainImports \in Seq(Names)
        BY <1>0, MainIsFile DEF MainImports, Calls, StackTyped, WorldType
      <4> QED BY <4>1, <2>0, <2>5, LenProperties
    <3>2. ASSUME stack # <<>> => i < stack[1].next
          PROVE  Resolved(n)' \/ InProgress(n)'
      <4>1. Resolved(n) \/ InProgress(n)
        BY <3>1, <3>2, <2>5, <1>0 DEF DirectSettled
      <4>2. ASSUME Resolved(n)  PROVE Resolved(n)'
        BY <4>2, <1>0, <1>2, NothingGoes, ResolvedIsKept
      <4>3. ASSUME InProgress(n)  PROVE Resolved(n)' \/ InProgress(n)'
        BY <4>3, <1>0, <1>2, InProgressStays, ResolvedAtEnd
      <4> QED BY <4>1, <4>2, <4>3
    <3>3. ASSUME stack # <<>>, ~(i < stack[1].next)  PROVE InProgress(n)'
      <4>1. CASE ~ModuleDone /\ ~ResolveReturns
        <5>1. Calling /\ stack'[1].next = Advanced[1].next /\ stack' # <<>>
          BY <4>1, <2>1, <2>2
        <5>2. stack[1].next \in Nat
          BY <1>0, <5>1, CalledIsReached
        <5>3. CASE ~InResolve
          BY <5>1, <5>3, <1>0, <2>5, <3>3, CalledIsReached
        <5>4. CASE InResolve
          <6>1. Callee = MainImports[stack[1].next] /\ stack'[1].next = stack[1].next + 1
            BY <5>1, <5>4, <1>0, CalledIsReached
          <6>2. i = stack[1].next
            BY <6>1, <5>1, <5>2, <3>1, <3>3, <2>5
          <6>3. Callee = n /\ Callee \notin ReachedBefore(stack[1].next)
            BY <6>1, <6>2, <2>5
          <6> QED BY <6>3, <4>1, <5>4, <1>0, <1>2, <2>5, DirectCallSettles
        <5> QED BY <5>3, <5>4
      <4>2. CASE ModuleDone
        <5>1. PICK m \in Nat : Len(stack) = m + 1 /\ stack' = Front(stack) /\ ~InResolve
          BY <4>2, <1>0, NonEmptySeq DEF ModuleDone, Calls, StackTyped
        <5>2. Len(stack') = m /\ m # 0
          BY <5>1, <1>0, FrontOfSeq DEF Calls, StackTyped, InResolve
        <5>3. stack' # <<>>
          BY <5>2
        <5> QED BY <5>3, <4>2, <2>3, <2>5, <3>3
      <4>3. CASE ResolveReturns
        <5>1. Len(stack) = 1 /\ ~Calling
          BY <4>3 DEF ResolveReturns, InResolve
        <5>2. Top = stack[1] /\ Top.file = <<SourceDir, Main>> /\ Top \in FrameType
          BY <5>1, <3>3, <1>0, ElementOfSeq DEF Top, Calls, DirectActivations, StackTyped
        <5>3. Imports = MainImports /\ MainImports \in Seq(Names)
          BY <5>2, <1>0, MainIsFile DEF Imports, MainImports, Calls, StackTyped, WorldType
        <5>4. ~(Top.next <= Len(MainImports))
          BY <5>1, <5>3, <3>1, <3>3 DEF Calling
        <5>5. i \in 1 .. Len(MainImports) /\ Len(MainImports) \in Nat /\ Top.next \in Nat
          BY <5>2, <5>3, LenProperties DEF FrameType
        <5> QED BY <5>2, <5>4, <5>5, <3>3
      <4> QED BY <4>1, <4>2, <4>3
    <3> QED BY <3>2, <3>3
  <2>6. DirectSettled'
    BY <2>0, <2>5, SettledNext
  <2> QED BY <1>0, <2>4, <2>6 DEF FirstReached
<1> QED BY <1>1, <1>2

LEMMA FirstReachedMeans == FirstReached => FirstReachedIsResolved
<1> SUFFICES ASSUME FirstReached, Done, errors = {},
                    NEW i \in DOMAIN world.imports[<<SourceDir, Main>>],
                    world.imports[<<SourceDir, Main>>][i] \notin ReachedBefore(i)
             PROVE  Resolved(world.imports[<<SourceDir, Main>>][i])
  BY DEF FirstReachedIsResolved
<1>1. stack = <<>>
  BY DEF Done
<1>2. Activations = {}
  <2>1. Len(stack) = 0 /\ 2 .. 0 = {}
    BY <1>1
  <2> QED BY <2>1 DEF Activations
<1>3. ~InProgress(MainImports[i])
  BY <1>2 DEF InProgress
<1>4. Resolved(MainImports[i]) \/ InProgress(MainImports[i])
  BY <1>1 DEF FirstReached, DirectSettled, MainImports
<1> QED BY <1>3, <1>4 DEF MainImports

\* When Resolve ends without an error, an import of the program that no
\* earlier one leads to is there in full: every definition it shows its
\* importer, from the file the search path of the main file leads to, and the
\* artifact the search prefers (resolver.cpp:15-172).
THEOREM FirstReachedAreResolved == Spec => []FirstReachedIsResolved
BY FirstReachedInit, FirstReachedStep, FirstReachedMeans, PTL DEF Spec

-----------------------------------------------------------------------------
(* The stage runs out of steps *)

\* Names not met yet, and the imports the innermost call has left.
Unmarked == Cardinality(Names \ imported)
Left == IF stack = <<>> THEN 0 ELSE (Len(Imports) + 1) - Top.next

Counted == Unmarked \in Nat /\ Len(stack) \in Nat /\ Left \in Nat

\* Fewer names to meet, or fewer calls open, or fewer imports left.
Nearer ==
  \/ Unmarked' < Unmarked
  \/ Unmarked' = Unmarked /\ Len(stack') < Len(stack)
  \/ Unmarked' = Unmarked /\ Len(stack') = Len(stack) /\ Left' < Left

WithinImports ==
  /\ Calls
  /\ \A i \in 1 .. Len(stack) : stack[i].next <= Len(world.imports[stack[i].file]) + 1

LEMMA ImportsTyped ==
  ASSUME Calls, NEW i \in 1 .. Len(stack)
  PROVE  /\ stack[i] \in FrameType /\ stack[i].next \in Nat
         /\ Len(world.imports[stack[i].file]) \in Nat
<1>1. stack \in Seq(FrameType) /\ world \in WorldType
  BY DEF Calls, StackTyped
<1>2. stack[i] \in FrameType
  BY <1>1, ElementOfSeq
<1>3. world.imports[stack[i].file] \in Seq(Names)
  BY <1>1, <1>2 DEF FrameType, WorldType
<1> QED BY <1>2, <1>3, LenProperties DEF FrameType

\* A call that returns uses up one import of its caller.
LEMMA AdvancedTop ==
  ASSUME Calls, Calling
  PROVE  /\ Advanced[Len(stack)].next = Top.next + 1
         /\ \A i \in 1 .. Len(stack) : i # Len(stack) => Advanced[i] = stack[i]
<1>1. Len(stack) \in Nat /\ Len(stack) >= 1 /\ stack \in Seq(FrameType)
  BY CalleeType DEF Calls, StackTyped
<1> DEFINE g == [stack[Len(stack)] EXCEPT !.next = @ + 1]
<1>2. stack[Len(stack)] \in FrameType
  BY <1>1, ImportsTyped
<1>3. g \in FrameType /\ g.next = Top.next + 1
  BY <1>2 DEF FrameType, Top
<1>4. Advanced = [stack EXCEPT ![Len(stack)] = g] /\ Len(stack) \in 1 .. Len(stack)
  BY <1>1 DEF Advanced
<1> HIDE DEF g
<1>5. \A i \in 1 .. Len(stack) : Advanced[i] = IF i = Len(stack) THEN g ELSE stack[i]
  BY <1>1, <1>3, <1>4, ExceptSeq
<1> QED BY <1>1, <1>3, <1>4, <1>5

LEMMA WithinNow == WithinImports => Counted
<1> SUFFICES ASSUME WithinImports PROVE Counted
  OBVIOUS
<1>1. Unmarked \in Nat
  BY NamesAssumption, FS_Subset, FS_CardinalityType DEF Unmarked
<1>2. stack \in Seq(FrameType) /\ Len(stack) \in Nat
  BY DEF WithinImports, Calls, StackTyped
<1>3. CASE stack # <<>>
  <2>1. Len(stack) \in 1 .. Len(stack)
    BY <1>2, <1>3, EmptySeq
  <2>2. Top.next \in Nat /\ Len(Imports) \in Nat /\ Top.next <= Len(Imports) + 1
    BY <2>1, ImportsTyped DEF WithinImports, Top, Imports
  <2> QED BY <1>1, <1>2, <1>3, <2>2 DEF Counted, Left
<1>4. CASE stack = <<>>
  BY <1>1, <1>2, <1>4 DEF Counted, Left
<1> QED BY <1>3, <1>4

LEMMA WithinInit == Init => WithinImports
<1> SUFFICES ASSUME Init PROVE WithinImports
  OBVIOUS
<1>1. Calls
  BY CallsInit
<1>2. Len(stack) = 1 /\ stack[1].next = 1
  BY DEF Init
<1>3. ASSUME NEW i \in 1 .. Len(stack)
      PROVE  stack[i].next <= Len(world.imports[stack[i].file]) + 1
  <2>1. i = 1
    BY <1>2
  <2>2. Len(world.imports[stack[i].file]) \in Nat
    BY <1>1, ImportsTyped
  <2> QED BY <1>2, <2>1, <2>2
<1> QED BY <1>1, <1>3 DEF WithinImports

LEMMA MarkedIsFewer ==
  ASSUME Calls, Calling, Callee \notin imported, imported' = Marked
  PROVE  Unmarked' < Unmarked
<1>1. Callee \in Names \ imported /\ IsFiniteSet(Names \ imported)
  BY CalleeType, NamesAssumption, FS_Subset
<1>2. Names \ imported' = (Names \ imported) \ {Callee}
  BY DEF Marked
<1>3. Cardinality((Names \ imported) \ {Callee}) = Cardinality(Names \ imported) - 1
  BY <1>1, FS_RemoveElement
<1>4. Cardinality(Names \ imported) \in Nat
  BY <1>1, FS_CardinalityType
<1> QED BY <1>2, <1>3, <1>4 DEF Unmarked

\* Calls that return at once.
LEMMA ReturnIsNearer ==
  ASSUME WithinImports, AlreadyImported \/ ModuleMissing \/ ModuleBroken
  PROVE  WithinImports' /\ Nearer
<1>1. Calls /\ Calls' /\ Calling /\ stack' = Advanced /\ world' = world
  BY CallsStep DEF WithinImports, Next, AlreadyImported, ModuleMissing, ModuleBroken
<1> DEFINE n == Len(stack)
<1>2. n \in Nat /\ n \in 1 .. n /\ Len(stack') = n /\ stack # <<>> /\ stack' # <<>>
  BY <1>1, CalleeType, AdvancedStack, EmptySeq DEF Calling
<1>3. /\ \A i \in 1 .. n : stack'[i].file = stack[i].file
      /\ stack'[n].next = stack[n].next + 1
      /\ \A i \in 1 .. n : i # n => stack'[i] = stack[i]
  BY <1>1, AdvancedStack, AdvancedTop DEF Top
<1>4. /\ stack[n].next \in Nat /\ Len(world.imports[stack[n].file]) \in Nat
      /\ stack[n].next <= Len(world.imports[stack[n].file])
  BY <1>1, <1>2, ImportsTyped DEF Calling, Top, Imports
<1>5. ASSUME NEW i \in 1 .. n
      PROVE  stack'[i].next <= Len(world'.imports[stack'[i].file]) + 1
  <2>1. CASE i = n
    BY <2>1, <1>1, <1>2, <1>3, <1>4
  <2>2. CASE i # n
    BY <2>2, <1>1, <1>3 DEF WithinImports
  <2> QED BY <2>1, <2>2
<1>6. WithinImports'
  BY <1>1, <1>2, <1>5 DEF WithinImports
<1>7. Left' < Left
  <2>1. Left = (Len(world.imports[stack[n].file]) + 1) - stack[n].next
    BY <1>2 DEF Left, Imports, Top
  <2>2. Left' = (Len(world.imports[stack[n].file]) + 1) - (stack[n].next + 1)
    BY <1>1, <1>2, <1>3 DEF Left, Imports, Top
  <2> DEFINE l == Len(world.imports[stack[n].file])
             k == stack[n].next
  <2>3. l \in Nat /\ k \in Nat
    BY <1>4
  <2> HIDE DEF l, k
  <2>4. Left = (l + 1) - k /\ Left' = (l + 1) - (k + 1)
    BY <2>1, <2>2 DEF l, k
  <2> QED BY <2>3, <2>4
<1>8. CASE imported' = imported
  <2>1. Unmarked' = Unmarked
    BY <1>8 DEF Unmarked
  <2>2. Len(stack') = Len(stack)
    BY <1>2
  <2> QED BY <2>1, <2>2, <1>6, <1>7 DEF Nearer
<1>9. CASE Callee \notin imported /\ imported' = Marked
  <2>1. Unmarked' < Unmarked
    BY <1>1, <1>9, MarkedIsFewer
  <2> QED BY <2>1, <1>6 DEF Nearer
<1> QED BY <1>6, <1>8, <1>9 DEF AlreadyImported, ModuleMissing, ModuleBroken

LEMMA EnteredIsNearer ==
  ASSUME WithinImports, ModuleEntered
  PROVE  WithinImports' /\ Nearer
<1> DEFINE n == Len(stack)
           g == [file |-> CalleeFile, transitive |-> CalledTransitively, next |-> 1]
<1>1. /\ Calls /\ Calls' /\ Calling /\ stack' = Append(Advanced, g) /\ world' = world
      /\ Callee \notin imported /\ imported' = Marked
  BY CallsStep DEF WithinImports, Next, ModuleEntered
<1>2. n \in Nat /\ n \in 1 .. n
  BY <1>1, CalleeType
<1>3. g \in FrameType /\ g.next = 1
  BY <1>1 DEF ModuleEntered, CalleeFile, FrameType, Calls, StackTyped, WorldType,
    CalledTransitively, InResolve
<1> HIDE DEF g
<1>4. /\ Advanced \in Seq(FrameType) /\ Len(Advanced) = n
      /\ \A i \in 1 .. n : Advanced[i].file = stack[i].file
      /\ Advanced[n].next = stack[n].next + 1
      /\ \A i \in 1 .. n : i # n => Advanced[i] = stack[i]
  BY <1>1, AdvancedStack, AdvancedTop DEF Top
<1>5. /\ Len(stack') = n + 1 /\ stack'[n + 1] = g
      /\ \A i \in 1 .. n : stack'[i] = Advanced[i]
  BY <1>1, <1>3, <1>4, AppendToSeq
<1>6. /\ stack[n].next \in Nat /\ Len(world.imports[stack[n].file]) \in Nat
      /\ stack[n].next <= Len(world.imports[stack[n].file])
  BY <1>1, <1>2, ImportsTyped DEF Calling, Top, Imports
<1>7. ASSUME NEW i \in 1 .. n + 1
      PROVE  stack'[i].next <= Len(world'.imports[stack'[i].file]) + 1
  <2>1. CASE i = n + 1
    <3>1. i \in 1 .. Len(stack')
      BY <2>1, <1>2, <1>5
    <3>2. Len(world'.imports[stack'[i].file]) \in Nat
      BY <1>1, <3>1, ImportsTyped
    <3> QED BY <2>1, <3>2, <1>3, <1>5
  <2>2. CASE i = n
    BY <2>2, <1>1, <1>2, <1>4, <1>5, <1>6
  <2>3. CASE i \in 1 .. n /\ i # n
    BY <2>3, <1>1, <1>4, <1>5 DEF WithinImports
  <2> QED BY <2>1, <2>2, <2>3, <1>2
<1>8. WithinImports'
  BY <1>1, <1>5, <1>7 DEF WithinImports
<1> QED BY <1>1, <1>8, MarkedIsFewer DEF Nearer

\* A call ends, or the stage.
LEMMA EndIsNearer ==
  ASSUME WithinImports, ModuleDone \/ ResolveReturns
  PROVE  WithinImports' /\ Nearer
<1>1. /\ Calls /\ Calls' /\ stack # <<>> /\ stack \in Seq(FrameType)
      /\ UNCHANGED <<world, imported>>
  BY CallsStep DEF WithinImports, Next, ModuleDone, ResolveReturns, Calls, StackTyped
<1>2. PICK n \in Nat : Len(stack) = n + 1
  BY <1>1, NonEmptySeq
<1>3. CASE ModuleDone
  <2>1. Len(stack') = n /\ \A i \in 1 .. n : stack'[i] = stack[i]
    BY <1>1, <1>2, <1>3, FrontOfSeq DEF ModuleDone
  <2>2. \A i \in 1 .. n : i \in 1 .. Len(stack)
    BY <1>2
  <2>3. \A i \in 1 .. n : stack'[i].next <= Len(world'.imports[stack'[i].file]) + 1
    BY <1>1, <2>1, <2>2 DEF WithinImports
  <2>4. WithinImports'
    BY <1>1, <2>1, <2>3 DEF WithinImports
  <2>5. Unmarked' = Unmarked
    BY <1>1 DEF Unmarked
  <2>6. Len(stack') < Len(stack)
    BY <1>2, <2>1
  <2> QED BY <2>4, <2>5, <2>6 DEF Nearer
<1>4. CASE ResolveReturns
  <2>1. Len(stack') = 0
    BY <1>4 DEF ResolveReturns
  <2>2. WithinImports'
    BY <1>1, <2>1 DEF WithinImports
  <2>3. Unmarked' = Unmarked
    BY <1>1 DEF Unmarked
  <2>4. Len(stack') < Len(stack)
    BY <1>2, <2>1
  <2> QED BY <2>2, <2>3, <2>4 DEF Nearer
<1> QED BY <1>3, <1>4

\* However imports form cycles: each step of the stage meets a name it has not
\* met, or closes a call, or uses up an import of the innermost call, in this
\* order of weight, and all three are counted in natural numbers.  So the
\* stage takes finitely many steps (import_module and Resolve, resolver.cpp:15-115).
THEOREM StepsRunOut == Spec => []Counted /\ [][Nearer]_vars
<1>1. ASSUME WithinImports, [Next]_vars PROVE WithinImports' /\ [Nearer]_vars
  <2>1. CASE UNCHANGED vars
    <3>1. Calls'
      BY <1>1, CallsStep DEF WithinImports
    <3>2. stack' = stack /\ world' = world
      BY <2>1 DEF vars
    <3> QED BY <1>1, <2>1, <3>1, <3>2 DEF WithinImports
  <2> QED BY <1>1, <2>1, ReturnIsNearer, EnteredIsNearer, EndIsNearer DEF Next
<1> QED BY <1>1, WithinInit, WithinNow, PTL DEF Spec
=============================================================================
