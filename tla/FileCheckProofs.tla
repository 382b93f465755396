--------------------------- MODULE FileCheckProofs ---------------------------
(***************************************************************************)
(* Theorems about FileCheck, for every check file, every output and every  *)
(* sequence of commands: a test that passes follows its directives, one    *)
(* that fails cannot be made to, and one whose directives were rewritten   *)
(* from an output passes on it.                                            *)
(***************************************************************************)
EXTENDS FileCheck, SequenceLemmas, TLAPS

\* The checks are a sequence, of whatever they are.
IsSequence == \E S : checks \in Seq(S)

\* The places of the checks made so far, and where the next search starts.
Counts ==
  /\ phase \in {"idle", "parse", "check"}
  /\ matched \in Seq(Nat)
  /\ check_idx \in Nat /\ Len(matched) = check_idx - 1
  /\ last_match_line \in Nat /\ input_idx = last_match_line + 1
  /\ last_match_line = Before(matched, check_idx)
  /\ phase = "parse" => matched = <<>>
  /\ phase # "idle" => result = "none"

\* While the checks are made, those made so far are where they should be.
IInv ==
  /\ IsSequence
  /\ Counts
  /\ phase = "check" => Follows(matched)
  /\ PassIsJustified

LEMMA InitIInv == Init => IInv
<1> SUFFICES ASSUME Init PROVE IInv
  OBVIOUS
<1>1. IsSequence
  <2>1. checks \in Seq({})
    BY DEF Init
  <2> QED BY <2>1 DEF IsSequence
<1>2. Counts
  BY DEF Init, Counts, Before
<1> QED BY <1>1, <1>2 DEF IInv, Init, PassIsJustified

\* A placement follows the checks whatever else changes.
LEMMA StillFollows ==
  ASSUME checks' = checks, input_lines' = input_lines, NEW p, matched' = p
  PROVE  /\ Follows(matched)' <=> Follows(p)
         /\ FollowsToTheEnd(matched)' <=> FollowsToTheEnd(p)
<1>1. \A i : Pattern(i)' = Pattern(i) /\ pending_nots(i)' = pending_nots(i)
  BY DEF Pattern, pending_nots
<1>2. \A i : Before(matched, i)' = Before(p, i)
  BY DEF Before
<1>3. \A i : Placed(matched, i)' <=> Placed(p, i)
  BY <1>1, <1>2 DEF Placed
<1>4. \A i : Clear(matched, i, matched[i])' <=> Clear(p, i, p[i])
  BY <1>1, <1>2 DEF Clear
<1>5. Clear(matched, Len(checks) + 1, Len(input_lines) + 1)'
        <=> Clear(p, Len(checks) + 1, Len(input_lines) + 1)
  BY <1>1, <1>2 DEF Clear
<1>6. Follows(matched)' <=> Follows(p)
  BY <1>3, <1>4 DEF Follows
<1> QED BY <1>5, <1>6 DEF FollowsToTheEnd

\* What is so of the places so far stays so when the next one is added.
LEMMA Extended ==
  ASSUME NEW p \in Seq(Nat), NEW x \in Nat, NEW i \in 1 .. Len(p), Placed(p, i),
         checks[i].type # "NOT" => Clear(p, i, p[i])
  PROVE  /\ Placed(Append(p, x), i)
         /\ checks[i].type # "NOT" => Clear(Append(p, x), i, Append(p, x)[i])
<1>1. Append(p, x)[i] = p[i] /\ Before(Append(p, x), i) = Before(p, i)
  BY DEF Before
<1> QED BY <1>1 DEF Placed, Clear

\* A check that is placed right extends a placement that is right so far.
LEMMA OneMore ==
  ASSUME NEW p \in Seq(Nat), NEW x \in Nat, Follows(p),
         Placed(Append(p, x), Len(p) + 1),
         checks[Len(p) + 1].type # "NOT" => Clear(Append(p, x), Len(p) + 1, x)
  PROVE  Follows(Append(p, x))
<1> SUFFICES ASSUME NEW i \in DOMAIN Append(p, x)
             PROVE  /\ Placed(Append(p, x), i)
                    /\ checks[i].type # "NOT" => Clear(Append(p, x), i, Append(p, x)[i])
  BY DEF Follows
<1>1. CASE i \in 1 .. Len(p)
  BY <1>1, Extended DEF Follows
<1>2. CASE i = Len(p) + 1
  BY <1>2
<1> QED BY <1>1, <1>2

-----------------------------------------------------------------------------
(***************************************************************************)
(* The steps of check.                                                     *)
(***************************************************************************)

LEMMA FailsStep ==
  ASSUME IInv, Fails, Kept
  PROVE  IInv'
<1>1. IsSequence'
  BY DEF IInv, IsSequence, Kept, parseState
<1>2. Counts'
  BY DEF IInv, Counts, Fails, Before, matchState
<1> QED BY <1>1, <1>2 DEF IInv, Fails, PassIsJustified

\* The next check is made and is placed right.
LEMMA MatchedStep ==
  ASSUME IInv, phase = "check", check_idx <= Len(checks), NEW line \in Nat,
         MatchedAt(line), Kept,
         Placed(Append(matched, line), check_idx),
         checks[check_idx].type # "NOT" => Clear(Append(matched, line), check_idx, line)
  PROVE  IInv'
<1>1. IsSequence'
  BY DEF IInv, IsSequence, Kept, parseState
<1>2. /\ matched \in Seq(Nat) /\ Len(matched) + 1 = check_idx /\ Follows(matched)
      /\ check_idx \in Nat
  BY DEF IInv, Counts
<1>3. Follows(Append(matched, line))
  BY <1>2, OneMore
<1>4. matched' = Append(matched, line) /\ checks' = checks /\ input_lines' = input_lines
  BY DEF MatchedAt, Kept, parseState
<1>5. Follows(matched)'
  BY <1>3, <1>4, StillFollows
<1>6. Counts'
  BY <1>2 DEF IInv, Counts, MatchedAt, Before
<1>7. PassIsJustified'
  BY DEF IInv, Counts, MatchedAt, PassIsJustified
<1> QED BY <1>1, <1>5, <1>6, <1>7 DEF IInv

LEMMA NextStep ==
  ASSUME IInv, CheckNext
  PROVE  IInv'
<1> DEFINE next_line == last_match_line + 1
<1>1. phase = "check" /\ check_idx <= Len(checks) /\ checks[check_idx].type = "NEXT" /\ Kept
  BY DEF CheckNext, Makes
<1>2. /\ matched \in Seq(Nat) /\ Len(matched) + 1 = check_idx /\ check_idx \in Nat
      /\ last_match_line = Before(matched, check_idx) /\ next_line \in Nat \ {0}
  BY DEF IInv, Counts
<1>3. CASE Fails
  BY <1>1, <1>3, FailsStep
<1>4. CASE /\ next_line <= Len(input_lines)
           /\ match_pattern(input_lines[next_line], Pattern(check_idx))
           /\ MatchedAt(next_line)
  <2>1. /\ Append(matched, next_line)[check_idx] = next_line
        /\ Before(Append(matched, next_line), check_idx) = last_match_line
    BY <1>2 DEF Before
  <2>2. next_line \in 1 .. Len(input_lines)
    BY <1>2, <1>4, Z3
  <2>3. Placed(Append(matched, next_line), check_idx)
    BY <1>1, <1>4, <2>1, <2>2 DEF Placed
  <2>4. Clear(Append(matched, next_line), check_idx, next_line)
    BY <1>2, <2>1 DEF Clear
  <2> QED BY <1>1, <1>2, <1>4, <2>3, <2>4, MatchedStep
<1> QED BY <1>3, <1>4 DEF CheckNext

LEMMA SameStep ==
  ASSUME IInv, CheckSame
  PROVE  IInv'
<1>1. phase = "check" /\ check_idx <= Len(checks) /\ checks[check_idx].type = "SAME" /\ Kept
  BY DEF CheckSame, Makes
<1>2. /\ matched \in Seq(Nat) /\ Len(matched) + 1 = check_idx /\ check_idx \in Nat
      /\ last_match_line = Before(matched, check_idx) /\ last_match_line \in Nat
  BY DEF IInv, Counts
<1>3. CASE Fails
  BY <1>1, <1>3, FailsStep
<1>4. CASE /\ last_match_line \in 1 .. Len(input_lines)
           /\ match_pattern(input_lines[last_match_line], Pattern(check_idx))
           /\ MatchedAt(last_match_line)
  <2>1. /\ Append(matched, last_match_line)[check_idx] = last_match_line
        /\ Before(Append(matched, last_match_line), check_idx) = last_match_line
    BY <1>2 DEF Before
  <2>2. Placed(Append(matched, last_match_line), check_idx)
    BY <1>1, <1>4, <2>1 DEF Placed
  <2>3. Clear(Append(matched, last_match_line), check_idx, last_match_line)
    BY <1>2, <2>1 DEF Clear
  <2> QED BY <1>1, <1>2, <1>4, <2>2, <2>3, MatchedStep
<1> QED BY <1>3, <1>4 DEF CheckSame

LEMMA NotStep ==
  ASSUME IInv, CheckNot
  PROVE  IInv'
<1>1. phase = "check" /\ check_idx <= Len(checks) /\ checks[check_idx].type = "NOT" /\ Kept
  BY DEF CheckNot, Makes
<1>2. /\ matched \in Seq(Nat) /\ Len(matched) + 1 = check_idx /\ check_idx \in Nat
      /\ last_match_line = Before(matched, check_idx) /\ last_match_line \in Nat
      /\ input_idx = last_match_line + 1
  BY DEF IInv, Counts
<1>3. MatchedAt(last_match_line)
  BY <1>2 DEF CheckNot, MatchedAt
<1>4. /\ Append(matched, last_match_line)[check_idx] = last_match_line
      /\ Before(Append(matched, last_match_line), check_idx) = last_match_line
  BY <1>2 DEF Before
<1>5. Placed(Append(matched, last_match_line), check_idx)
  BY <1>1, <1>4 DEF Placed
<1> QED BY <1>1, <1>2, <1>3, <1>5, MatchedStep

\* The line found is the first that matches, and what was forbidden before it
\* is on none of the lines passed over.
LEMMA PlainStep ==
  ASSUME IInv, CheckPlain
  PROVE  IInv'
<1>1. /\ phase = "check" /\ check_idx <= Len(checks) /\ Kept
      /\ checks[check_idx].type \in {"PLAIN", "LABEL"}
  BY DEF CheckPlain, Makes
<1>2. /\ matched \in Seq(Nat) /\ Len(matched) + 1 = check_idx /\ check_idx \in Nat
      /\ last_match_line = Before(matched, check_idx) /\ last_match_line \in Nat
      /\ input_idx = last_match_line + 1
  BY DEF IInv, Counts
<1>3. CASE Fails
  BY <1>1, <1>3, FailsStep
<1>4. ASSUME NEW first \in Found, \A i \in Found : first <= i, MatchedAt(first),
             ~Forbidden(pending_nots(check_idx), input_idx .. first - 1)
      PROVE  IInv'
  <2>1. /\ first \in input_idx .. Len(input_lines) /\ first \in Nat
        /\ match_pattern(input_lines[first], Pattern(check_idx))
    BY <1>2 DEF Found
  <2>2. /\ Append(matched, first)[check_idx] = first
        /\ Before(Append(matched, first), check_idx) = last_match_line
    BY <1>2, <2>1 DEF Before
  <2>3. \A l \in last_match_line + 1 .. first - 1 :
           ~match_pattern(input_lines[l], Pattern(check_idx))
    BY <1>2, <1>4, <2>1 DEF Found
  <2>4. first > last_match_line /\ first \in 1 .. Len(input_lines)
    BY <1>2, <2>1
  <2>5. Placed(Append(matched, first), check_idx)
    BY <1>1, <2>1, <2>2, <2>3, <2>4 DEF Placed
  <2>6. Clear(Append(matched, first), check_idx, first)
    BY <1>2, <1>4, <2>2 DEF Clear, Forbidden
  <2> QED BY <1>1, <1>2, <1>4, <2>1, <2>5, <2>6, MatchedStep
<1> QED BY <1>3, <1>4 DEF CheckPlain

LEMMA TrailingStep ==
  ASSUME IInv, CheckTrailing
  PROVE  IInv'
<1>1. /\ phase = "check" /\ check_idx = Len(checks) + 1 /\ phase' = "idle" /\ Kept
      /\ UNCHANGED matchState
  BY DEF CheckTrailing
<1>2. /\ matched \in Seq(Nat) /\ Len(matched) = check_idx - 1 /\ check_idx \in Nat
      /\ last_match_line = Before(matched, check_idx) /\ Follows(matched)
      /\ input_idx = last_match_line + 1
  BY <1>1 DEF IInv, Counts
<1>3. IsSequence'
  BY <1>1 DEF IInv, IsSequence, Kept, parseState
<1>4. Counts'
  BY <1>1 DEF IInv, Counts, Before, matchState
<1>5. ASSUME result' = "pass"
      PROVE  Len(matched) = Len(checks) /\ FollowsToTheEnd(matched)
  <2>1. PICK S : checks \in Seq(S)
    BY DEF IInv, IsSequence
  <2>2. Len(checks) \in Nat
    BY <2>1
  <2>3. Len(matched) = Len(checks)
    BY <1>1, <1>2, <2>2
  <2>4. ~Forbidden(pending_nots(check_idx), input_idx .. Len(input_lines))
    BY <1>5 DEF CheckTrailing
  <2>5. Clear(matched, Len(checks) + 1, Len(input_lines) + 1)
    <3>1. ASSUME NEW l \in Before(matched, Len(checks) + 1) + 1 .. (Len(input_lines) + 1) - 1
          PROVE  l \in input_idx .. Len(input_lines)
      BY <1>1, <1>2
    <3> QED BY <1>1, <2>4, <3>1 DEF Clear, Forbidden
  <2> QED BY <1>2, <2>3, <2>5 DEF FollowsToTheEnd
<1>6. matched' = matched /\ checks' = checks /\ input_lines' = input_lines
  BY <1>1 DEF Kept, parseState, matchState
<1>7. PassIsJustified'
  BY <1>5, <1>6, StillFollows DEF PassIsJustified
<1> QED BY <1>1, <1>3, <1>4, <1>7 DEF IInv

-----------------------------------------------------------------------------
(***************************************************************************)
(* The other steps.                                                        *)
(***************************************************************************)

LEMMA ParseStep ==
  ASSUME IInv, parse_check_line
  PROVE  IInv'
<1>1. PICK S : checks \in Seq(S)
  BY DEF IInv, IsSequence
<1>2. IsSequence'
  <2> DEFINE check == [type |-> file[line_num + 1].kind,
                       pattern |-> trim(file[line_num + 1].text)]
  <2>1. checks' = checks \/ checks' = Append(checks, check)
    BY DEF parse_check_line
  <2>2. checks \in Seq(S \cup {check}) /\ Append(checks, check) \in Seq(S \cup {check})
    BY <1>1
  <2> QED BY <2>1, <2>2 DEF IsSequence
<1>3. Counts' /\ phase' = "parse" /\ result' = "none"
  BY DEF IInv, Counts, parse_check_line, Before, matchState
<1> QED BY <1>2, <1>3 DEF IInv, PassIsJustified

LEMMA OtherSteps ==
  ASSUME IInv, StartCheck \/ ParsedAll \/ update
  PROVE  IInv'
<1>1. CASE StartCheck
  <2>1. checks' = <<>>
    BY <1>1 DEF StartCheck
  <2>2. IsSequence'
    <3>1. checks' \in Seq({})
      BY <2>1
    <3> QED BY <3>1 DEF IsSequence
  <2>3. Counts' /\ phase' = "parse" /\ result' = "none"
    BY <1>1 DEF StartCheck, Counts, Before
  <2> QED BY <2>2, <2>3 DEF IInv, PassIsJustified
<1>2. CASE ParsedAll
  <2>1. IsSequence'
    BY <1>2 DEF IInv, IsSequence, ParsedAll, parseState
  <2>2. Counts' /\ result' # "pass" /\ matched' = <<>>
    BY <1>2 DEF IInv, Counts, ParsedAll, Before, matchState
  <2>3. Follows(matched)'
    BY <2>2 DEF Follows
  <2> QED BY <2>1, <2>2, <2>3 DEF IInv, PassIsJustified
<1>3. CASE update
  <2>1. IsSequence'
    BY <1>3 DEF IInv, IsSequence, update, parseState
  <2>2. Counts' /\ phase' = "idle" /\ result' = "updated"
    BY <1>3 DEF IInv, Counts, update, Before, matchState
  <2> QED BY <2>1, <2>2 DEF IInv, PassIsJustified
<1> QED BY <1>1, <1>2, <1>3

LEMMA IInvStays == IInv /\ [Next]_vars => IInv'
<1> SUFFICES ASSUME IInv, [Next]_vars PROVE IInv'
  OBVIOUS
<1>1. CASE UNCHANGED vars
  <2>1. IsSequence'
    BY <1>1 DEF IInv, IsSequence, vars, parseState
  <2>2. Counts'
    BY <1>1 DEF IInv, Counts, vars, matchState, Before
  <2>3. checks' = checks /\ matched' = matched /\ input_lines' = input_lines
        /\ phase' = phase /\ result' = result
    BY <1>1 DEF vars, matchState, parseState
  <2>4. (phase = "check" => Follows(matched))' /\ PassIsJustified'
    BY <2>3, StillFollows DEF IInv, PassIsJustified
  <2> QED BY <2>1, <2>2, <2>4 DEF IInv
<1>2. CASE Next
  BY <1>2, OtherSteps, ParseStep, NotStep, NextStep, SameStep, PlainStep, TrailingStep DEF Next
<1> QED BY <1>1, <1>2

\* A test that passes has each of its checks on a line of the output where its
\* directive wants it, one after the other, and none of its forbidden patterns
\* on any line between the two checks around it or after the last: check() of
\* SammineCheck.cpp, for every check file, output and sequence of commands.
THEOREM PassingIsJustified == Spec => []PassIsJustified
<1>1. IInv => PassIsJustified
  BY DEF IInv
<1> QED BY <1>1, InitIInv, IInvStays, PTL DEF Spec
-----------------------------------------------------------------------------
(***************************************************************************)
(* A test that fails could not have passed.                                *)
(***************************************************************************)

Placements == [DOMAIN checks -> 0 .. Len(input_lines)]

\* A directive leaves a check one line, so whatever placement follows the
\* directives is the one the search has found so far.
OnlyPlacement ==
  phase = "check" =>
    \A p \in Placements :
      FollowsToTheEnd(p) => \A i \in 1 .. Len(matched) : p[i] = matched[i]

FailInv == IInv /\ OnlyPlacement /\ FailIsJustified

LEMMA SamePlacements ==
  ASSUME checks' = checks, input_lines' = input_lines
  PROVE  /\ Placements' = Placements
         /\ \A p : FollowsToTheEnd(p)' <=> FollowsToTheEnd(p)
         /\ \A i : pending_nots(i)' = pending_nots(i)
<1>1. \A i : Pattern(i)' = Pattern(i) /\ pending_nots(i)' = pending_nots(i)
  BY DEF Pattern, pending_nots
<1> SUFFICES ASSUME NEW p  PROVE FollowsToTheEnd(p)' <=> FollowsToTheEnd(p)
  BY <1>1 DEF Placements
<1>2. \A i : Before(p, i)' = Before(p, i)
  BY DEF Before
<1>3. \A i : Placed(p, i)' <=> Placed(p, i)
  BY <1>1, <1>2 DEF Placed
<1>4. \A i, l : Clear(p, i, l)' <=> Clear(p, i, l)
  BY <1>1, <1>2 DEF Clear
<1>5. Follows(p)' <=> Follows(p)
  BY <1>3, <1>4 DEF Follows
<1>6. Clear(p, Len(checks) + 1, Len(input_lines) + 1)'
        <=> Clear(p, Len(checks) + 1, Len(input_lines) + 1)
  BY <1>1, <1>2 DEF Clear
<1> QED BY <1>5, <1>6 DEF FollowsToTheEnd

\* A placement that follows the directives, at the check to be made next.
LEMMA PlacedNext ==
  ASSUME FailInv, phase = "check", check_idx <= Len(checks),
         NEW p \in Placements, FollowsToTheEnd(p)
  PROVE  /\ check_idx \in DOMAIN checks /\ p[check_idx] \in Nat
         /\ Before(p, check_idx) = last_match_line /\ last_match_line \in Nat
         /\ input_idx = last_match_line + 1
         /\ Placed(p, check_idx)
         /\ checks[check_idx].type # "NOT" => Clear(p, check_idx, p[check_idx])
         /\ \A i \in 1 .. Len(matched) : p[i] = matched[i]
<1>1. /\ matched \in Seq(Nat) /\ Len(matched) = check_idx - 1 /\ check_idx \in Nat
      /\ last_match_line \in Nat /\ input_idx = last_match_line + 1
      /\ last_match_line = Before(matched, check_idx)
  BY DEF FailInv, IInv, Counts
<1>2. check_idx \in Nat \ {0}
  BY <1>1, LenProperties
<1>3. PICK S : checks \in Seq(S)
  BY DEF FailInv, IInv, IsSequence
<1>4. DOMAIN checks = 1 .. Len(checks) /\ Len(checks) \in Nat
  BY <1>3
<1>5. check_idx \in DOMAIN checks
  BY <1>2, <1>4
<1>6. \A i \in 1 .. Len(matched) : p[i] = matched[i]
  BY DEF FailInv, OnlyPlacement
<1>7. Before(p, check_idx) = last_match_line
  <2>1. CASE check_idx = 1
    BY <2>1, <1>1 DEF Before
  <2>2. CASE check_idx # 1
    <3>1. check_idx - 1 \in 1 .. Len(matched)
      BY <2>2, <1>1, <1>2
    <3> QED BY <3>1, <2>2, <1>1, <1>6 DEF Before
  <2> QED BY <2>1, <2>2
<1>8. DOMAIN p = DOMAIN checks /\ p[check_idx] \in Nat
  BY <1>5 DEF Placements
<1>9. Placed(p, check_idx) /\ (checks[check_idx].type # "NOT" => Clear(p, check_idx, p[check_idx]))
  BY <1>5, <1>8 DEF FollowsToTheEnd, Follows
<1> QED BY <1>1, <1>5, <1>6, <1>7, <1>8, <1>9

\* The check made matches the only line it may.
LEMMA OnlyMatched ==
  ASSUME FailInv, phase = "check", check_idx <= Len(checks), NEW line \in Nat,
         MatchedAt(line), Kept,
         \A p \in Placements : FollowsToTheEnd(p) => p[check_idx] = line
  PROVE  OnlyPlacement' /\ FailIsJustified'
<1>1. /\ checks' = checks /\ input_lines' = input_lines /\ matched' = Append(matched, line)
      /\ result' = result
  BY DEF MatchedAt, Kept, parseState
<1>2. result = "none" /\ matched \in Seq(Nat) /\ check_idx = Len(matched) + 1
  BY LenProperties DEF FailInv, IInv, Counts
<1>3. ASSUME NEW p \in Placements, FollowsToTheEnd(p), NEW i \in 1 .. Len(matched')
      PROVE  p[i] = matched'[i]
  <2>1. CASE i \in 1 .. Len(matched)
    BY <1>1, <1>2, <1>3, <2>1 DEF FailInv, OnlyPlacement
  <2>2. CASE i = Len(matched) + 1
    BY <1>1, <1>2, <1>3, <2>2
  <2> QED BY <1>1, <1>2, <2>1, <2>2
<1>4. OnlyPlacement'
  BY <1>1, <1>3, SamePlacements DEF OnlyPlacement
<1> QED BY <1>1, <1>2, <1>4 DEF FailIsJustified

\* The check fails, and there is no line it may match.
LEMMA OnlyFails ==
  ASSUME phase' = "idle", checks' = checks, input_lines' = input_lines,
         (\A i \in DOMAIN checks : checks[i].type = "NEXT" => pending_nots(i) = {})
           => \A p \in Placements : ~FollowsToTheEnd(p)
  PROVE  OnlyPlacement' /\ FailIsJustified'
<1>1. OnlyPlacement'
  BY DEF OnlyPlacement
<1>2. FailIsJustified'
  <2> SUFFICES ASSUME \A i \in DOMAIN checks' : checks'[i].type = "NEXT" => pending_nots(i)' = {},
                      NEW p \in Placements', FollowsToTheEnd(p)'
               PROVE  FALSE
    BY DEF FailIsJustified, Placements
  <2>1. \A i \in DOMAIN checks : checks[i].type = "NEXT" => pending_nots(i) = {}
    BY SamePlacements
  <2>2. p \in Placements /\ FollowsToTheEnd(p)
    BY SamePlacements
  <2> QED BY <2>1, <2>2
<1> QED BY <1>1, <1>2

LEMMA NotPlaced ==
  ASSUME FailInv, CheckNot
  PROVE  OnlyPlacement' /\ FailIsJustified'
<1>1. phase = "check" /\ check_idx <= Len(checks) /\ checks[check_idx].type = "NOT" /\ Kept
  BY DEF CheckNot, Makes
<1>2. last_match_line \in Nat /\ MatchedAt(last_match_line)
  BY DEF FailInv, IInv, Counts, CheckNot, MatchedAt
<1>3. ASSUME NEW p \in Placements, FollowsToTheEnd(p)  PROVE p[check_idx] = last_match_line
  BY <1>1, <1>3, PlacedNext DEF Placed
<1> QED BY <1>1, <1>2, <1>3, OnlyMatched

LEMMA SamePlaced ==
  ASSUME FailInv, CheckSame
  PROVE  OnlyPlacement' /\ FailIsJustified'
<1>1. phase = "check" /\ check_idx <= Len(checks) /\ checks[check_idx].type = "SAME" /\ Kept
  BY DEF CheckSame, Makes
<1>2. last_match_line \in Nat
  BY DEF FailInv, IInv, Counts
<1>3. ASSUME NEW p \in Placements, FollowsToTheEnd(p)
      PROVE  /\ p[check_idx] = last_match_line
             /\ last_match_line \in 1 .. Len(input_lines)
             /\ match_pattern(input_lines[last_match_line], Pattern(check_idx))
  BY <1>1, <1>3, PlacedNext DEF Placed
<1>4. CASE MatchedAt(last_match_line)
  BY <1>1, <1>2, <1>3, <1>4, OnlyMatched
<1>5. CASE /\ Fails
           /\ ~(/\ last_match_line \in 1 .. Len(input_lines)
                /\ match_pattern(input_lines[last_match_line], Pattern(check_idx)))
  <2>1. phase' = "idle" /\ checks' = checks /\ input_lines' = input_lines
    BY <1>1, <1>5 DEF Fails, Kept, parseState
  <2> QED BY <1>3, <1>5, <2>1, OnlyFails
<1> QED BY <1>4, <1>5 DEF CheckSame

LEMMA NextPlaced ==
  ASSUME FailInv, CheckNext
  PROVE  OnlyPlacement' /\ FailIsJustified'
<1> DEFINE next_line == last_match_line + 1
<1>1. phase = "check" /\ check_idx <= Len(checks) /\ checks[check_idx].type = "NEXT" /\ Kept
  BY DEF CheckNext, Makes
<1>2. next_line \in Nat
  BY DEF FailInv, IInv, Counts
<1>3. ASSUME NEW p \in Placements, FollowsToTheEnd(p)
      PROVE  /\ check_idx \in DOMAIN checks
             /\ p[check_idx] = next_line
             /\ next_line \in 1 .. Len(input_lines)
             /\ match_pattern(input_lines[next_line], Pattern(check_idx))
  BY <1>1, <1>3, PlacedNext DEF Placed
<1>4. CASE MatchedAt(next_line)
  BY <1>1, <1>2, <1>3, <1>4, OnlyMatched
<1>5. CASE /\ Fails
           /\ ~(/\ next_line <= Len(input_lines)
                /\ match_pattern(input_lines[next_line], Pattern(check_idx))
                /\ ~Forbidden(pending_nots(check_idx), input_idx .. next_line))
  <2>1. phase' = "idle" /\ checks' = checks /\ input_lines' = input_lines
    BY <1>1, <1>5 DEF Fails, Kept, parseState
  <2>2. ASSUME \A i \in DOMAIN checks : checks[i].type = "NEXT" => pending_nots(i) = {},
               NEW p \in Placements, FollowsToTheEnd(p)
        PROVE  FALSE
    <3>1. pending_nots(check_idx) = {} /\ next_line <= Len(input_lines)
      BY <1>1, <1>2, <1>3, <2>2
    <3>2. ~Forbidden(pending_nots(check_idx), input_idx .. next_line)
      BY <3>1 DEF Forbidden
    <3> QED BY <1>3, <1>5, <2>2, <3>1, <3>2
  <2> QED BY <2>1, <2>2, OnlyFails
<1> QED BY <1>4, <1>5 DEF CheckNext

LEMMA PlainPlaced ==
  ASSUME FailInv, CheckPlain
  PROVE  OnlyPlacement' /\ FailIsJustified'
<1>1. /\ phase = "check" /\ check_idx <= Len(checks) /\ Kept
      /\ checks[check_idx].type \in {"PLAIN", "LABEL"}
  BY DEF CheckPlain, Makes
<1>2. last_match_line \in Nat /\ input_idx = last_match_line + 1
  BY DEF FailInv, IInv, Counts
<1>3. ASSUME NEW p \in Placements, FollowsToTheEnd(p)
      PROVE  /\ p[check_idx] \in Found /\ Clear(p, check_idx, p[check_idx])
             /\ \A first \in Found : (\A i \in Found : first <= i) => p[check_idx] = first
             /\ Before(p, check_idx) = last_match_line
  <2> DEFINE x == p[check_idx]
  <2>1. /\ x \in Nat /\ Before(p, check_idx) = last_match_line
        /\ x > last_match_line /\ x \in 1 .. Len(input_lines)
        /\ \A l \in last_match_line + 1 .. x - 1 : ~match_pattern(input_lines[l], Pattern(check_idx))
        /\ match_pattern(input_lines[x], Pattern(check_idx))
        /\ Clear(p, check_idx, x)
    BY <1>1, <1>3, PlacedNext DEF Placed
  <2> HIDE DEF x
  <2>2. x \in Found
    BY <1>2, <2>1 DEF Found
  <2>3. ASSUME NEW first \in Found, \A i \in Found : first <= i  PROVE x = first
    <3>1. /\ first \in Int /\ first >= last_match_line + 1 /\ first <= x
          /\ match_pattern(input_lines[first], Pattern(check_idx))
      BY <1>2, <2>2, <2>3 DEF Found
    <3>2. first \notin last_match_line + 1 .. x - 1
      BY <2>1, <3>1
    <3> QED BY <1>2, <2>1, <3>1, <3>2
  <2> QED BY <2>1, <2>2, <2>3 DEF x
<1>4. ASSUME NEW first \in Found, \A i \in Found : first <= i, MatchedAt(first)
      PROVE  OnlyPlacement' /\ FailIsJustified'
  <2>1. first \in Nat
    BY <1>2 DEF Found
  <2>2. \A p \in Placements : FollowsToTheEnd(p) => p[check_idx] = first
    BY <1>3, <1>4
  <2> QED BY <1>1, <1>4, <2>1, <2>2, OnlyMatched
<1>5. ASSUME Fails,
             \/ Found = {}
             \/ \E first \in Found : /\ \A i \in Found : first <= i
                                     /\ Forbidden(pending_nots(check_idx), input_idx .. first - 1)
      PROVE  OnlyPlacement' /\ FailIsJustified'
  <2>1. phase' = "idle" /\ checks' = checks /\ input_lines' = input_lines
    BY <1>1, <1>5 DEF Fails, Kept, parseState
  <2>2. ASSUME NEW p \in Placements, FollowsToTheEnd(p)  PROVE FALSE
    <3>1. PICK first \in Found :
               /\ \A i \in Found : first <= i
               /\ Forbidden(pending_nots(check_idx), input_idx .. first - 1)
      BY <1>3, <1>5, <2>2
    <3>2. Clear(p, check_idx, first) /\ Before(p, check_idx) = last_match_line
      BY <1>3, <2>2, <3>1
    <3> QED BY <1>2, <3>1, <3>2 DEF Clear, Forbidden
  <2> QED BY <2>1, <2>2, OnlyFails
<1>6. CASE Found = {}
  BY <1>5, <1>6 DEF CheckPlain
<1>7. CASE Found # {}
  <2>1. PICK first \in Found :
             /\ \A i \in Found : first <= i
             /\ IF Forbidden(pending_nots(check_idx), input_idx .. first - 1)
                THEN Fails ELSE MatchedAt(first)
    BY <1>7 DEF CheckPlain
  <2> QED BY <1>4, <1>5, <2>1
<1> QED BY <1>6, <1>7

LEMMA TrailingPlaced ==
  ASSUME FailInv, CheckTrailing
  PROVE  OnlyPlacement' /\ FailIsJustified'
<1>1. /\ phase = "check" /\ check_idx = Len(checks) + 1 /\ phase' = "idle"
      /\ checks' = checks /\ input_lines' = input_lines
  BY DEF CheckTrailing, Kept, parseState
<1>2. /\ matched \in Seq(Nat) /\ Len(matched) = check_idx - 1 /\ check_idx \in Nat
      /\ last_match_line = Before(matched, check_idx) /\ input_idx = last_match_line + 1
  BY DEF FailInv, IInv, Counts
<1>3. CASE Forbidden(pending_nots(check_idx), input_idx .. Len(input_lines))
  <2>1. ASSUME NEW p \in Placements, FollowsToTheEnd(p)  PROVE FALSE
    <3>1. Before(p, check_idx) = last_match_line
      <4>1. CASE check_idx = 1
        BY <4>1, <1>2 DEF Before
      <4>2. CASE check_idx # 1
        <5>1. check_idx - 1 \in 1 .. Len(matched)
          BY <4>2, <1>2, LenProperties
        <5> QED BY <5>1, <4>2, <1>1, <1>2, <2>1 DEF Before, FailInv, OnlyPlacement
      <4> QED BY <4>1, <4>2
    <3>2. Clear(p, check_idx, Len(input_lines) + 1)
      BY <1>1, <2>1 DEF FollowsToTheEnd
    <3>3. PICK j \in pending_nots(check_idx), l \in input_idx .. Len(input_lines) :
               match_pattern(input_lines[l], Pattern(j))
      BY <1>3 DEF Forbidden
    <3>4. l \in last_match_line + 1 .. (Len(input_lines) + 1) - 1
      BY <1>2, <3>3
    <3> QED BY <3>1, <3>2, <3>3, <3>4 DEF Clear
  <2> QED BY <1>1, <2>1, OnlyFails
<1>4. CASE ~Forbidden(pending_nots(check_idx), input_idx .. Len(input_lines))
  <2>1. result' = "pass"
    BY <1>4 DEF CheckTrailing
  <2> QED BY <1>1, <2>1 DEF OnlyPlacement, FailIsJustified
<1> QED BY <1>3, <1>4

LEMMA FailInvStep == FailInv /\ [Next]_vars => FailInv'
<1> SUFFICES ASSUME FailInv, [Next]_vars  PROVE FailInv'
  OBVIOUS
<1>0. IInv'
  BY IInvStays DEF FailInv
<1>1. CASE CheckNot \/ CheckNext \/ CheckSame \/ CheckPlain \/ CheckTrailing
  BY <1>0, <1>1, NotPlaced, NextPlaced, SamePlaced, PlainPlaced, TrailingPlaced DEF FailInv
<1>2. CASE StartCheck \/ parse_check_line \/ ParsedAll \/ update
  <2>1. result' # "fail"
    BY <1>2 DEF FailInv, IInv, Counts, StartCheck, parse_check_line, ParsedAll, update
  <2>2. OnlyPlacement'
    <3>1. CASE phase' # "check"
      BY <3>1 DEF OnlyPlacement
    <3>2. CASE phase' = "check"
      <4>1. matched' = <<>>
        BY <1>2, <3>2 DEF FailInv, IInv, Counts, StartCheck, parse_check_line, ParsedAll, update,
                          matchState
      <4>2. 1 .. Len(matched') = {}
        BY <4>1
      <4> QED BY <4>2 DEF OnlyPlacement
    <3> QED BY <3>1, <3>2
  <2> QED BY <1>0, <2>1, <2>2 DEF FailInv, FailIsJustified
<1>3. CASE UNCHANGED vars
  <2>1. checks' = checks /\ input_lines' = input_lines
    BY <1>3 DEF vars, parseState
  <2>2. OnlyPlacement' /\ FailIsJustified'
    BY <1>3, <2>1, SamePlacements
       DEF vars, parseState, matchState, FailInv, OnlyPlacement, FailIsJustified, Placements
  <2> QED BY <1>0, <2>2 DEF FailInv
<1> QED BY <1>1, <1>2, <1>3 DEF Next

\* A test that fails could not have passed: the greedy search of check() for
\* the first line that matches misses no placement of the checks that follows
\* its directives, for every check file and output.
THEOREM FailingIsJustified == Spec => []FailIsJustified
<1>1. Init => FailInv
  BY InitIInv DEF Init, FailInv, OnlyPlacement, FailIsJustified
<1>2. FailInv => FailIsJustified
  BY DEF FailInv
<1> QED BY <1>1, <1>2, FailInvStep, PTL DEF Spec
-----------------------------------------------------------------------------
(***************************************************************************)
(* A test whose directives were rewritten passes.                          *)
(***************************************************************************)

LEMMA SeqIsSeq == ASSUME NEW S, NEW s \in Seq(S)  PROVE IsSeq(s)
<1>1. Len(s) \in Nat /\ DOMAIN s = 1 .. Len(s) /\ s = [i \in 1 .. Len(s) |-> s[i]]
  BY LenProperties
<1>2. \A i \in 1 .. Len(s) : s[i] \in Range(s)
  BY <1>1 DEF Range
<1>3. [i \in 1 .. Len(s) |-> s[i]] \in Seq(Range(s))
  BY <1>1, <1>2, IsASeq
<1> QED BY <1>1, <1>3 DEF IsSeq

LEMMA SeqLength ==
  ASSUME NEW s, IsSeq(s)
  PROVE  Len(s) \in Nat /\ DOMAIN s = 1 .. Len(s) /\ s \in Seq(Range(s))
BY LenProperties DEF IsSeq

CheckedLines(output) == {i \in DOMAIN output : ~Skipped(output[i])}

OneDirectiveEach(s, at, output) ==
  /\ Ascending(at, CheckedLines(output))
  /\ s = [k \in 1 .. Len(at) |-> CheckLine(output, at[k])]

\* check_lines makes a directive of each line that is not skipped.
LEMMA CheckLinesMade ==
  ASSUME NEW output, IsSeq(output)
  PROVE  \E at : OneDirectiveEach(check_lines(output), at, output)
<1> DEFINE N == Len(output)
           keep == CheckedLines(output)
           g == [i \in 1 .. N |-> CheckLine(output, i)]
           IsAfter(f) == f = [n \in 0 .. N |->
                                IF n = 0 THEN <<>>
                                ELSE IF Skipped(output[n]) THEN f[n - 1]
                                ELSE Append(f[n - 1], CheckLine(output, n))]
           after == CHOOSE f : IsAfter(f)
<1>1. N \in Nat /\ DOMAIN output = 1 .. N /\ keep \in SUBSET (1 .. N)
  BY SeqLength DEF CheckedLines
<1>2. check_lines(output) = after[N]
  BY DEF check_lines
<1>3. \A n \in 1 .. N : (n \in keep <=> ~Skipped(output[n])) /\ g[n] = CheckLine(output, n)
  BY <1>1 DEF CheckedLines
<1> HIDE DEF keep, g, N
<1>4. ASSUME NEW f, Picks(f, N, keep, g)  PROVE IsAfter(f)
  <2>1. \A n \in 0 .. N : n # 0 => n \in 1 .. N
    BY <1>1
  <2> QED BY <1>3, <1>4, <2>1 DEF Picks
<1>5. ASSUME NEW f, IsAfter(f)  PROVE Picks(f, N, keep, g)
  <2>1. \A n \in 0 .. N : n # 0 => n \in 1 .. N
    BY <1>1
  <2> QED BY <1>3, <1>5, <2>1 DEF Picks
<1>6. \E f : IsAfter(f)
  BY <1>1, <1>4, PicksExists
<1> HIDE DEF IsAfter
<1>7. IsAfter(after)
  BY <1>6
<1> HIDE DEF after
<1>8. Picks(after, N, keep, g)
  BY <1>5, <1>7
<1>9. PICK at : Ascending(at, keep) /\ after[N] = Through(at, g)
  BY <1>1, <1>8, Picked
<1>10. \A k \in 1 .. Len(at) : g[at[k]] = CheckLine(output, at[k])
  BY <1>1, <1>3, <1>9, ElementOfSeq DEF Ascending
<1>11. after[N] = [k \in 1 .. Len(at) |-> CheckLine(output, at[k])]
  BY <1>9, <1>10 DEF Through
<1> QED BY <1>2, <1>9, <1>11 DEF OneDirectiveEach, keep

\* filtered_lines leaves no directive, and nothing that was not in the file.
LEMMA FilteredLines ==
  ASSUME NEW lines, IsSeq(lines)
  PROVE  /\ filtered_lines(lines) \in Seq(Range(lines))
         /\ \A i \in 1 .. Len(filtered_lines(lines)) : filtered_lines(lines)[i].kind \notin Types
<1> DEFINE N == Len(lines)
           keep == {i \in DOMAIN lines : ~is_check_directive(lines[i])}
           IsAfter(f) == f = [n \in 0 .. N |->
                                IF n = 0 THEN <<>>
                                ELSE IF is_check_directive(lines[n]) THEN f[n - 1]
                                ELSE Append(f[n - 1], lines[n])]
           after == CHOOSE f : IsAfter(f)
<1>1. N \in Nat /\ DOMAIN lines = 1 .. N /\ keep \in SUBSET (1 .. N)
  BY SeqLength
<1>2. filtered_lines(lines) = after[N]
  BY DEF filtered_lines
<1>3. \A n \in 1 .. N : n \in keep <=> ~is_check_directive(lines[n])
  BY <1>1
<1>4. \A n \in keep : lines[n] \in Range(lines) /\ lines[n].kind \notin Types
  BY DEF Range, is_check_directive
<1> HIDE DEF keep, N
<1>5. ASSUME NEW f, Picks(f, N, keep, lines)  PROVE IsAfter(f)
  <2>1. \A n \in 0 .. N : n # 0 => n \in 1 .. N
    BY <1>1
  <2> QED BY <1>3, <1>5, <2>1 DEF Picks
<1>6. ASSUME NEW f, IsAfter(f)  PROVE Picks(f, N, keep, lines)
  <2>1. \A n \in 0 .. N : n # 0 => n \in 1 .. N
    BY <1>1
  <2> QED BY <1>3, <1>6, <2>1 DEF Picks
<1>7. \E f : IsAfter(f)
  BY <1>1, <1>5, PicksExists
<1> HIDE DEF IsAfter
<1>8. IsAfter(after)
  BY <1>7
<1> HIDE DEF after
<1>9. PICK at : Ascending(at, keep) /\ after[N] = Through(at, lines)
  BY <1>1, <1>6, <1>8, Picked
<1> DEFINE s == Through(at, lines)
<1>10. Len(at) \in Nat /\ \A k \in 1 .. Len(at) : at[k] \in keep
  BY <1>9, ElementOfSeq, LenProperties DEF Ascending
<1>11. s = [k \in 1 .. Len(at) |-> lines[at[k]]]
  BY DEF Through
<1>12. \A k \in 1 .. Len(at) : lines[at[k]] \in Range(lines)
  BY <1>4, <1>10
<1>13. s \in Seq(Range(lines)) /\ Len(s) = Len(at)
  BY <1>10, <1>11, <1>12, IsASeq
<1>14. \A k \in 1 .. Len(s) : s[k].kind \notin Types
  BY <1>4, <1>10, <1>11, <1>13
<1> QED BY <1>2, <1>9, <1>13, <1>14

\* Where the directives are in the file, and of which lines.
Wrote(lines, lo, at, output) ==
  /\ IsSeq(lines) /\ IsSeq(output) /\ Ascending(at, CheckedLines(output))
  /\ \A i \in DOMAIN output : IsSeq(output[i])
  /\ lo \in Nat /\ lo + Len(at) <= Len(lines)
  /\ \A k \in 1 .. Len(at) : lines[lo + k] = CheckLine(output, at[k])
  /\ \A i \in 1 .. Len(lines) : i <= lo \/ lo + Len(at) < i => lines[i].kind \notin Types

WroteSomewhere(lines, output) == \E lo, at : Wrote(lines, lo, at, output)

LEMMA RewrittenWrote ==
  ASSUME NEW lines, NEW output, IsSeq(lines), IsSeq(output),
         \A i \in DOMAIN output : IsSeq(output[i])
  PROVE  WroteSomewhere(Rewritten(lines, output), output)
<1> DEFINE kept == filtered_lines(lines)
           runs == {0} \cup {i \in DOMAIN kept : kept[i].kind = "RUN"}
           r == Max(runs)
           n == Len(kept)
           before == SubSeq(kept, 1, r)
           behind == SubSeq(kept, r + 1, n)
           made == check_lines(output)
           new == before \o made \o behind
<1>1. Rewritten(lines, output) = new
  BY DEF Rewritten
<1>2. kept \in Seq(Range(lines)) /\ \A i \in 1 .. Len(kept) : kept[i].kind \notin Types
  BY FilteredLines
<1> HIDE DEF kept
<1>3. n \in Nat /\ DOMAIN kept = 1 .. n
  BY <1>2, LenProperties
<1>4. r \in 0 .. n
  <2>1. runs \in SUBSET (0 .. n) /\ runs # {}
    BY <1>3
  <2> HIDE DEF runs, n
  <2> QED BY <1>3, <2>1, MaxIsGreatest
<1> HIDE DEF r
<1>5. PICK at : OneDirectiveEach(made, at, output)
  BY CheckLinesMade
<1> HIDE DEF made
<1>6. /\ Ascending(at, CheckedLines(output)) /\ Len(at) \in Nat
      /\ made = [k \in 1 .. Len(at) |-> CheckLine(output, at[k])]
  BY <1>5, LenProperties DEF OneDirectiveEach, Ascending
<1> DEFINE S == Range(lines) \cup {CheckLine(output, at[k]) : k \in 1 .. Len(at)}
<1>7. made \in Seq(S) /\ Len(made) = Len(at)
  BY <1>6, IsASeq
<1>8. /\ before \in Seq(S) /\ Len(before) = r
      /\ behind \in Seq(S) /\ Len(behind) = n - r
      /\ \A i \in 1 .. r : before[i].kind \notin Types
      /\ \A i \in 1 .. n - r : behind[i].kind \notin Types
  <2>1. \A i \in 1 .. n : kept[i] \in S
    BY <1>2, ElementOfSeq
  <2> HIDE DEF S, n
  <2>2. /\ before \in Seq(S) /\ Len(before) = IF 1 <= r THEN r - 1 + 1 ELSE 0
        /\ \A i \in 1 .. r - 1 + 1 : before[i] = kept[1 + i - 1]
    BY <1>3, <1>4, <2>1, SubSeqProperties
  <2>3. /\ behind \in Seq(S)
        /\ Len(behind) = IF r + 1 <= n THEN n - (r + 1) + 1 ELSE 0
        /\ \A i \in 1 .. n - (r + 1) + 1 : behind[i] = kept[r + 1 + i - 1]
    BY <1>3, <1>4, <2>1, SubSeqProperties, SMTT(30)
  <2>4. Len(before) = r /\ Len(behind) = n - r
    BY <1>3, <1>4, <2>2, <2>3
  <2>5. ASSUME NEW i \in 1 .. r  PROVE before[i].kind \notin Types
    <3>1. i \in 1 .. r - 1 + 1 /\ 1 + i - 1 = i /\ i \in 1 .. n
      BY <1>3, <1>4
    <3> HIDE DEF before
    <3>2. before[i] = kept[i]
      BY <2>2, <3>1
    <3> QED BY <1>2, <3>1, <3>2 DEF n
  <2>6. ASSUME NEW i \in 1 .. n - r  PROVE behind[i].kind \notin Types
    <3>1. i \in 1 .. n - (r + 1) + 1 /\ r + 1 + i - 1 = r + i /\ r + i \in 1 .. n
      BY <1>3, <1>4
    <3> HIDE DEF behind
    <3>2. behind[i] = kept[r + i]
      BY <2>3, <3>1
    <3> QED BY <1>2, <3>1, <3>2 DEF n
  <2> QED BY <2>2, <2>3, <2>4, <2>5, <2>6
<1> HIDE DEF before, behind, S, n
<1>9. /\ new \in Seq(S) /\ Len(new) = r + Len(at) + (n - r)
      /\ \A i \in 1 .. r : new[i] = before[i]
      /\ \A i \in 1 .. Len(at) : new[r + i] = made[i]
      /\ \A i \in 1 .. n - r : new[r + Len(at) + i] = behind[i]
  <2>1. /\ new \in Seq(S) /\ Len(new) = Len(before) + Len(made) + Len(behind)
        /\ \A i \in 1 .. Len(before) : new[i] = before[i]
        /\ \A i \in 1 .. Len(made) : new[Len(before) + i] = made[i]
        /\ \A i \in 1 .. Len(behind) : new[Len(before) + Len(made) + i] = behind[i]
    <3>1. made \in Seq(S) /\ before \in Seq(S) /\ behind \in Seq(S)
      BY <1>7, <1>8
    <3> QED BY <3>1, Spliced
  <2> HIDE DEF new
  <2> QED BY <2>1, <1>7, <1>8
<1> HIDE DEF new
<1>10. IsSeq(new) /\ r \in Nat /\ r + Len(at) <= Len(new)
  BY <1>3, <1>4, <1>6, <1>9, SeqIsSeq
<1>11. \A k \in 1 .. Len(at) : new[r + k] = CheckLine(output, at[k])
  BY <1>6, <1>9
<1>12. ASSUME NEW i \in 1 .. Len(new), i <= r \/ r + Len(at) < i  PROVE new[i].kind \notin Types
  <2>1. CASE i <= r
    <3>1. i \in 1 .. r
      BY <1>4, <2>1
    <3> QED BY <3>1, <1>8, <1>9
  <2>2. CASE r + Len(at) < i
    <3> DEFINE j == i - (r + Len(at))
    <3>1. j \in 1 .. n - r /\ r + Len(at) + j = i
      BY <1>3, <1>4, <1>6, <1>9, <2>2
    <3> HIDE DEF j
    <3> QED BY <3>1, <1>8, <1>9
  <2> QED BY <2>1, <2>2, <1>12
<1>13. Wrote(new, r, at, output)
  BY <1>6, <1>10, <1>11, <1>12 DEF Wrote
<1> QED BY <1>1, <1>13 DEF WroteSomewhere
\* The check that is made of the directive of a line.
CheckOf(output, i) == [type |-> Directive(output, i), pattern |-> Written(output[i])]
ChecksOf(output, at, n) == [k \in 1 .. n |-> CheckOf(output, at[k])]

\* The directives among the lines parsed.
Parsed(lo, at) ==
  IF line_num <= lo THEN 0 ELSE IF line_num <= lo + Len(at) THEN line_num - lo ELSE Len(at)

\* The check runs on the output the file was last rewritten from.
OnTheSame ==
  /\ input_lines = updated_from /\ Checkable(input_lines)
  /\ \A i \in DOMAIN file : file[i].kind # "unknown"

\* The directives are parsed one by one, and each matches the line it is of.
Retraces(lo, at) ==
  /\ phase = "parse" =>
       /\ line_num \in Nat /\ line_num <= Len(file) /\ unknown_directive_count = 0
       /\ checks = ChecksOf(input_lines, at, Parsed(lo, at))
  /\ phase = "check" =>
       /\ checks = ChecksOf(input_lines, at, Len(at))
       /\ \A k \in 1 .. Len(at) : k < check_idx => matched[k] = at[k]
  /\ result \notin {"fail", "refused"}

UpdatedWell ==
  updated_from # <<>> =>
    \E lo, at : Wrote(file, lo, at, updated_from) /\ (OnTheSame => Retraces(lo, at))

SessionTyped ==
  /\ IsSeq(file) /\ IsSeq(commands)
  /\ \A run \in Range(commands) : IsSeq(run.output) /\ \A line \in Range(run.output) : IsSeq(line)

UpdateInv == IInv /\ SessionTyped /\ UpdatedWell

LEMMA UpdateInvInit == Init => UpdateInv
<1> SUFFICES ASSUME Init  PROVE UpdateInv
  OBVIOUS
<1>1. SessionTyped
  BY SessionsAssumption DEF Init, SessionTyped
<1>2. UpdatedWell
  BY DEF Init, UpdatedWell
<1> QED BY <1>1, <1>2, InitIInv DEF UpdateInv

LEMMA UpdateInvMeans == UpdateInv => UpdatedPasses
<1> SUFFICES ASSUME UpdateInv, OnTheSame  PROVE result \notin {"fail", "refused"}
  BY DEF UpdatedPasses, OnTheSame
<1>1. updated_from # <<>>
  <2>1. PICK i \in DOMAIN updated_from : TRUE
    BY DEF OnTheSame, Checkable
  <2>2. DOMAIN <<>> = {}
    OBVIOUS
  <2> QED BY <2>1, <2>2
<1> QED BY <1>1 DEF UpdateInv, UpdatedWell, Retraces

LEMMA SessionTypedStep == SessionTyped /\ [Next]_vars => SessionTyped'
<1> SUFFICES ASSUME SessionTyped, [Next]_vars  PROVE SessionTyped'
  OBVIOUS
<1>1. ASSUME commands # <<>>, commands' = Tail(commands)
      PROVE  /\ IsSeq(commands') /\ Range(commands') \subseteq Range(commands)
             /\ Head(commands) \in Range(commands)
  <2>1. /\ commands \in Seq(Range(commands)) /\ Len(commands) \in Nat
        /\ DOMAIN commands = 1 .. Len(commands)
    BY SeqLength DEF SessionTyped
  <2>2. /\ commands' \in Seq(Range(commands)) /\ Head(commands) \in Range(commands)
    BY <1>1, <2>1, HeadTailProperties
  <2>3. \A S, s : s \in Seq(S) => IsSeq(s) /\ Range(s) \subseteq S
    BY SeqIsSeq, ElementOfSeq, LenProperties DEF Range
  <2> QED BY <2>2, <2>3
<1>2. CASE StartCheck
  BY <1>1, <1>2 DEF StartCheck, SessionTyped, fileState
<1>3. CASE update
  <2>1. commands # <<>> /\ commands' = Tail(commands) /\ IsSeq(commands')
        /\ Range(commands') \subseteq Range(commands)
    BY <1>1, <1>3 DEF update
  <2>2. /\ input_lines' = Head(commands).output /\ IsSeq(input_lines')
        /\ \A i \in DOMAIN input_lines' : IsSeq(input_lines'[i])
    BY <1>1, <1>3, <2>1 DEF update, SessionTyped, Range
  <2>3. WroteSomewhere(Rewritten(file, input_lines'), input_lines')
    BY <2>2, RewrittenWrote DEF SessionTyped
  <2>4. IsSeq(file')
    BY <1>3, <2>3 DEF update, WroteSomewhere, Wrote
  <2> QED BY <2>1, <2>4 DEF SessionTyped
<1>4. CASE parse_check_line \/ ParsedAll \/ UNCHANGED vars
  BY <1>4 DEF parse_check_line, ParsedAll, SessionTyped, fileState, vars
<1>5. CASE CheckNot \/ CheckNext \/ CheckSame \/ CheckPlain \/ CheckTrailing
  BY <1>5 DEF CheckNot, CheckNext, CheckSame, CheckPlain, CheckTrailing, Kept, SessionTyped, fileState
<1> QED BY <1>2, <1>3, <1>4, <1>5 DEF Next

-----------------------------------------------------------------------------

\* What a directive that was written says.
Says(lo, at, output) ==
  /\ Len(at) \in Nat /\ Len(at) >= 1 /\ lo \in Nat
  /\ Len(file) \in Nat /\ lo + Len(at) <= Len(file) /\ DOMAIN file = 1 .. Len(file)
  /\ Len(output) \in Nat /\ DOMAIN output = 1 .. Len(output)
  /\ \A k \in 1 .. Len(at) :
       /\ at[k] \in 1 .. Len(output) /\ ~Skipped(output[at[k]])
       /\ CheckOf(output, at[k]).type \in {"PLAIN", "NEXT"}
       /\ CheckOf(output, at[k]).pattern # <<>>
  /\ \A n \in Nat : /\ Len(ChecksOf(output, at, n)) = n
                    /\ \A k \in 1 .. n : ChecksOf(output, at, n)[k] = CheckOf(output, at[k])

LEMMA WrittenSays ==
  ASSUME NEW lo, NEW at, NEW output, Wrote(file, lo, at, output), Checkable(output)
  PROVE  Says(lo, at, output)
<1>1. /\ IsSeq(file) /\ IsSeq(output) /\ Ascending(at, CheckedLines(output))
      /\ lo \in Nat /\ lo + Len(at) <= Len(file)
  BY DEF Wrote
<1>2. /\ Len(at) \in Nat /\ Len(file) \in Nat /\ DOMAIN file = 1 .. Len(file)
      /\ Len(output) \in Nat /\ DOMAIN output = 1 .. Len(output)
      /\ \A k \in 1 .. Len(at) : at[k] \in CheckedLines(output)
  BY <1>1, SeqLength, ElementOfSeq, LenProperties DEF Ascending
<1>3. Len(at) >= 1
  <2>1. PICK i \in DOMAIN output : ~Skipped(output[i])
    BY DEF Checkable
  <2>2. i \in CheckedLines(output)
    BY <2>1 DEF CheckedLines
  <2>3. PICK k \in 1 .. Len(at) : at[k] = i
    BY <1>1, <2>2 DEF Ascending
  <2> QED BY <1>2, <2>3
<1>4. ASSUME NEW k \in 1 .. Len(at)
      PROVE  /\ at[k] \in 1 .. Len(output) /\ ~Skipped(output[at[k]])
             /\ CheckOf(output, at[k]).type \in {"PLAIN", "NEXT"}
             /\ CheckOf(output, at[k]).pattern # <<>>
  <2>1. at[k] \in 1 .. Len(output) /\ at[k] \in DOMAIN output /\ ~Skipped(output[at[k]])
    BY <1>2 DEF CheckedLines
  <2>2. CheckOf(output, at[k]).type \in {"PLAIN", "NEXT"}
    BY DEF CheckOf, Directive
  <2>3. CheckOf(output, at[k]).pattern # <<>>
    BY <2>1 DEF CheckOf, Checkable
  <2> QED BY <2>1, <2>2, <2>3
<1>5. ASSUME NEW n \in Nat
      PROVE  /\ Len(ChecksOf(output, at, n)) = n
             /\ \A k \in 1 .. n : ChecksOf(output, at, n)[k] = CheckOf(output, at[k])
  BY DEF ChecksOf
<1> QED BY <1>1, <1>2, <1>3, <1>4, <1>5 DEF Says

\* A line of the file is parsed.
LEMMA RetracesParse ==
  ASSUME parse_check_line, NEW lo, NEW at, Wrote(file, lo, at, updated_from), OnTheSame,
         Retraces(lo, at)
  PROVE  Retraces(lo, at)'
<1> DEFINE i == line_num + 1
           line == file[i]
           m == Parsed(lo, at)
           pattern == trim(line.text)
           found == line.kind \in Types /\ pattern # <<>>
           unknown == ~found /\ line.kind \in (Types \ {"PLAIN"}) \cup {"unknown"}
           out == input_lines
<1>1. /\ phase = "parse" /\ phase' = phase /\ line_num < Len(file) /\ line_num' = i
      /\ checks' = IF found THEN Append(checks, [type |-> line.kind, pattern |-> pattern]) ELSE checks
      /\ unknown_directive_count' = unknown_directive_count + (IF unknown THEN 1 ELSE 0)
      /\ file' = file /\ input_lines' = out /\ result' = result
  BY DEF parse_check_line, fileState
<1>2. /\ line_num \in Nat /\ unknown_directive_count = 0 /\ checks = ChecksOf(out, at, m)
      /\ result \notin {"fail", "refused"}
  BY <1>1 DEF Retraces
<1>3. /\ Wrote(file, lo, at, out) /\ Checkable(out)
      /\ \A j \in DOMAIN file : file[j].kind # "unknown"
  BY DEF OnTheSame
<1> HIDE DEF out
<1>4. /\ Len(at) \in Nat /\ lo \in Nat /\ Len(file) \in Nat /\ DOMAIN file = 1 .. Len(file)
      /\ \A k \in 1 .. Len(at) : /\ CheckOf(out, at[k]).type \in {"PLAIN", "NEXT"}
                                 /\ CheckOf(out, at[k]).pattern # <<>>
      /\ \A n \in Nat : /\ Len(ChecksOf(out, at, n)) = n
                        /\ \A k \in 1 .. n : ChecksOf(out, at, n)[k] = CheckOf(out, at[k])
  <2>1. Says(lo, at, out)
    BY <1>3, WrittenSays
  <2> QED BY <2>1 DEF Says
<1>5. i \in 1 .. Len(file) /\ i <= Len(file) /\ i \in Nat
  BY <1>1, <1>2, <1>4
<1>6. m \in 0 .. Len(at)
  BY <1>2, <1>4 DEF Parsed
<1> DEFINE m2 == IF i <= lo THEN 0 ELSE IF i <= lo + Len(at) THEN i - lo ELSE Len(at)
<1>7. Parsed(lo, at)' = m2
  BY <1>1 DEF Parsed
<1>8. CASE i <= lo \/ lo + Len(at) < i
  <2>1. line.kind \notin Types /\ line.kind # "unknown"
    BY <1>3, <1>4, <1>5, <1>8 DEF Wrote
  <2>2. ~found /\ ~unknown
    BY <2>1
  <2>3. m2 = m
    BY <1>2, <1>4, <1>8 DEF Parsed
  <2> HIDE DEF m, m2, found, unknown, i
  <2>4. checks' = ChecksOf(out, at, m2) /\ unknown_directive_count' = 0
    BY <1>1, <1>2, <2>2, <2>3
  <2> QED BY <1>1, <1>2, <1>5, <1>7, <2>4 DEF Retraces, out
<1>9. CASE ~(i <= lo \/ lo + Len(at) < i)
  <2>1. m + 1 \in 1 .. Len(at) /\ lo + (m + 1) = i /\ m2 = m + 1
    BY <1>2, <1>4, <1>9 DEF Parsed
  <2> DEFINE k == m + 1
             c == CheckOf(out, at[k])
  <2>2. line = CheckLine(out, at[k])
    <3>1. k \in 1 .. Len(at) /\ lo + k = i
      BY <2>1
    <3> HIDE DEF k, i
    <3>2. file[lo + k] = CheckLine(out, at[k])
      BY <3>1, <1>3 DEF Wrote
    <3> QED BY <3>1, <3>2
  <2>3. line.kind = c.type /\ pattern = c.pattern
    BY <2>2 DEF CheckLine, CheckOf, Written
  <2>4. c = [type |-> line.kind, pattern |-> pattern]
    BY <2>3 DEF CheckOf
  <2>5. c.type \in {"PLAIN", "NEXT"} /\ c.pattern # <<>>
    BY <2>1, <1>4
  <2>6. found /\ ~unknown
    BY <2>3, <2>5 DEF Types
  <2>7. checks' = Append(checks, c) /\ unknown_directive_count' = 0
    <3> HIDE DEF found, unknown, c, pattern, line
    <3> QED BY <1>1, <1>2, <2>4, <2>6
  <2>8. Append(ChecksOf(out, at, m), c) = ChecksOf(out, at, k)
    <3> DEFINE S == {CheckOf(out, at[j]) : j \in 1 .. k}
               s == ChecksOf(out, at, m)
               t == Append(s, c)
    <3>0. m \in Nat /\ k \in Nat /\ k = m + 1 /\ \A j \in 1 .. k : j \in 1 .. m \/ j = m + 1
      BY <1>6
    <3> HIDE DEF m
    <3>1. s = [j \in 1 .. m |-> CheckOf(out, at[j])] /\ \A j \in 1 .. m : CheckOf(out, at[j]) \in S
      BY <3>0 DEF ChecksOf
    <3>2. s \in Seq(S) /\ Len(s) = m /\ c \in S
      <4>1. s \in Seq(S)
        BY <3>0, <3>1, IsASeq
      <4>2. c \in S
        BY <3>0
      <4> QED BY <4>1, <4>2, <3>0, <3>1
    <3> HIDE DEF S, k, c
    <3>3. t \in Seq(S) /\ Len(t) = m + 1 /\ t[m + 1] = c /\ \A j \in 1 .. m : t[j] = s[j]
      BY <3>2, AppendToSeq
    <3> HIDE DEF s
    <3>4. t = [j \in 1 .. k |-> t[j]]
      BY <3>0, <3>3, LenProperties
    <3> HIDE DEF t
    <3>5. \A j \in 1 .. k : t[j] = CheckOf(out, at[j])
      BY <3>0, <3>1, <3>3 DEF c, k
    <3>6. t = ChecksOf(out, at, k)
      BY <3>4, <3>5 DEF ChecksOf
    <3> QED BY <3>6 DEF t, s
  <2> HIDE DEF m, m2, i, c
  <2>9. checks' = ChecksOf(out, at, m2)
    BY <1>2, <2>1, <2>7, <2>8
  <2> QED BY <1>1, <1>2, <1>5, <1>7, <2>7, <2>9 DEF Retraces, out
<1> QED BY <1>8, <1>9
\* All lines are parsed.
LEMMA RetracesAll ==
  ASSUME IInv, ParsedAll, NEW lo, NEW at, Wrote(file, lo, at, updated_from), OnTheSame,
         Retraces(lo, at)
  PROVE  Retraces(lo, at)'
<1>1. /\ phase = "parse" /\ line_num = Len(file) /\ checks' = checks /\ input_lines' = input_lines
      /\ matched' = matched /\ check_idx' = check_idx
  BY DEF ParsedAll, parseState, matchState
<1>2. /\ unknown_directive_count = 0 /\ checks = ChecksOf(input_lines, at, Parsed(lo, at))
      /\ result \notin {"fail", "refused"}
  BY <1>1 DEF Retraces
<1>3. Says(lo, at, input_lines)
  BY WrittenSays DEF OnTheSame
<1>4. Parsed(lo, at) = Len(at)
  BY <1>1, <1>3 DEF Says, Parsed
<1>5. checks # <<>>
  <2>1. Len(checks) = Len(at) /\ Len(at) >= 1
    BY <1>2, <1>3, <1>4 DEF Says
  <2> QED BY <2>1
<1>6. phase' = "check" /\ result' = result
  BY <1>2, <1>5 DEF ParsedAll
<1>7. matched = <<>> /\ check_idx \in Nat /\ check_idx = 1
  BY <1>1, LenProperties DEF IInv, Counts
<1>8. \A k \in 1 .. Len(at) : ~(k < check_idx)
  BY <1>3, <1>7 DEF Says
<1> QED BY <1>1, <1>2, <1>4, <1>6, <1>8 DEF Retraces

\* What is so at the check to be made next.
NextCheck(at, out) ==
  /\ Len(checks) = Len(at) /\ Len(at) \in Nat /\ check_idx \in Nat \ {0}
  /\ matched \in Seq(Nat) /\ Len(matched) = check_idx - 1
  /\ last_match_line \in Nat /\ input_idx = last_match_line + 1
  /\ last_match_line = IF check_idx = 1 THEN 0 ELSE matched[check_idx - 1]
  /\ \A k \in 1 .. Len(at) : k < check_idx => matched[k] = at[k]
  /\ \A k \in 1 .. Len(at) :
       /\ checks[k] = CheckOf(out, at[k])
       /\ checks[k].type \in {"PLAIN", "NEXT"}
       /\ at[k] \in 1 .. Len(out) /\ ~Skipped(out[at[k]])
  /\ Len(out) \in Nat /\ DOMAIN out = 1 .. Len(out)
  /\ Ascending(at, CheckedLines(out)) /\ Checkable(out)
  /\ IsSeq(out) /\ \A i \in DOMAIN out : IsSeq(out[i])

LEMMA AtNextCheck ==
  ASSUME IInv, phase = "check", NEW lo, NEW at, Wrote(file, lo, at, updated_from), OnTheSame,
         Retraces(lo, at)
  PROVE  NextCheck(at, input_lines)
<1>1. /\ checks = ChecksOf(input_lines, at, Len(at))
      /\ \A k \in 1 .. Len(at) : k < check_idx => matched[k] = at[k]
  BY DEF Retraces
<1>2. Says(lo, at, input_lines) /\ Checkable(input_lines)
  BY WrittenSays DEF OnTheSame
<1>3. /\ check_idx \in Nat \ {0} /\ matched \in Seq(Nat) /\ Len(matched) = check_idx - 1
      /\ last_match_line \in Nat /\ input_idx = last_match_line + 1
      /\ last_match_line = Before(matched, check_idx)
  BY LenProperties DEF IInv, Counts
<1>4. /\ Ascending(at, CheckedLines(input_lines)) /\ IsSeq(input_lines)
      /\ \A i \in DOMAIN input_lines : IsSeq(input_lines[i])
  BY DEF Wrote, OnTheSame
<1>5. Len(checks) = Len(at) /\ \A k \in 1 .. Len(at) : checks[k] = CheckOf(input_lines, at[k])
  BY <1>1, <1>2 DEF Says
<1>6. \A k \in 1 .. Len(at) : checks[k].type \in {"PLAIN", "NEXT"}
  BY <1>2, <1>5 DEF Says
<1> QED BY <1>1, <1>2, <1>3, <1>4, <1>5, <1>6 DEF NextCheck, Before, Says

LEMMA NothingPending ==
  ASSUME NEW at, NextCheck(at, input_lines), check_idx <= Len(checks) + 1
  PROVE  pending_nots(check_idx) = {}
<1> SUFFICES ASSUME NEW j \in 1 .. check_idx - 1,
                    \A k \in j .. check_idx - 1 : checks[k].type = "NOT"
             PROVE  FALSE
  BY DEF pending_nots
<1>1. j \in 1 .. Len(at) /\ j \in j .. check_idx - 1
  BY DEF NextCheck
<1> QED BY <1>1 DEF NextCheck

\* Between the line matched last and the line of the next directive, all are
\* skipped.
LEMMA NextLine ==
  ASSUME NEW at, NEW out, NextCheck(at, out), check_idx <= Len(checks)
  PROVE  /\ check_idx \in 1 .. Len(at) /\ last_match_line < at[check_idx]
         /\ \A l \in last_match_line + 1 .. at[check_idx] - 1 : Skipped(out[l])
<1> DEFINE i == check_idx
           keep == CheckedLines(out)
<1>1. i \in 1 .. Len(at) /\ at[i] \in 1 .. Len(out)
  BY DEF NextCheck
<1>2. last_match_line < at[i]
  <2>1. CASE i = 1
    BY <2>1, <1>1 DEF NextCheck
  <2>2. CASE i # 1
    <3> DEFINE j == i - 1
    <3>1. j \in 1 .. Len(at) /\ j < i
      BY <1>1, <2>2
    <3>2. last_match_line = matched[j]
      BY <2>2 DEF NextCheck
    <3> HIDE DEF j, i
    <3>3. matched[j] = at[j]
      BY <3>1 DEF NextCheck, i
    <3>4. at[j] < at[i]
      BY <1>1, <3>1 DEF NextCheck, Ascending
    <3> QED BY <3>2, <3>3, <3>4
  <2> QED BY <2>1, <2>2
<1>3. ASSUME NEW l \in last_match_line + 1 .. at[i] - 1, ~Skipped(out[l])  PROVE FALSE
  <2>1. last_match_line \in Nat /\ Len(out) \in Nat /\ DOMAIN out = 1 .. Len(out)
    BY DEF NextCheck
  <2>2. l \in 1 .. Len(out) /\ l < at[i] /\ l > last_match_line /\ l \in Nat
    BY <1>1, <2>1
  <2>3. l \in keep /\ keep \in SUBSET Nat
    BY <1>3, <2>1, <2>2 DEF CheckedLines
  <2>4. Ascending(at, keep)
    BY DEF NextCheck
  <2> HIDE DEF keep, i
  <2>5. i # 1 /\ i - 1 \in 1 .. Len(at) /\ l <= at[i - 1]
    BY <1>1, <2>2, <2>3, <2>4, AscendingGap
  <2>6. i - 1 < check_idx
    BY <1>1 DEF i, NextCheck
  <2>7. last_match_line = matched[i - 1]
    BY <2>5 DEF i, NextCheck
  <2> DEFINE j == i - 1
  <2> HIDE DEF j
  <2>8. j \in 1 .. Len(at) /\ j < check_idx /\ last_match_line = matched[j] /\ l <= at[j]
    BY <2>5, <2>6, <2>7 DEF j
  <2>9. matched[j] = at[j]
    BY <2>8 DEF NextCheck
  <2> QED BY <2>1, <2>2, <2>8, <2>9
<1> QED BY <1>1, <1>2, <1>3

\* A piece of a line matches it, if every piece of it stands for itself.
LEMMA PieceMatches ==
  ASSUME NEW line, IsSeq(line), NEW pattern, StandsIn(pattern, line),
         \A k \in DOMAIN pattern : stands_for(pattern[k]) = pattern[k]
  PROVE  match_pattern(line, pattern)
<1> DEFINE N == Len(line)
           X == SUBSET (1 .. N + 1)
           M == Len(pattern)
           any(P) == {q \in 1 .. N + 1 : \E p \in P : p <= q}
           one(P, n) == {q \in 2 .. N + 1 : q - 1 \in P /\ line[q - 1] = stands_for(pattern[n])}
           more(P, n) == IF pattern[n] = AnyText THEN any(P) ELSE one(P, n)
           IsEnds(f) == f = [n \in 0 .. M |->
                               IF n = 0 THEN 1 .. N + 1
                               ELSE IF pattern[n] = AnyText
                               THEN {q \in 1 .. N + 1 : \E p \in f[n - 1] : p <= q}
                               ELSE {q \in 2 .. N + 1 : q - 1 \in f[n - 1]
                                                         /\ line[q - 1] = stands_for(pattern[n])}]
           ends == CHOOSE f : IsEnds(f)
<1>1. N \in Nat /\ DOMAIN line = 1 .. N /\ line \in Seq(Range(line))
  BY SeqLength
<1>2. PICK from \in 1 .. N, to \in 1 .. N : pattern = SubSeq(line, from, to)
  BY <1>1 DEF StandsIn
<1>3. /\ M \in Nat /\ DOMAIN pattern = 1 .. M /\ from + M <= N + 1
      /\ \A n \in 1 .. M : pattern[n] = line[from + n - 1]
  <2>1. /\ pattern \in Seq(Range(line))
        /\ Len(pattern) = IF from <= to THEN to - from + 1 ELSE 0
        /\ \A n \in 1 .. to - from + 1 : pattern[n] = line[from + n - 1]
    BY <1>1, <1>2, SubSeqProperties
  <2> QED BY <1>1, <2>1, LenProperties
<1>4. match_pattern(line, pattern) <=> ends[M] # {}
  BY DEF match_pattern
<1> HIDE DEF N, M
<1>5. \E f : IsEnds(f)
  <2> DEFINE g == [x \in Nat \X X |-> IF x[1] < M THEN more(x[2], x[1] + 1) ELSE x[2]]
             b == 1 .. N + 1
  <2>1. b \in X /\ g \in [Nat \X X -> X]
    <3>1. ASSUME NEW n, NEW P \in X  PROVE more(P, n) \in X
      BY <1>1
    <3> QED BY <3>1
  <2>2. PICK f : Recurs(f, X, b, g)
    <3> HIDE DEF b, g, X
    <3> QED BY <2>1, Recursion
  <2>3. /\ f[0] = b
        /\ \A n \in Nat : f[n] \in X /\ f[n + 1] = g[<<n, f[n]>>]
    BY <2>2 DEF Recurs
  <2>4. ASSUME NEW n \in 0 .. M, n # 0  PROVE f[n] = more(f[n - 1], n)
    <3>1. n - 1 \in Nat /\ n - 1 + 1 = n /\ n - 1 < M
      BY <1>3, <2>4
    <3>2. f[n] = g[<<n - 1, f[n - 1]>>] /\ f[n - 1] \in X
      <4> DEFINE m == n - 1
      <4> HIDE DEF g, X, m
      <4>1. f[m + 1] = g[<<m, f[m]>>] /\ f[m] \in X
        BY <2>3, <3>1 DEF m
      <4> QED BY <3>1, <4>1 DEF m
    <3> HIDE DEF more, X
    <3> QED BY <3>1, <3>2
  <2> DEFINE h == [n \in 0 .. M |-> f[n]]
  <2>5. ASSUME NEW n \in 0 .. M  PROVE n # 0 => h[n - 1] = f[n - 1]
    <3>1. n # 0 => n - 1 \in 0 .. M
      BY <1>3
    <3> QED BY <3>1
  <2>6. IsEnds(h)
    BY <2>3, <2>4, <2>5
  <2> QED BY <2>6
<1> HIDE DEF IsEnds
<1>6. IsEnds(ends)
  BY <1>5
<1> HIDE DEF ends
<1>7. /\ ends[0] = 1 .. N + 1
      /\ \A n \in 1 .. M : ends[n] = more(ends[n - 1], n)
  <2>1. 0 \in 0 .. M /\ \A n \in 1 .. M : n \in 0 .. M /\ n # 0
    BY <1>3
  <2> QED BY <1>6, <2>1 DEF IsEnds
<1> DEFINE S == {n \in Nat : n <= M => from + n \in ends[n]}
<1>8. 0 \in S
  BY <1>1, <1>7
<1>9. ASSUME NEW n \in Nat, n \in S  PROVE n + 1 \in S
  <2> SUFFICES ASSUME n + 1 <= M  PROVE from + (n + 1) \in ends[n + 1]
    OBVIOUS
  <2>1. n + 1 \in 1 .. M /\ n + 1 - 1 = n /\ from + n \in ends[n]
    BY <1>3, <1>9
  <2>2. ends[n + 1] = more(ends[n], n + 1)
    <3> DEFINE k == n + 1
    <3> HIDE DEF more, k
    <3>1. ends[k] = more(ends[k - 1], k) /\ k - 1 = n
      BY <1>7, <2>1 DEF k
    <3> QED BY <3>1 DEF k
  <2>3. from + (n + 1) \in 2 .. N + 1 /\ from + (n + 1) - 1 = from + n /\ from + n <= from + (n + 1)
    BY <1>1, <1>3, <2>1
  <2>4. line[from + n] = stands_for(pattern[n + 1])
    <3>1. pattern[n + 1] = line[from + (n + 1) - 1] /\ n + 1 \in DOMAIN pattern
      BY <1>3, <2>1
    <3> QED BY <2>3, <3>1
  <2>5. from + (n + 1) \in any(ends[n]) /\ from + (n + 1) \in one(ends[n], n + 1)
    BY <2>1, <2>3, <2>4
  <2> QED BY <2>2, <2>5
<1> HIDE DEF S
<1>10. M \in S
  BY <1>3, <1>8, <1>9, NatInductionSet
<1> QED BY <1>3, <1>4, <1>10 DEF S

\* A line has the pattern of the directive made of it.
LEMMA PatternOfLine ==
  ASSUME NEW output, IsSeq(output), Checkable(output), NEW i \in DOMAIN output,
         IsSeq(output[i]), ~Skipped(output[i])
  PROVE  match_pattern(output[i], CheckOf(output, i).pattern)
BY PieceMatches DEF CheckOf, Checkable

\* The next check is made, and matches the line its directive is of.
LEMMA RetracesMatch ==
  ASSUME phase = "check", NEW lo, NEW at, OnTheSame,
         Retraces(lo, at), NextCheck(at, input_lines), check_idx <= Len(checks),
         MatchedAt(at[check_idx]), Kept
  PROVE  Retraces(lo, at)'
<1>1. /\ checks' = checks /\ input_lines' = input_lines /\ phase' = "check" /\ result' = result
      /\ matched' = Append(matched, at[check_idx]) /\ check_idx' = check_idx + 1
  BY DEF MatchedAt, Kept, parseState
<1>2. /\ matched \in Seq(Nat) /\ check_idx \in Nat \ {0} /\ Len(matched) = check_idx - 1
      /\ check_idx \in 1 .. Len(at) /\ at[check_idx] \in Nat
  BY DEF NextCheck
<1>3. ASSUME NEW k \in 1 .. Len(at), k < check_idx + 1  PROVE matched'[k] = at[k]
  <2>1. Len(matched) + 1 = check_idx
    BY <1>2
  <2>2. matched'[check_idx] = at[check_idx]
        /\ \A j \in 1 .. Len(matched) : matched'[j] = matched[j]
    BY <1>1, <1>2, <2>1, AppendToSeq
  <2>3. CASE k = check_idx
    BY <2>2, <2>3
  <2>4. CASE k < check_idx
    <3>1. k \in 1 .. Len(matched)
      BY <1>2, <2>4
    <3> QED BY <3>1, <2>2, <2>4 DEF NextCheck
  <2> QED BY <1>2, <1>3, <2>3, <2>4
<1>4. checks' = ChecksOf(input_lines', at, Len(at))
  BY <1>1 DEF Retraces
<1>5. result' \notin {"fail", "refused"}
  BY <1>1 DEF Retraces
<1> QED BY <1>1, <1>3, <1>4, <1>5 DEF Retraces

LEMMA RetracesNext ==
  ASSUME CheckNext, phase = "check", NEW lo, NEW at, OnTheSame, Retraces(lo, at),
         NextCheck(at, input_lines)
  PROVE  Retraces(lo, at)'
<1> DEFINE next_line == last_match_line + 1
           i == at[check_idx]
<1>1. checks[check_idx].type = "NEXT" /\ check_idx <= Len(checks) /\ Kept
  BY DEF CheckNext, Makes
<1>2. /\ check_idx \in 1 .. Len(at) /\ last_match_line < i
      /\ \A l \in last_match_line + 1 .. i - 1 : Skipped(input_lines[l])
  BY <1>1, NextLine
<1>3. /\ checks[check_idx] = CheckOf(input_lines, i) /\ i \in 1 .. Len(input_lines)
      /\ Len(input_lines) \in Nat /\ last_match_line \in Nat
      /\ i \in DOMAIN input_lines /\ ~Skipped(input_lines[i])
  BY <1>2 DEF NextCheck
<1>4. i # 1 /\ ~Skipped(input_lines[i - 1])
  BY <1>1, <1>3 DEF CheckOf, Directive
<1> HIDE DEF i
<1>5. next_line = i
  <2>1. i - 1 \notin last_match_line + 1 .. i - 1
    BY <1>2, <1>4
  <2> QED BY <2>1, <1>2, <1>3
<1>6. match_pattern(input_lines[i], Pattern(check_idx))
  BY <1>3, PatternOfLine DEF Pattern, NextCheck
<1>7. ~Forbidden(pending_nots(check_idx), input_idx .. next_line)
  <2>1. pending_nots(check_idx) = {}
    BY <1>1, <1>2, NothingPending DEF NextCheck
  <2> QED BY <2>1 DEF Forbidden
<1>8. MatchedAt(next_line)
  <2>1. next_line <= Len(input_lines) /\ match_pattern(input_lines[next_line], Pattern(check_idx))
    BY <1>3, <1>5, <1>6
  <2> QED BY <2>1, <1>7 DEF CheckNext
<1>9. MatchedAt(at[check_idx])
  BY <1>5, <1>8 DEF i
<1> QED BY <1>1, <1>9, RetracesMatch

LEMMA RetracesPlain ==
  ASSUME CheckPlain, phase = "check", NEW lo, NEW at, OnTheSame, Retraces(lo, at),
         NextCheck(at, input_lines)
  PROVE  Retraces(lo, at)'
<1> DEFINE i == at[check_idx]
<1>1. check_idx <= Len(checks) /\ Kept
  BY DEF CheckPlain, Makes
<1>2. /\ check_idx \in 1 .. Len(at) /\ last_match_line < i
      /\ \A l \in last_match_line + 1 .. i - 1 : Skipped(input_lines[l])
  BY <1>1, NextLine
<1>3. /\ checks[check_idx] = CheckOf(input_lines, i) /\ i \in 1 .. Len(input_lines)
      /\ Len(input_lines) \in Nat /\ last_match_line \in Nat /\ input_idx = last_match_line + 1
      /\ ~Skipped(input_lines[i]) /\ Checkable(input_lines)
      /\ DOMAIN input_lines = 1 .. Len(input_lines)
  BY <1>2 DEF NextCheck
<1> HIDE DEF i
<1>4. match_pattern(input_lines[i], Pattern(check_idx))
  BY <1>3, PatternOfLine DEF Pattern, NextCheck
<1>5. i \in Found
  BY <1>2, <1>3, <1>4 DEF Found
<1>6. ASSUME NEW first \in Found, \A l \in Found : first <= l  PROVE first = i
  <2>1. /\ first <= i /\ first \in Int /\ first > last_match_line
        /\ match_pattern(input_lines[first], Pattern(check_idx))
    BY <1>3, <1>5, <1>6 DEF Found
  <2>2. CASE first < i
    <3>1. \A k \in first .. i - 1 : Skipped(input_lines[k])
      BY <1>2, <1>3, <2>1
    <3>2. i \in DOMAIN input_lines /\ first \in 1 .. i - 1
      BY <1>3, <2>1, <2>2
    <3>3. ~match_pattern(input_lines[first], Written(input_lines[i]))
      BY <1>3, <3>1, <3>2 DEF Checkable
    <3>4. Pattern(check_idx) = Written(input_lines[i])
      BY <1>3 DEF Pattern, CheckOf
    <3> QED BY <2>1, <3>3, <3>4
  <2> QED BY <1>3, <2>1, <2>2
<1>7. PICK first \in Found :
           /\ \A l \in Found : first <= l
           /\ IF Forbidden(pending_nots(check_idx), input_idx .. first - 1)
              THEN Fails ELSE MatchedAt(first)
  BY <1>5 DEF CheckPlain
<1>8. pending_nots(check_idx) = {}
  BY <1>1, <1>2, NothingPending DEF NextCheck
<1>9. MatchedAt(i)
  BY <1>6, <1>7, <1>8 DEF Forbidden
<1>10. MatchedAt(at[check_idx])
  BY <1>9 DEF i
<1> QED BY <1>1, <1>10, RetracesMatch

\* A step of the check of a file that was rewritten.
LEMMA RetracesStep ==
  ASSUME IInv, [Next]_vars, ~StartCheck, ~update, NEW lo, NEW at,
         Wrote(file, lo, at, updated_from), OnTheSame, Retraces(lo, at)
  PROVE  Retraces(lo, at)'
<1>1. CASE parse_check_line
  BY <1>1, RetracesParse
<1>2. CASE ParsedAll
  BY <1>2, RetracesAll
<1>3. CASE UNCHANGED vars
  BY <1>3 DEF vars, fileState, parseState, matchState, Retraces, Parsed
<1>4. CASE CheckNot \/ CheckSame
  <2>1. phase = "check" /\ check_idx <= Len(checks) /\ checks[check_idx].type \in {"NOT", "SAME"}
    BY <1>4 DEF CheckNot, CheckSame, Makes
  <2>2. NextCheck(at, input_lines)
    BY <2>1, AtNextCheck
  <2>3. check_idx \in 1 .. Len(at)
    BY <2>1, <2>2 DEF NextCheck
  <2> QED BY <2>1, <2>2, <2>3 DEF NextCheck
<1>5. CASE CheckNext
  <2>1. phase = "check"
    BY <1>5 DEF CheckNext, Makes
  <2> QED BY <1>5, <2>1, AtNextCheck, RetracesNext
<1>6. CASE CheckPlain
  <2>1. phase = "check"
    BY <1>6 DEF CheckPlain, Makes
  <2> QED BY <1>6, <2>1, AtNextCheck, RetracesPlain
<1>7. CASE CheckTrailing
  <2>1. phase = "check" /\ check_idx = Len(checks) + 1 /\ phase' = "idle"
    BY <1>7 DEF CheckTrailing
  <2>2. NextCheck(at, input_lines)
    BY <2>1, AtNextCheck
  <2>3. pending_nots(check_idx) = {}
    <3>1. check_idx <= Len(checks) + 1
      BY <2>1, <2>2 DEF NextCheck
    <3> QED BY <3>1, <2>2, NothingPending
  <2>4. result' = "pass"
    BY <1>7, <2>3 DEF CheckTrailing, Forbidden
  <2> QED BY <2>1, <2>4 DEF Retraces
<1> QED BY <1>1, <1>2, <1>3, <1>4, <1>5, <1>6, <1>7 DEF Next

LEMMA UpdateInvStep == UpdateInv /\ [Next]_vars => UpdateInv'
<1> SUFFICES ASSUME UpdateInv, [Next]_vars  PROVE UpdateInv'
  OBVIOUS
<1>1. IInv' /\ SessionTyped'
  BY IInvStays, SessionTypedStep DEF UpdateInv
<1>2. CASE update
  <2> DEFINE out == Head(commands).output
  <2>1. /\ input_lines' = out /\ file' = Rewritten(file, out) /\ updated_from' = out
        /\ result' = "updated" /\ phase' = "idle" /\ commands # <<>>
    BY <1>2 DEF update
  <2>2. IsSeq(out) /\ \A i \in DOMAIN out : IsSeq(out[i])
    <3>1. commands \in Seq(Range(commands)) /\ commands # <<>>
      BY <2>1, SeqLength DEF UpdateInv, SessionTyped
    <3>2. Head(commands) \in Range(commands)
      BY <3>1, HeadTailProperties
    <3> QED BY <3>2 DEF UpdateInv, SessionTyped, Range
  <2> HIDE DEF out
  <2>3. WroteSomewhere(file', updated_from')
    BY <2>1, <2>2, RewrittenWrote DEF UpdateInv, SessionTyped
  <2>4. PICK lo, at : Wrote(file', lo, at, updated_from')
    BY <2>3 DEF WroteSomewhere
  <2>5. Retraces(lo, at)'
    BY <2>1 DEF Retraces
  <2>6. UpdatedWell'
    BY <2>4, <2>5 DEF UpdatedWell, Wrote
  <2> QED BY <1>1, <2>6 DEF UpdateInv
<1>3. CASE ~update /\ updated_from # <<>>
  <2>1. file' = file /\ updated_from' = updated_from
    BY <1>3 DEF Next, vars, StartCheck, parse_check_line, ParsedAll, CheckNot, CheckNext,
                CheckSame, CheckPlain, CheckTrailing, Kept, fileState
  <2>2. PICK lo, at : Wrote(file, lo, at, updated_from) /\ (OnTheSame => Retraces(lo, at))
    BY <1>3 DEF UpdateInv, UpdatedWell
  <2>3. OnTheSame' => Retraces(lo, at)'
    <3>1. CASE StartCheck
      <4>1. Len(file) \in Nat /\ lo \in Nat
        BY <2>2, SeqLength DEF Wrote
      <4>2. /\ phase' = "parse" /\ result' = "none" /\ line_num' = 0
            /\ checks' = <<>> /\ unknown_directive_count' = 0
        BY <3>1 DEF StartCheck
      <4>3. Parsed(lo, at)' = 0 /\ 0 <= Len(file)
        BY <4>1, <4>2 DEF Parsed
      <4>4. \A o : ChecksOf(o, at, 0) = <<>>
        BY DEF ChecksOf
      <4>5. /\ line_num' \in Nat /\ line_num' <= Len(file') /\ unknown_directive_count' = 0
            /\ checks' = ChecksOf(input_lines', at, Parsed(lo, at)')
        BY <2>1, <4>1, <4>2, <4>3, <4>4
      <4> QED BY <4>2, <4>5 DEF Retraces
    <3>2. CASE ~StartCheck
      <4>1. input_lines' = input_lines
        BY <1>3, <3>2 DEF Next, vars, parse_check_line, ParsedAll, CheckNot, CheckNext,
                          CheckSame, CheckPlain, CheckTrailing, Kept
      <4>2. OnTheSame' <=> OnTheSame
        BY <2>1, <4>1 DEF OnTheSame
      <4> QED BY <1>3, <2>2, <3>2, <4>2, RetracesStep DEF UpdateInv
    <3> QED BY <3>1, <3>2
  <2>4. UpdatedWell'
    BY <2>1, <2>2, <2>3 DEF UpdatedWell
  <2> QED BY <1>1, <2>4 DEF UpdateInv
<1>4. CASE ~update /\ updated_from = <<>>
  <2>1. updated_from' = updated_from
    BY <1>4 DEF Next, vars, StartCheck, parse_check_line, ParsedAll, CheckNot, CheckNext,
                CheckSame, CheckPlain, CheckTrailing, Kept, fileState
  <2> QED BY <1>1, <1>4, <2>1 DEF UpdateInv, UpdatedWell
<1> QED BY <1>2, <1>3, <1>4

\* A test whose directives were rewritten from an output passes on that
\* output: update() of SammineCheck.cpp writes a directive for every line that
\* is not skipped, and check() finds each at the line it was made of, whatever
\* the test held before and wherever the output has gaps.
THEOREM UpdatingPasses == Spec => []UpdatedPasses
BY UpdateInvInit, UpdateInvStep, UpdateInvMeans, PTL DEF Spec
=============================================================================
