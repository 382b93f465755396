------------------------------ MODULE FileCheck ------------------------------
(***************************************************************************)
(* SammineCheck.cpp: the tool that compares the output of the compiler     *)
(* with the CHECK lines of a test, and rewrites those lines from an output *)
(* (--update).  A line is the sequence of its pieces: a blank, "|" or "/", *)
(* the ".mn" of a file name, the "RUN:" or "CHECK:" of a directive, a      *)
(* regular expression in braces, or any other text.  Lines count from 1,   *)
(* so that input_idx is one more than in the code and a last_match_line of *)
(* 0 is its -1.                                                            *)
(***************************************************************************)
EXTENDS Integers, Sequences, FiniteSetsExt

\* Sessions: a check file, and the commands run on it with their outputs.
CONSTANT Sessions

IsSeq(s) == s \in Seq(Range(s))

ASSUME SessionsAssumption ==
  \A s \in Sessions :
    /\ IsSeq(s.file) /\ IsSeq(s.commands)
    /\ \A run \in Range(s.commands) :
         IsSeq(run.output) /\ \A line \in Range(run.output) : IsSeq(line)

VARIABLES
  file,                      \* the lines of the check file
  commands,                  \* the commands still to be run
  phase,                     \* "idle", "parse" or "check"
  input_lines,               \* the output given to the command
  line_num,                  \* lines of the check file parsed
  checks,                    \* the checks found
  unknown_directive_count,
  check_idx,                 \* the check to be made next
  input_idx,                 \* the line the next search starts from
  last_match_line,           \* the line matched last
  matched,                   \* for each check made, the line matched last after it
  result,                    \* of the last command
  updated_from               \* the output the file was last rewritten from

fileState == <<file, updated_from>>
parseState == <<line_num, checks, unknown_directive_count>>
matchState == <<check_idx, input_idx, last_match_line, matched>>
vars == <<fileState, parseState, matchState, commands, phase, input_lines, result>>

Types == {"PLAIN", "NEXT", "NOT", "SAME", "LABEL"}

Init ==
  /\ \E s \in Sessions : file = s.file /\ commands = s.commands
  /\ phase = "idle" /\ input_lines = <<>> /\ result = "none" /\ updated_from = <<>>
  /\ line_num = 0 /\ checks = <<>> /\ unknown_directive_count = 0
  /\ check_idx = 1 /\ input_idx = 1 /\ last_match_line = 0 /\ matched = <<>>

-----------------------------------------------------------------------------
(***************************************************************************)
(* Lines and patterns.                                                     *)
(***************************************************************************)

\* Without the blanks at its two ends.
trim(s) ==
  LET inked == {i \in DOMAIN s : s[i] # " "}
  IN IF inked = {} THEN <<>> ELSE SubSeq(s, Min(inked), Max(inked))

\* Two regular expressions in braces: one matches any text, its own too, and
\* one stands for the text a, which is not its own.  All other pieces of a
\* pattern stand for themselves.
AnyText == "{{.*}}"
stands_for(piece) == IF piece = "{{a}}" THEN "a" ELSE piece

\* The pattern's pieces are found in the line one right after the other, from
\* any place on.  ends[n] is where the first n of them may end.
match_pattern(line, pattern) ==
  LET ends[n \in 0 .. Len(pattern)] ==
        IF n = 0 THEN 1 .. Len(line) + 1
        ELSE IF pattern[n] = AnyText
        THEN {q \in 1 .. Len(line) + 1 : \E p \in ends[n - 1] : p <= q}
        ELSE {q \in 2 .. Len(line) + 1 : q - 1 \in ends[n - 1] /\ line[q - 1] = stands_for(pattern[n])}
  IN ends[Len(pattern)] # {}

\* Paths of .mn files are cut down to the name of the file, wherever in the line
\* they are.  A path runs from s over its last directory, at p, to e: the
\* leftmost is taken, as long as it can be, and the next is looked for behind it.
sanitize_output_line(line) ==
  LET Path(s, p, e) ==
        /\ s <= p /\ \A i \in s .. p - 1 : line[i] \notin {" ", "|"}
        /\ line[p] = "/"
        /\ p + 1 < e /\ \A i \in p + 1 .. e - 1 : line[i] \notin {"/", " "}
        /\ line[e] = ".mn"
      starts(from) == {s \in from .. Len(line) : \E p, e \in DOMAIN line : Path(s, p, e)}
      rest[from \in 1 .. Len(line) + 1] ==
        IF starts(from) = {} THEN SubSeq(line, from, Len(line))
        ELSE LET s == Min(starts(from))
                 p == Max({q \in DOMAIN line : \E e \in DOMAIN line : Path(s, q, e)})
                 e == Max({q \in DOMAIN line : Path(s, p, q)})
             IN SubSeq(line, from, s - 1) \o SubSeq(line, p + 1, e) \o rest[e + 1]
  IN rest[1]

\* Output that a compiler echoes from a test's own directives.
is_lit_directive(line) == {"RUN:", "CHECK:"} \cap Range(line) # {}

is_check_directive(file_line) == file_line.kind \in Types

-----------------------------------------------------------------------------
(***************************************************************************)
(* parse_check_file                                                        *)
(***************************************************************************)

StartCheck ==
  /\ phase = "idle" /\ commands # <<>> /\ Head(commands).command = "check"
  /\ phase' = "parse" /\ result' = "none"
  /\ input_lines' = Head(commands).output
  /\ commands' = Tail(commands)
  /\ line_num' = 0 /\ checks' = <<>> /\ unknown_directive_count' = 0
  /\ check_idx' = 1 /\ input_idx' = 1 /\ last_match_line' = 0 /\ matched' = <<>>
  /\ UNCHANGED fileState

\* A directive without a pattern is no check; if it has a suffix it is taken
\* for an unknown directive.
parse_check_line ==
  /\ phase = "parse" /\ line_num < Len(file)
  /\ LET line == file[line_num + 1]
         pattern == trim(line.text)
         found == line.kind \in Types /\ pattern # <<>>
         unknown == ~found /\ line.kind \in (Types \ {"PLAIN"}) \cup {"unknown"}
     IN /\ checks' = IF found THEN Append(checks, [type |-> line.kind, pattern |-> pattern])
                     ELSE checks
        /\ unknown_directive_count' = unknown_directive_count + (IF unknown THEN 1 ELSE 0)
  /\ line_num' = line_num + 1
  /\ UNCHANGED <<fileState, matchState, commands, phase, input_lines, result>>

ParsedAll ==
  /\ phase = "parse" /\ line_num = Len(file)
  /\ IF unknown_directive_count > 0 \/ checks = <<>>
     THEN phase' = "idle" /\ result' = "refused"
     ELSE phase' = "check" /\ UNCHANGED result
  /\ UNCHANGED <<fileState, parseState, matchState, commands, input_lines>>

-----------------------------------------------------------------------------
(***************************************************************************)
(* check                                                                   *)
(***************************************************************************)

Makes(types) == phase = "check" /\ check_idx <= Len(checks) /\ checks[check_idx].type \in types
Pattern(i) == checks[i].pattern

\* The CHECK-NOTs between the last positive check and the i-th.
pending_nots(i) == {j \in 1 .. i - 1 : \A k \in j .. i - 1 : checks[k].type = "NOT"}

\* Slip: the first of them only.
ForbiddenSlip(nots, lines) ==
  nots # {} /\ \E k \in lines : match_pattern(input_lines[k], Pattern(Min(nots)))

Forbidden(nots, lines) ==
  \E j \in nots, k \in lines : match_pattern(input_lines[k], Pattern(j))

Fails ==
  /\ phase' = "idle" /\ result' = "fail"
  /\ UNCHANGED matchState

\* The check is made, and matched the line.
MatchedAt(line) ==
  /\ check_idx' = check_idx + 1
  /\ matched' = Append(matched, line)
  /\ last_match_line' = line
  /\ input_idx' = line + 1
  /\ UNCHANGED <<phase, result>>

Kept == UNCHANGED <<fileState, parseState, commands, input_lines>>

\* Collected, to be looked at with the next positive check.
CheckNot ==
  /\ Makes({"NOT"})
  /\ check_idx' = check_idx + 1
  /\ matched' = Append(matched, last_match_line)
  /\ UNCHANGED <<input_idx, last_match_line, phase, result>>
  /\ Kept

\* The forbidden patterns are looked for in the line matched as well.
CheckNext ==
  /\ Makes({"NEXT"})
  /\ LET next_line == last_match_line + 1
     IN IF /\ next_line <= Len(input_lines)
           /\ match_pattern(input_lines[next_line], Pattern(check_idx))
           /\ ~Forbidden(pending_nots(check_idx), input_idx .. next_line)
        THEN MatchedAt(next_line)
        ELSE Fails
  /\ Kept

\* What was forbidden before it is not looked for.
CheckSame ==
  /\ Makes({"SAME"})
  /\ IF /\ last_match_line \in 1 .. Len(input_lines)
        /\ match_pattern(input_lines[last_match_line], Pattern(check_idx))
     THEN MatchedAt(last_match_line)
     ELSE Fails
  /\ Kept

\* Slip: the search starts a line too late.
FoundSlip ==
  {i \in input_idx + 1 .. Len(input_lines) : match_pattern(input_lines[i], Pattern(check_idx))}

\* The lines from the start of the search on that match.
Found ==
  {i \in input_idx .. Len(input_lines) : match_pattern(input_lines[i], Pattern(check_idx))}

\* CHECK and CHECK-LABEL: the first line that matches.
CheckPlain ==
  /\ Makes({"PLAIN", "LABEL"})
  /\ IF Found # {}
     THEN \E first \in Found :
            /\ \A i \in Found : first <= i
            /\ IF Forbidden(pending_nots(check_idx), input_idx .. first - 1)
               THEN Fails ELSE MatchedAt(first)
     ELSE Fails
  /\ Kept

\* The CHECK-NOTs at the end, on the lines that are left.
CheckTrailing ==
  /\ phase = "check" /\ check_idx = Len(checks) + 1
  /\ phase' = "idle"
  /\ result' = IF Forbidden(pending_nots(check_idx), input_idx .. Len(input_lines))
               THEN "fail" ELSE "pass"
  /\ UNCHANGED matchState
  /\ Kept

-----------------------------------------------------------------------------
(***************************************************************************)
(* update                                                                  *)
(***************************************************************************)

Skipped(line) == line = <<>> \/ is_lit_directive(line)

\* Slip: after a gap as after any other line.
DirectiveSlip(output, i) == IF i = 1 THEN "PLAIN" ELSE "NEXT"

\* A search after a gap, the next line otherwise.
Directive(output, i) == IF i = 1 \/ Skipped(output[i - 1]) THEN "PLAIN" ELSE "NEXT"

\* One directive for each line that is not skipped; after[n] are those of the
\* first n lines.
CheckLine(output, i) ==
  [kind |-> Directive(output, i), text |-> sanitize_output_line(output[i])]

check_lines(output) ==
  LET after[n \in 0 .. Len(output)] ==
        IF n = 0 THEN <<>>
        ELSE IF Skipped(output[n]) THEN after[n - 1]
        ELSE Append(after[n - 1], CheckLine(output, n))
  IN after[Len(output)]

\* The file without its directives.
filtered_lines(lines) ==
  LET after[n \in 0 .. Len(lines)] ==
        IF n = 0 THEN <<>>
        ELSE IF is_check_directive(lines[n]) THEN after[n - 1]
        ELSE Append(after[n - 1], lines[n])
  IN after[Len(lines)]

\* Behind the last RUN line, or at the top.
Rewritten(lines, output) ==
  LET kept == filtered_lines(lines)
      last_run == Max({0} \cup {i \in DOMAIN kept : kept[i].kind = "RUN"})
  IN SubSeq(kept, 1, last_run) \o check_lines(output) \o SubSeq(kept, last_run + 1, Len(kept))

update ==
  /\ phase = "idle" /\ commands # <<>> /\ Head(commands).command = "update"
  /\ input_lines' = Head(commands).output
  /\ commands' = Tail(commands)
  /\ file' = Rewritten(file, input_lines')
  /\ updated_from' = input_lines'
  /\ result' = "updated"
  /\ UNCHANGED <<parseState, matchState, phase>>

Next ==
  \/ StartCheck \/ parse_check_line \/ ParsedAll
  \/ CheckNot \/ CheckNext \/ CheckSame \/ CheckPlain \/ CheckTrailing
  \/ update

Spec == Init /\ [][Next]_vars
-----------------------------------------------------------------------------
(***************************************************************************)
(* Properties.                                                             *)
(***************************************************************************)

\* A placement gives each check the line at which the output has been followed
\* so far: its own line, or, for a CHECK-NOT, the line of the check before it.
Before(p, i) == IF i = 1 THEN 0 ELSE p[i - 1]

\* A check is where its directive says: CHECK at the first line that matches.
Placed(p, i) ==
  /\ checks[i].type \in {"NOT", "SAME"} => p[i] = Before(p, i)
  /\ checks[i].type = "NEXT" => p[i] = Before(p, i) + 1
  /\ checks[i].type \in {"PLAIN", "LABEL"} =>
       /\ p[i] > Before(p, i)
       /\ \A l \in Before(p, i) + 1 .. p[i] - 1 : ~match_pattern(input_lines[l], Pattern(i))
  /\ checks[i].type # "NOT" =>
       /\ p[i] \in 1 .. Len(input_lines)
       /\ match_pattern(input_lines[p[i]], Pattern(i))

\* The CHECK-NOTs before the i-th check are on none of the lines between.
Clear(p, i, until) ==
  \A j \in pending_nots(i) : \A l \in Before(p, i) + 1 .. until - 1 :
    ~match_pattern(input_lines[l], Pattern(j))

Follows(p) == \A i \in DOMAIN p : Placed(p, i) /\ (checks[i].type # "NOT" => Clear(p, i, p[i]))
FollowsToTheEnd(p) ==
  Follows(p) /\ Clear(p, Len(checks) + 1, Len(input_lines) + 1)

\* A test that passes has each of its checks on a line of the output where its
\* directive wants it, one after the other, and none of its forbidden patterns
\* on any line between the two checks around it or after the last.
PassIsJustified ==
  result = "pass" => Len(matched) = Len(checks) /\ FollowsToTheEnd(matched)

\* A test that fails could not have passed: whatever lines are tried for its
\* checks, they do not follow its directives.  (A CHECK-NOT before a CHECK-NEXT
\* is the exception: it forbids the very line that CHECK-NEXT is to match.)
FailIsJustified ==
  result = "fail" /\ (\A i \in DOMAIN checks : checks[i].type = "NEXT" => pending_nots(i) = {})
    => ~\E p \in [DOMAIN checks -> 0 .. Len(input_lines)] : FollowsToTheEnd(p)

\* The pattern that --update writes for a line.
Written(line) == trim(sanitize_output_line(line))

StandsIn(piece, line) == \E from, to \in DOMAIN line : piece = SubSeq(line, from, to)

\* An output that directives can tell: there is a line to check, and for each
\* line that is checked
\*   - what is written of it is not empty, as it is for a line of blanks,
\*   - it still stands in the line in one piece, as it does not when a directory
\*     was cut out behind other text,
\*   - it has no regular expression that stands for another text,
\*   - no line that is skipped before it, nor the line checked before those, is
\*     mistaken for it.
Checkable(output) ==
  /\ \E i \in DOMAIN output : ~Skipped(output[i])
  /\ \A i \in DOMAIN output : ~Skipped(output[i]) =>
       LET pattern == Written(output[i])
       IN /\ pattern # <<>> /\ StandsIn(pattern, output[i])
          /\ \A k \in DOMAIN pattern : stands_for(pattern[k]) = pattern[k]
          /\ \A j \in 1 .. i - 1 :
               (\A k \in j .. i - 1 : Skipped(output[k])) => ~match_pattern(output[j], pattern)

\* A test whose directives were rewritten from an output passes on that output,
\* whatever directives it had before and wherever the output has gaps.
UpdatedPasses ==
  input_lines = updated_from /\ Checkable(input_lines)
      /\ (\A i \in DOMAIN file : file[i].kind # "unknown")
    => result \notin {"fail", "refused"}
=============================================================================
