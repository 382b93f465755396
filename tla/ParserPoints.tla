---------------------------- MODULE ParserPoints ----------------------------
(***************************************************************************)
(* The control points of the parse functions: the codes a frame can have   *)
(* left to run, and what must be true of them for the results the          *)
(* functions return to mean what their callers take them for.  All sets    *)
(* here are fixed by the code of the functions; they do not depend on the  *)
(* tokens.                                                                 *)
(***************************************************************************)
EXTENDS Parser

\* Bound: the longest way through one function, in steps.
MaxSteps == 60

\* All that can be reached from the codes by steps.
Closure(codes, steps(_)) ==
  LET reached[n \in 0 .. MaxSteps] ==
        IF n = 0 THEN codes
        ELSE LET before == reached[n - 1] IN before \cup UNION {steps(c) : c \in before}
  IN reached[MaxSteps]

FullClimb(op, step) ==
  <<Reported("ParsePrimaryExpr"), [op |-> "tighter", than |-> op],
    [op |-> "combine", binop |-> op], step>>
Nested(op) ==
  CallWith("ParseBinaryExpr", 1, binopPrecedence[op] + 1, <<>>, <<Err, Failed>>, <<Err, Failed>>)
AfterLoop(rest) ==
  SubSeq(rest, Min({i \in DOMAIN rest : rest[i].op = "while"}) + 1, Len(rest))

\* What a function has left to run after a step that is no call.
Moves(c) ==
  LET step == c[1]
      rest == Tail(c)
  IN CASE step.op \in {"expect", "peek", "ifnodes", "ifqualified"} ->
            {step.yes \o rest, step.no \o rest}
       [] step.op = "generic" -> {step.yes \o rest, <<>> \o rest}
       [] step.op = "pending" -> {step.no \o rest, <<>> \o rest}
       [] step.op = "close" -> {step.no \o rest, rest}
       [] step.op = "while" -> {step.body \o c, rest}
       [] step.op = "leave" -> {AfterLoop(rest)}
       [] step.op = "climb" -> {<<>>} \cup {FullClimb(op, step) : op \in DOMAIN binopPrecedence}
       [] step.op = "tighter" -> {<<Nested(step.than)>> \o rest, <<>> \o rest}
       [] step.op = "combine" -> {rest, <<Err, Failed>>}
       [] step.op \in {"ret", "flagged", "call", "try"} -> {}
       [] OTHER -> {rest}

\* What it has left when a function it called has returned.
Calls(c) == c[1].op \in {"call", "try"}
AfterSuccess(c) == (IF c[1].op = "call" THEN c[1].ok ELSE <<>>) \o Tail(c)
AfterNoncommitted(c) == c[1].non \o Tail(c)
AfterFailure(c) == c[1].bad \o Tail(c)

\* All it can go on with.
Ways(c) ==
  IF c = <<>> THEN {}
  ELSE IF Calls(c) THEN {AfterSuccess(c), AfterNoncommitted(c), AfterFailure(c)}
  ELSE Moves(c)

Points == [fn \in DOMAIN Code |-> Closure({Code[fn]}, Ways)]

-----------------------------------------------------------------------------
(* NONCOMMITTED: nothing was consumed and nothing reported *)

\* What is left after a step that may have moved the cursor or reported.
Commitments(c) ==
  IF c = <<>> THEN {}
  ELSE LET step == c[1]
           rest == Tail(c)
       IN CASE Calls(c) -> {AfterSuccess(c), AfterFailure(c)} \cup
                           (IF step.op = "call" /\ step.fn = "parameter"
                            THEN {AfterNoncommitted(c)} ELSE {})
            [] step.op = "expect" -> {step.yes \o rest}
            [] step.op \in {"take", "back", "exhaust", "close", "rollback", "err", "climb"} -> Moves(c)
            [] OTHER -> {}

Committed ==
  [fn \in DOMAIN Code |-> Closure(UNION {Commitments(c) : c \in Points[fn]}, Ways)]

EndsWith(c, status) == c # <<>> /\ c[1].op = "ret" /\ c[1].status = status

-----------------------------------------------------------------------------
(* FAILED: something was reported *)

\* Functions that commit without a first token of their own.
AlwaysCommits(fn) == \A c \in Points[fn] : ~EndsWith(c, "NONCOMMITTED")

\* The calls after which NONCOMMITTED would be passed on as FAILED without a
\* word: after an `else` for an `if`, after `kernel` for a name.
Silently(caller, fn) ==
  \/ caller = "ParseIfExpr" /\ fn = "ParseIfExpr"
  \/ caller = "ParseKernelDef" /\ fn = "ParsePrototype"
SilentCall(fn, c) == c # <<>> /\ c[1].op = "call" /\ Silently(fn, c[1].fn)

\* What is left after a step that reports nothing.
QuietWays(fn, c) ==
  IF c = <<>> THEN {}
  ELSE IF Calls(c) THEN {AfterSuccess(c)} \cup
                        (IF SilentCall(fn, c) \/ (c[1].op = "call" /\ AlwaysCommits(c[1].fn)) THEN {}
                         ELSE {AfterNoncommitted(c)})
  ELSE IF c[1].op = "err" THEN {}
  ELSE Moves(c)

Quiet == [fn \in DOMAIN Code |-> Closure({Code[fn]}, LAMBDA c : QuietWays(fn, c))]

-----------------------------------------------------------------------------
(* Marks: whether the function has one that is neither undone nor given up *)

UnmarkedWays(c) == IF c # <<>> /\ c[1].op \in {"mark", "rollback", "commit"} THEN {} ELSE Ways(c)
AfterOps(codes, ops) == {Tail(c) : c \in {d \in codes : d # <<>> /\ d[1].op \in ops}}

Marking == [fn \in DOMAIN Code |->
              Closure(AfterOps(Points[fn], {"mark"}), UnmarkedWays)]
Unmarked == [fn \in DOMAIN Code |->
               Closure({Code[fn]} \cup AfterOps(Points[fn], {"rollback", "commit"}), UnmarkedWays)]

-----------------------------------------------------------------------------
(***************************************************************************)
(* The assumptions: closed formulas about the code above, which TLC        *)
(* evaluates over all control points.                                      *)
(***************************************************************************)

\* The sets are closed, and only functions that there are are called.
ASSUME PointsAssumption ==
  /\ "ParseProgram" \in DOMAIN Code
  /\ \A fn \in DOMAIN Code :
      /\ Code[fn] \in Points[fn]
      /\ \A c \in Points[fn] :
           /\ Ways(c) \subseteq Points[fn]
           /\ c # <<>> /\ c[1].op = "call" => c[1].fn \in DOMAIN Code
           /\ c # <<>> /\ c[1].op = "try" =>
                /\ DOMAIN c[1].fns \subseteq Nat
                /\ \A i \in DOMAIN c[1].fns : c[1].fns[i] \in DOMAIN Code \ {"parameter"}

\* Where a token may be gone, no function but `parameter` still returns
\* NONCOMMITTED.
ASSUME CommittedAssumption ==
  \A fn \in DOMAIN Code :
    /\ \A c \in Points[fn] : Commitments(c) \subseteq Committed[fn]
    /\ \A c \in Committed[fn] : Ways(c) \subseteq Committed[fn]
    /\ fn # "parameter" => \A c \in Committed[fn] : ~EndsWith(c, "NONCOMMITTED")

\* Where nothing was reported, no function fails or notes a failure, and what
\* is skipped is reported next.
ASSUME QuietAssumption ==
  \A fn \in DOMAIN Code :
    /\ Code[fn] \in Quiet[fn]
    /\ \A c \in Quiet[fn] :
         /\ QuietWays(fn, c) \subseteq Quiet[fn]
         /\ c # <<>> /\ c[1].op = "ret" => c[1].status \in {"SUCCESS", "NONCOMMITTED"}
         /\ c # <<>> => c[1].op # "flag"
         /\ c # <<>> /\ c[1].op = "exhaust" => Tail(c) # <<>> /\ Tail(c)[1] = Err

\* A silent call is made only where the token that makes it safe was seen, of
\* a function that takes up the next token or returns NONCOMMITTED at once.
ASSUME SilentAssumption ==
  /\ \A fn \in DOMAIN Code :
       /\ ~SilentCall(fn, Code[fn])
       /\ \A c \in Points[fn] : \A d \in Ways(c) :
            SilentCall(fn, d) =>
              /\ d # c[1].no \o Tail(c)
              /\ \/ fn = "ParseIfExpr" /\ c[1].op = "peek" /\ c[1].kinds = {"if"}
                 \/ fn = "ParseKernelDef" /\ c[1].op = "expect" /\ c[1].kinds = {"kernel"}
  /\ LET start == Code["ParseIfExpr"]
     IN start # <<>> /\ start[1].op = "expect" /\ start[1].kinds = {"if"}
  /\ LET start == Code["ParsePrototype"]
     IN start # <<>> /\ start[1].op = "expect" /\ start[1].kinds = {"identifier"}

\* A mark is undone or given up before the function returns, and before it
\* makes another.
ASSUME MarkAssumption ==
  \A fn \in DOMAIN Code :
    /\ Code[fn] \in Unmarked[fn] /\ Marking[fn] \cap Unmarked[fn] = {}
    /\ \A c \in Marking[fn] :
         /\ c # <<>> /\ c[1].op \notin {"mark", "ret", "flagged"}
         /\ IF c[1].op \in {"rollback", "commit"} THEN Tail(c) \in Unmarked[fn]
            ELSE Ways(c) \subseteq Marking[fn]
    /\ \A c \in Unmarked[fn] \ {<<>>} :
         /\ c[1].op \notin {"rollback", "commit"}
         /\ IF c[1].op = "mark" THEN Tail(c) \in Marking[fn] ELSE Ways(c) \subseteq Unmarked[fn]

\* The program ends by itself only where the end of file was seen.
ASSUME EndAssumption ==
  /\ Code["ParseProgram"] # <<>>
  /\ \A c \in Quiet["ParseProgram"] \ {<<>>} :
      /\ c[1].op \notin {"ret", "flagged"}
      /\ c[1].op # "err" /\ <<>> \in Ways(c) =>
           c[1].op = "peek" /\ c[1].kinds = {"EOF"} /\ c[1].no \o Tail(c) # <<>>

\* What a dereference is owed to is asked for next, and is taken up at once,
\* or after a minus.
Asks(c) == c # <<>> /\ c[1].op = "call" /\ c[1].fn = "ParsePrimaryExpr"
ASSUME OwedAssumption ==
  /\ \A fn \in DOMAIN Code : \A c \in Points[fn] \ {<<>>} : c[1].op = "owe" => Asks(Tail(c))
  /\ LET start == Code["ParsePrimaryExpr"]
     IN /\ start # <<>> /\ start[1].op = "try" /\ DOMAIN start[1].fns = 1 .. Len(start[1].fns)
        /\ Len(start[1].fns) > 1
        /\ start[1].fns[1] = "neg" /\ start[1].fns[2] = "ParseDerefExpr"
  /\ LET start == Code["neg"]
     IN /\ start # <<>> /\ start[1].op = "expect" /\ start[1].kinds = {"-"}
        /\ Asks(start[1].yes \o Tail(start))
  /\ Code["ParseDerefExpr"] # <<>> /\ Code["ParseDerefExpr"][1].op = "pending"

-----------------------------------------------------------------------------
(***************************************************************************)
(* The invariants of the machine.                                          *)
(***************************************************************************)

IsFrame(f) ==
  f \in [fn : DOMAIN Code, code : {f.code}, start : {f.start}, prec : {f.prec}, flag : {f.flag},
         ok : {f.ok}, non : {f.non}, bad : {f.bad}, at : {f.at}, errors : {f.errors}]

Active == 1 .. Len(stack)
IsTop(i) == i = Len(stack)

\* What the i-th function has left after each outcome of the one it called.
AfterOk(i)  == stack[i + 1].ok \o stack[i].code
AfterNon(i) == stack[i + 1].non \o stack[i].code
AfterBad(i) == stack[i + 1].bad \o stack[i].code
Goes(i) == IF IsTop(i) THEN {stack[i].code} ELSE {AfterOk(i), AfterNon(i), AfterBad(i)}

\* The functions are at their control points.
OnPoints ==
  /\ stack \in Seq(Range(stack)) /\ error_count \in Nat
  /\ \A i \in Active :
       /\ IsFrame(stack[i])
       /\ Goes(i) \subseteq Points[stack[i].fn]

\* Nothing was consumed or reported since the function began, up to the call
\* it waits for.
Untouched(i) ==
  IF IsTop(i) THEN cursor = stack[i].at /\ error_count = stack[i].errors
  ELSE stack[i + 1].at = stack[i].at /\ stack[i + 1].errors = stack[i].errors

IsCommitted(i) == Goes(i) \subseteq Committed[stack[i].fn]
CommitsIfTouched ==
  \A i \in Active :
    \/ IsCommitted(i)
    \/ /\ Untouched(i)
       /\ ~IsTop(i) => /\ {AfterOk(i), AfterBad(i)} \subseteq Committed[stack[i].fn]
                       /\ stack[i + 1].fn = "parameter" => AfterNon(i) \in Committed[stack[i].fn]

\* The token that makes the silent call of fn safe.
Seen(fn) ==
  \/ fn = "ParseIfExpr" /\ Sees({"if"})
  \/ fn = "ParseKernelDef" /\ cursor > 1 /\ TokStream[cursor - 1].tok_type = "kernel"

\* The i-th function does not return NONCOMMITTED.
Certain(i) ==
  \/ AlwaysCommits(stack[i].fn)
  \/ IsCommitted(i) /\ stack[i].fn # "parameter"
  \/ /\ IsTop(i) /\ i > 1 /\ stack[i].code = Code[stack[i].fn]
     /\ Silently(stack[i - 1].fn, stack[i].fn)
     /\ Seen(stack[i - 1].fn)

IsQuiet(i) ==
  LET f == stack[i]
  IN /\ f.flag = FALSE
     /\ IF IsTop(i) THEN f.code \in Quiet[f.fn] /\ (SilentCall(f.fn, f.code) => Seen(f.fn))
        ELSE /\ AfterOk(i) \in Quiet[f.fn] /\ ~SilentCall(f.fn, AfterOk(i))
             /\ \/ AfterNon(i) \in Quiet[f.fn] /\ ~SilentCall(f.fn, AfterNon(i))
                \/ Certain(i + 1)
ReportsIfFails ==
  /\ \A i \in Active : stack[i].errors \in 0 .. error_count
  /\ \A i, j \in Active : i < j => stack[i].errors <= stack[j].errors
  /\ \A i \in Active : error_count > stack[i].errors \/ IsQuiet(i)

\* What is skipped is reported.
SkipsAreReported ==
  skipped => error_count > 0 \/ crashed \/ (stack # <<>> /\ Top.code # <<>> /\ Top.code[1] = Err)

\* The program is not left before the end of file.
EndIsReached ==
  /\ stack # <<>> => stack[1].fn = "ParseProgram"
  /\ error_count = 0 /\ ~crashed =>
       /\ (IF stack = <<>> THEN TRUE ELSE Len(stack) = 1 /\ stack[1].code = <<>>) => isEnd
       /\ Len(stack) > 1 => AfterOk(1) # <<>> /\ AfterNon(1) # <<>>

\* The marks on record are those of the functions inside one.
Inside == {i \in Active : Goes(i) \subseteq Marking[stack[i].fn]}
MarksAreKept ==
  ~crashed =>
    /\ Cardinality(Inside) = Len(rollback_stack)
    /\ \A i \in Active \ Inside : Goes(i) \subseteq Unmarked[stack[i].fn]

\* A dereference is owed on the way to the operand only.
OwedIsAsked ==
  pending_deref # 0 =>
    /\ pending_deref = 1 /\ stack # <<>>
    /\ \/ Asks(Top.code)
       \/ Top.fn \in {"ParsePrimaryExpr", "ParseDerefExpr"} /\ Top.code = Code[Top.fn]
       \/ Top.fn = "neg" /\ Top.code = Code["neg"] /\ Sees({"-"})

ParserInvariant ==
  /\ OnPoints /\ CommitsIfTouched /\ MarksAreKept /\ OwedIsAsked
  /\ ~KernelAlone => ReportsIfFails /\ SkipsAreReported /\ EndIsReached
=============================================================================
