------------------------------- MODULE Parser -------------------------------
(***************************************************************************)
(* The recursive descent parser of Parser.cpp as a pushdown machine: the   *)
(* stack holds one frame for each active parse function, with the steps it *)
(* has left, and each action runs the first step of the topmost frame.     *)
(***************************************************************************)
EXTENDS ParserCode, TokenStream, Lexer

\* The files given to the parser: their text, the words it is written in, and
\* the trees of its definitions where it is meant to be a program.
CONSTANT Files

GreaterThan == [tok_type |-> ">", lexeme |-> ">"]
Assign == [tok_type |-> "=", lexeme |-> "="]

\* The tokens there are: those of the files, and those the parser makes.
Token == {EOF, GreaterThan, Assign}
           \cup UNION {Range(Lex(f.text).tokens) : f \in Files}

\* The lexer gets through each of them (see Lexer on strings that are not closed).
ASSUME FilesAssumption == \A f \in Files : Lex(f.text).tokens \in Seq(Token)

VARIABLES
  file,              \* the file being parsed
  source,            \* its tokens as the lexer gave them
  stack,             \* the active parse functions
  nodes,             \* the nodes built and not yet part of another
  error_count,       \* errors reported
  pending_deref,     \* dereferences owed since a `**`
  alias_to_module,   \* the prefixes the imports allow
  skipped,           \* whether error recovery has passed over a token
  crashed            \* whether a null node was read

parserState == <<error_count, pending_deref, alias_to_module, skipped, crashed>>
vars == <<streamVars, file, source, stack, nodes, parserState>>

\* A frame: the steps left, the first node of its own, the precedence of
\* ParseBinaryExpr, whether an error was flagged, what its caller does after
\* each outcome, and the cursor and the errors at its start.
Frame(call, code, start) ==
  [fn |-> call.fn, code |-> code, start |-> start, prec |-> call.prec, flag |-> FALSE,
   ok |-> call.ok, non |-> call.non, bad |-> call.bad,
   at |-> cursor, errors |-> error_count]

Init ==
  /\ file \in Files
  /\ source = Lex(file.text).tokens
  /\ StreamInit(source)
  /\ nodes = <<>> /\ error_count = 0 /\ pending_deref = 0
  /\ alias_to_module = <<>> /\ skipped = FALSE /\ crashed = FALSE
  /\ stack = <<[fn |-> "ParseProgram", code |-> Code["ParseProgram"], start |-> 0,
                prec |-> 0, flag |-> FALSE, ok |-> <<>>, non |-> <<>>, bad |-> <<>>,
                at |-> 1, errors |-> 0]>>

Done == stack = <<>>
Top == Last(stack)
Step == Top.code[1]
Rest == Tail(Top.code)
Runs(op) == ~Done /\ Top.code # <<>> /\ Step.op = op

\* The topmost function goes on with this code.
GoOn(code) == stack' = [stack EXCEPT ![Len(stack)].code = code]

\* The nodes the topmost function was handed or has built, after the first k.
Own(k) == SubSeq(nodes, Top.start + k + 1, Len(nodes))
Below(k) == SubSeq(nodes, 1, Top.start + k)

Tree(tag, children) == [tag |-> tag, children |-> children]

-----------------------------------------------------------------------------
(***************************************************************************)
(* Steps on the tokens.                                                    *)
(***************************************************************************)

expect ==
  /\ Runs("expect")
  /\ IF ~isEnd /\ Sees(Step.kinds)
     THEN consume /\ GoOn(Step.yes \o Rest)
     ELSE UNCHANGED streamVars /\ GoOn(Step.no \o Rest)
  /\ UNCHANGED <<file, source, nodes, parserState>>

LookAhead ==
  /\ Runs("peek")
  /\ GoOn((IF Sees(Step.kinds) THEN Step.yes ELSE Step.no) \o Rest)
  /\ UNCHANGED <<streamVars, file, source, nodes, parserState>>

TakeToken ==
  /\ Runs("take") /\ GoOn(Rest) /\ consume
  /\ UNCHANGED <<file, source, nodes, parserState>>

GiveBack ==
  /\ Runs("back") /\ GoOn(Rest) /\ BackBy(Step.n)
  /\ UNCHANGED <<file, source, nodes, parserState>>

SkipAhead ==
  /\ Runs("exhaust") /\ GoOn(Rest) /\ exhaust_until(Step.until)
  /\ skipped' = (skipped \/ cursor' # cursor)
  /\ UNCHANGED <<file, source, nodes, error_count, pending_deref, alias_to_module, crashed>>

\* Slip: a `>>` is taken whole.
consumeClosingAngleBracketSlip ==
  /\ Runs("close")
  /\ CASE Sees({">", ">>"}) -> consume /\ GoOn(Rest)
       [] Sees({">="}) -> SplitAndConsume(GreaterThan, Assign) /\ GoOn(Rest)
       [] OTHER -> UNCHANGED streamVars /\ GoOn(Step.no \o Rest)
  /\ UNCHANGED <<file, source, nodes, parserState>>

\* A `>>` or `>=` gives its first half.
consumeClosingAngleBracket ==
  /\ Runs("close")
  /\ CASE Sees({">"}) -> consume /\ GoOn(Rest)
       [] Sees({">>"}) -> SplitAndConsume(GreaterThan, GreaterThan) /\ GoOn(Rest)
       [] Sees({">="}) -> SplitAndConsume(GreaterThan, Assign) /\ GoOn(Rest)
       [] OTHER -> UNCHANGED streamVars /\ GoOn(Step.no \o Rest)
  /\ UNCHANGED <<file, source, nodes, parserState>>

Speculate ==
  /\ \/ Runs("mark") /\ mark_rollback
     \/ Runs("rollback") /\ rollback
     \/ Runs("commit") /\ commit_rollback
  /\ GoOn(Rest)
  /\ UNCHANGED <<file, source, nodes, parserState>>

-----------------------------------------------------------------------------
(***************************************************************************)
(* Calls, loops and results.                                               *)
(***************************************************************************)

CallFunction ==
  /\ Runs("call")
  /\ stack' = Append([stack EXCEPT ![Len(stack)].code = Rest],
                     Frame(Step, Code[Step.fn], Len(nodes) - Step.handed))
  /\ UNCHANGED <<streamVars, file, source, nodes, parserState>>

\* Whether a function finds its first token.
Commits(fn) ==
  IF fn = "ParseDerefExpr" THEN pending_deref > 0 \/ Sees({"*", "**"})
  ELSE Sees(Code[fn][1].kinds)

\* Slip: a function of which no alternative is there has failed.
TryParsersFailing ==
  /\ Runs("try")
  /\ LET able == {i \in DOMAIN Step.fns : Commits(Step.fns[i])}
     IN stack' =
          IF able = {} THEN [stack EXCEPT ![Len(stack)].code = Step.bad \o Rest]
          ELSE Append([stack EXCEPT ![Len(stack)].code = Rest],
                 LET fn == Step.fns[Min(able)]
                 IN Frame(CallOr(fn, <<>>, Step.non, Step.bad), Code[fn], Len(nodes)))
  /\ UNCHANGED <<streamVars, file, source, nodes, parserState>>

\* Slip: an alternative that fails after its first token counts as not there.
TryParsersForgiving ==
  /\ Runs("try")
  /\ LET able == {i \in DOMAIN Step.fns : Commits(Step.fns[i])}
     IN stack' =
          IF able = {} THEN [stack EXCEPT ![Len(stack)].code = Step.non \o Rest]
          ELSE Append([stack EXCEPT ![Len(stack)].code = Rest],
                 LET fn == Step.fns[Min(able)]
                 IN Frame(CallOr(fn, <<>>, Step.non, Step.non), Code[fn], Len(nodes)))
  /\ UNCHANGED <<streamVars, file, source, nodes, parserState>>

\* The alternatives that do not find their first token return NONCOMMITTED and
\* leave all as it was; the first that finds it is the one called.
TryParsers ==
  /\ Runs("try")
  /\ LET able == {i \in DOMAIN Step.fns : Commits(Step.fns[i])}
     IN stack' =
          IF able = {} THEN [stack EXCEPT ![Len(stack)].code = Step.non \o Rest]
          ELSE Append([stack EXCEPT ![Len(stack)].code = Rest],
                 LET fn == Step.fns[Min(able)]
                 IN Frame(CallOr(fn, <<>>, Step.non, Step.bad), Code[fn], Len(nodes)))
  /\ UNCHANGED <<streamVars, file, source, nodes, parserState>>

\* The status a function returns with, if this is its last step.
Status ==
  CASE Top.code = <<>> -> "SUCCESS"
    [] Runs("ret") -> Step.status
    [] Runs("flagged") -> IF Top.flag THEN "FAILED" ELSE "SUCCESS"
    [] OTHER -> "none"

Returns(status) == ~Done /\ Status = status

\* The caller goes on; a function that failed leaves no node.
Return ==
  /\ ~Done /\ Status # "none"
  /\ stack' =
       LET callers == Front(stack)
           next == CASE Status = "SUCCESS" -> Top.ok
                     [] Status = "NONCOMMITTED" -> Top.non
                     [] OTHER -> Top.bad
       IN IF callers = <<>> THEN <<>>
          ELSE [callers EXCEPT ![Len(callers)].code = next \o @]
  /\ nodes' = IF Status = "FAILED" THEN Below(0) ELSE nodes
  /\ UNCHANGED <<streamVars, file, source, parserState>>

Loop ==
  /\ Runs("while")
  /\ GoOn(IF Sees(Step.kinds) = Step.in /\ (Step.in \/ ~isEnd)
          THEN Step.body \o Top.code ELSE Rest)
  /\ UNCHANGED <<streamVars, file, source, nodes, parserState>>

\* break: on after the loop that is running.
Break ==
  /\ Runs("leave")
  /\ LET loop == Min({i \in DOMAIN Rest : Rest[i].op = "while"})
     IN GoOn(SubSeq(Rest, loop + 1, Len(Rest)))
  /\ UNCHANGED <<streamVars, file, source, nodes, parserState>>

FlagError ==
  /\ Runs("flag")
  /\ stack' = [stack EXCEPT ![Len(stack)].flag = TRUE, ![Len(stack)].code = Rest]
  /\ UNCHANGED <<streamVars, file, source, nodes, parserState>>

imm_error ==
  /\ Runs("err") /\ GoOn(Rest)
  /\ error_count' = error_count + 1
  /\ UNCHANGED <<streamVars, file, source, nodes, pending_deref, alias_to_module, skipped, crashed>>

-----------------------------------------------------------------------------
(***************************************************************************)
(* Nodes.                                                                  *)
(***************************************************************************)

Unresolved(parts) ==
  IF parts[1].tag \in DOMAIN alias_to_module
  THEN Tree("QualifiedName", [parts EXCEPT ![1].tag = alias_to_module[@]])
  ELSE Tree("Unresolved", parts)

\* The nodes of the topmost function after the step, for the steps that build.
Built ==
  CASE Step.op = "leaf" ->
         Append(nodes, Tree(TokStream[cursor - 1].lexeme, <<>>))
    [] Step.op = "unit" -> Append(nodes, Tree(Step.tag, <<>>))
    [] Step.op = "build" -> Append(Below(Step.keep), Tree(Step.tag, Own(Step.keep)))
    [] Step.op = "wrap" -> Append(Front(nodes), Tree(Step.tag, <<Last(nodes)>>))
    [] Step.op = "keep" -> Below(Step.n)
    [] Step.op = "qualify" ->
         IF Len(Own(0)) = 1 THEN nodes
         ELSE Append(Below(0), IF Step.resolve_alias THEN Unresolved(Own(0))
                               ELSE Tree("QualifiedName", Own(0)))
    [] Step.op = "module" ->
         IF Len(Own(0)[1].children) = 3 THEN Append(Below(0), Unresolved(Own(0)[1].children))
         ELSE nodes
    \* The type arguments belong to the last part; the prefix counts as resolved.
    [] Step.op = "member" ->
         LET name == Own(0)[1]
             parts == IF name.children = <<>> THEN <<name>> ELSE name.children
         IN Append(Below(0), Tree("QualifiedName", parts \o Own(1)))

BuildNode ==
  /\ \E op \in {"leaf", "unit", "build", "wrap", "keep", "qualify", "module", "member"} :
       Runs(op)
  /\ nodes' = Built
  /\ GoOn(Rest)
  /\ UNCHANGED <<streamVars, file, source, parserState>>

InspectNodes ==
  /\ \/ Runs("ifnodes") /\ GoOn((IF Len(Own(0)) >= Step.n THEN Step.yes ELSE Step.no) \o Rest)
     \/ Runs("ifqualified")
        /\ GoOn((IF Own(0)[1].children # <<>> THEN Step.yes ELSE Step.no) \o Rest)
     \/ Runs("generic")
        /\ GoOn((IF \E n \in Range(Own(0)[1].children) : n.tag = "type_params"
                 THEN Step.yes ELSE <<>>) \o Rest)
  /\ UNCHANGED <<streamVars, file, source, nodes, parserState>>

\* An import without an alias allows its own name.
AddAlias ==
  /\ Runs("alias") /\ GoOn(Rest)
  /\ alias_to_module' = (Last(nodes).tag :> Own(0)[1].tag) @@ alias_to_module
  /\ UNCHANGED <<streamVars, file, source, nodes, error_count, pending_deref, skipped, crashed>>

\* A dereference that is owed needs no token.
PendingDeref ==
  /\ \/ /\ Runs("pending")
        /\ GoOn((IF pending_deref > 0 THEN <<>> ELSE Step.no) \o Rest)
        /\ pending_deref' = IF pending_deref > 0 THEN pending_deref - 1 ELSE 0
     \/ /\ Runs("owe") /\ GoOn(Rest)
        /\ pending_deref' = pending_deref + 1
  /\ UNCHANGED <<streamVars, file, source, nodes, error_count, alias_to_module, skipped, crashed>>

\* Reading the location of a null node: the process dies, or, where the read
\* happens to be harmless, goes on.
NullLocation ==
  /\ Runs("null")
  /\ \/ GoOn(Rest) /\ UNCHANGED crashed
     \/ stack' = <<>> /\ crashed' = TRUE
  /\ UNCHANGED <<streamVars, file, source, nodes, error_count, pending_deref, alias_to_module, skipped>>

-----------------------------------------------------------------------------
(***************************************************************************)
(* Precedence climbing.                                                    *)
(***************************************************************************)

binopPrecedence ==
  "|>" :> 1 @@ "=" :> 2 @@ "||" :> 3 @@ "|" :> 4 @@ "&&" :> 5 @@ "^" :> 6 @@ "&" :> 7
  @@ "<" :> 10 @@ "<=" :> 10 @@ ">=" :> 10 @@ ">" :> 10 @@ "==" :> 10 @@ "!=" :> 10
  @@ "<<" :> 15 @@ ">>" :> 15 @@ "+" :> 20 @@ "-" :> 20 @@ "*" :> 40 @@ "/" :> 40 @@ "%" :> 40

IsBinary(op) == op \in DOMAIN binopPrecedence

\* An operator that binds tightly enough is taken with its right-hand side; a
\* tighter one after that takes the right-hand side first.
ParseBinaryExpr ==
  /\ Runs("climb")
  /\ IF IsBinary(peek.tok_type) /\ binopPrecedence[peek.tok_type] >= Top.prec
     THEN /\ consume
          /\ GoOn(<<Reported("ParsePrimaryExpr"), [op |-> "tighter", than |-> peek.tok_type],
                    [op |-> "combine", binop |-> peek.tok_type], Step>>)
     ELSE UNCHANGED streamVars /\ GoOn(<<>>)
  /\ UNCHANGED <<file, source, nodes, parserState>>

\* Slip: an operator of the same precedence goes first.
TighterFirstSlip ==
  /\ Runs("tighter")
  /\ LET prec == binopPrecedence[Step.than]
         nested == CallWith("ParseBinaryExpr", 1, prec, <<>>, <<Err, Failed>>, <<Err, Failed>>)
     IN GoOn((IF IsBinary(peek.tok_type) /\ prec <= binopPrecedence[peek.tok_type]
              THEN <<nested>> ELSE <<>>) \o Rest)
  /\ UNCHANGED <<streamVars, file, source, nodes, parserState>>

TighterFirst ==
  /\ Runs("tighter")
  /\ LET prec == binopPrecedence[Step.than]
         nested == CallWith("ParseBinaryExpr", 1, prec + 1, <<>>, <<Err, Failed>>, <<Err, Failed>>)
     IN GoOn((IF IsBinary(peek.tok_type) /\ prec < binopPrecedence[peek.tok_type]
              THEN <<nested>> ELSE <<>>) \o Rest)
  /\ UNCHANGED <<streamVars, file, source, nodes, parserState>>

\* `x |> f(y)` is the call f(x, y), whose explicit type arguments are lost.
Piped(lhs, rhs) ==
  LET args == IF Last(rhs.children).tag = "arguments" THEN Last(rhs.children).children
              ELSE <<>>
  IN Tree("CallExprAST", <<rhs.children[1], Tree("arguments", <<lhs>> \o args)>>)

Combine ==
  /\ Runs("combine")
  /\ LET lhs == Own(0)[1]
         rhs == Own(0)[2]
         node == IF Step.binop = "|>" THEN Piped(lhs, rhs) ELSE Tree(Step.binop, <<lhs, rhs>>)
     IN IF Step.binop = "|>" /\ rhs.tag \notin {"CallExprAST", "VariableExprAST"}
        THEN GoOn(<<Err, Failed>>) /\ UNCHANGED nodes
        ELSE GoOn(Rest) /\ nodes' = Append(Below(0), node)
  /\ UNCHANGED <<streamVars, file, source, parserState>>

Next ==
  \/ expect \/ LookAhead \/ TakeToken \/ GiveBack \/ SkipAhead
  \/ consumeClosingAngleBracket \/ Speculate
  \/ CallFunction \/ TryParsers \/ Return \/ Loop \/ Break \/ FlagError \/ imm_error
  \/ BuildNode \/ InspectNodes \/ AddAlias \/ PendingDeref \/ NullLocation
  \/ ParseBinaryExpr \/ TighterFirst \/ Combine

\* The parser is a sequential program that does not stop by itself.
Spec == Init /\ [][Next]_vars /\ WF_vars(Next)
-----------------------------------------------------------------------------
(***************************************************************************)
(* Properties.                                                             *)
(***************************************************************************)

Written(tok) ==
  CASE tok.tok_type = "CHAR" -> "'" \o tok.lexeme \o "'"
    [] tok.tok_type = "STR" -> "\"" \o tok.lexeme \o "\""
    [] OTHER -> tok.lexeme

\* The lexer gives back the words of a program whose words are kept apart by
\* spaces, whatever characters they begin and end with.
ReadBack == file.meant /\ file.spaced => [i \in DOMAIN source |-> Written(source[i])] = file.words

\* Splitting and rolling back never lose or change a token of the file:
\* without the splits on record the stream is what the lexer gave.
TokensKept == Front(Undone(0)) = source

\* What the marks on record stand for, and the start of the file.
Saved ==
  <<[tokens |-> Undone(0), cursor |-> 1]>>
    \o [i \in DOMAIN rollback_stack |->
          [tokens |-> Undone(rollback_stack[i].splits_at_mark),
           cursor |-> rollback_stack[i].cursor]]
Stream == INSTANCE Speculation WITH tokens <- TokStream, saved <- Saved

\* A rollback brings back the tokens and the position of its mark, exactly:
\* the stream keeps a number and a position for a mark, and undoes the splits
\* made since, but does what a stream would do that kept a copy of itself.
RollbackIsExact == Stream!Spec

Accepted == Done /\ ~crashed /\ error_count = 0

\* A program is accepted, however its words touch: a `>>` that closes two
\* brackets, a `<` that begins type arguments and one that compares.
MeantIsAccepted == Done /\ file.meant => Accepted

\* The tree of a chain of operators is the one their precedences give, every
\* level associating to the left, also where a speculative parse of `<` as
\* type arguments was tried on the way and undone.
TreeAsMeant == Accepted /\ file.trees # <<>> => nodes = file.trees

\* `kernel` without a name after it: ParseKernelDef fails without an error.
KernelAlone ==
  \E i \in DOMAIN source : source[i].tok_type = "kernel"
     /\ (i = Len(source) \/ source[i + 1].tok_type # "identifier")

\* No file passes without an error of which error recovery has skipped a part,
\* or whose end was not reached, or that leaves a mark or a dereference open.
NothingSkippedSilently ==
  Accepted /\ ~KernelAlone => ~skipped /\ isEnd /\ rollback_stack = <<>> /\ pending_deref = 0

Leaves == Len(stack') < Len(stack) /\ ~crashed'

\* A parse function that returns FAILED has reported an error, itself or in a
\* function it called: the caller, that only passes FAILED on, relies on it.
FailureIsReported ==
  [][Leaves /\ Returns("FAILED") /\ ~KernelAlone => error_count > Top.errors]_vars

\* A parse function that returns NONCOMMITTED has consumed nothing and reported
\* nothing, so that the next alternative starts where it did.  (The ellipsis
\* that ends a parameter list is the exception.)
NoncommittedConsumesNothing ==
  [][Leaves /\ Returns("NONCOMMITTED") /\ Top.fn # "parameter"
       => cursor = Top.at /\ error_count = Top.errors]_vars

\* On any sequence of tokens, well-formed or not, the parser comes to an end.
Terminates == <>Done
=============================================================================
