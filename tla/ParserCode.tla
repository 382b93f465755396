----------------------------- MODULE ParserCode -----------------------------
(***************************************************************************)
(* The parse functions of Parser.cpp, each as the sequence of steps it     *)
(* takes.  A step carries the steps of its branches; a function that runs  *)
(* off its end returns SUCCESS.  Messages and locations are left out, the  *)
(* count of errors is not.                                                 *)
(***************************************************************************)
EXTENDS Naturals, Sequences, SequencesExt

Ret(status) == [op |-> "ret", status |-> status]
Success == Ret("SUCCESS")
Failed == Ret("FAILED")
NonCommitted == Ret("NONCOMMITTED")

\* FAILED if something was flagged on the way.
RetFlagged == [op |-> "flagged"]
Flag == [op |-> "flag"]

\* imm_error
Err == [op |-> "err"]

\* expect: consume a token of one of the kinds and go on with yes, or with no.
Expect(kinds, yes, no) == [op |-> "expect", kinds |-> kinds, yes |-> yes, no |-> no]

\* The same without consuming.
Peek(kinds, yes, no) == [op |-> "peek", kinds |-> kinds, yes |-> yes, no |-> no]

Take == [op |-> "take"]
Back(n) == [op |-> "back", n |-> n]
Exhaust(until) == [op |-> "exhaust", until |-> until]

EXPECT(kind) == Expect({kind}, <<>>, <<NonCommitted>>)

\* EXPECT_ERROR_OF and REQUIRE
REQUIRE(kind) == Expect({kind}, <<>>, <<Err, Failed>>)

\* A missing token is reported and parsing goes on.
Missing(kind) == Expect({kind}, <<>>, <<Err>>)

\* A missing token ends the function, after a skip to the next such token.
ExpectOrSkip(kind, until) == Expect({kind}, <<>>, <<Exhaust(until), Err, Failed>>)

\* A call, the number of nodes it is handed, and what follows each outcome.
CallWith(fn, handed, prec, ok, non, bad) ==
  [op |-> "call", fn |-> fn, handed |-> handed, prec |-> prec,
   ok |-> ok, non |-> non, bad |-> bad]
CallOr(fn, ok, non, bad) == CallWith(fn, 0, 0, ok, non, bad)
Call(fn, non, bad) == CallOr(fn, <<>>, non, bad)

\* emit_if_uncommitted, then FAILED.
Whole(fn) == Call(fn, <<Err, Failed>>, <<Failed>>)

\* An error of the caller's own whatever went wrong.
Reported(fn) == Call(fn, <<Err, Failed>>, <<Err, Failed>>)

\* tryParsers: the first that commits.
tryParsers(fns, non, bad) == [op |-> "try", fns |-> fns, non |-> non, bad |-> bad]

While(kinds, body) == [op |-> "while", in |-> TRUE, kinds |-> kinds, body |-> body]
Until(kinds, body) == [op |-> "while", in |-> FALSE, kinds |-> kinds, body |-> body]
Leave == [op |-> "leave"]

Mark == [op |-> "mark"]
Rollback == [op |-> "rollback"]
Commit == [op |-> "commit"]
CloseAngle(no) == [op |-> "close", no |-> no]

\* The token just consumed becomes a node; the nodes of the function, all but
\* the first so many, become one; the last one is wrapped.
Leaf == [op |-> "leaf"]
Unit(tag) == [op |-> "unit", tag |-> tag]
BuildAfter(keep, tag) == [op |-> "build", keep |-> keep, tag |-> tag]
Build(tag) == BuildAfter(0, tag)
Wrap(tag) == [op |-> "wrap", tag |-> tag]
Keep(n) == [op |-> "keep", n |-> n]
IfNodes(n, yes, no) == [op |-> "ifnodes", n |-> n, yes |-> yes, no |-> no]
IfQualified(yes, no) == [op |-> "ifqualified", yes |-> yes, no |-> no]

-----------------------------------------------------------------------------
(***************************************************************************)
(* The combinators.                                                        *)
(***************************************************************************)

comma_separated(fn, bad) ==
  <<Call(fn, bad, bad), While({","}, <<Take, Call(fn, bad, bad)>>)>>

collect_until(stop, fn) == <<Until({stop}, <<Call(fn, <<Leave>>, <<Leave>>)>>)>>

\* A failed element is flagged and skipped up to the next comma.
comma_sep_recover(fn) ==
  LET recover == <<Expect({","}, <<>>, <<Exhaust(",")>>), Flag>>
  IN <<Call(fn, <<Leave>>, recover),
       Until({}, <<Expect({","}, <<>>, <<Leave>>), Call(fn, <<Leave>>, recover)>>)>>

-----------------------------------------------------------------------------
(***************************************************************************)
(* Names and types.                                                        *)
(***************************************************************************)

\* Slip: the loop goes on with the token given back.
parseQualifiedNameTailSlip(resolve_alias) ==
  <<While({"::"}, <<Take, Expect({"identifier"}, <<Leaf>>, <<Back(1)>>)>>),
    [op |-> "qualify", resolve_alias |-> resolve_alias]>>

\* A "::" that no name follows is given back.
parseQualifiedNameTail(resolve_alias) ==
  <<While({"::"}, <<Take, Expect({"identifier"}, <<Leaf>>, <<Back(1), Leave>>)>>),
    [op |-> "qualify", resolve_alias |-> resolve_alias]>>

\* Type parameters, kept apart from the name before them.
parseTypeParams ==
  <<Expect({"<"},
      <<REQUIRE("identifier"), Leaf,
        While({","}, <<Take, REQUIRE("identifier"), Leaf>>),
        CloseAngle(<<Err, Failed>>), BuildAfter(1, "type_params")>>,
      <<>>)>>

PointerType(tag) ==
  <<REQUIRE("<"), Reported("ParseTypeExpr"), CloseAngle(<<Err, Failed>>), Build(tag), Success>>

ArrayType ==
  <<REQUIRE("number"), Leaf, REQUIRE("]"), Reported("ParseTypeExpr"),
    Build("ArrayTypeExprAST"), Success>>

\* A function type, or a tuple type of at least two.
ParenthesizedType ==
  <<Peek({")"}, <<>>, comma_separated("ParseTypeExpr", <<Err, Failed>>)), REQUIRE(")"),
    Expect({"->"}, <<Reported("ParseTypeExpr"), Build("FunctionTypeExprAST"), Success>>, <<>>),
    IfNodes(2, <<Build("TupleTypeExprAST"), Success>>, <<Err, Failed>>)>>

\* Speculative: the type arguments of a generic type.
NamedType ==
  LET simple == <<Rollback, Keep(1), Build("SimpleTypeExprAST"), Success>>
  IN <<Leaf>> \o parseQualifiedNameTail(TRUE)
     \o <<Peek({"<"},
            <<Mark, Take>> \o comma_separated("ParseTypeExpr", simple)
            \o <<CloseAngle(simple), Commit, Build("GenericTypeExprAST"), Success>>,
            <<Build("SimpleTypeExprAST"), Success>>)>>

ParseTypeExpr ==
  <<Expect({"'"}, <<REQUIRE("ptr")>> \o PointerType("LinearPointerTypeExprAST"), <<>>),
    Expect({"ptr"}, PointerType("PointerTypeExprAST"), <<>>),
    Expect({"["}, ArrayType, <<>>),
    Expect({"("}, ParenthesizedType, <<>>),
    Expect({"identifier"}, NamedType, <<NonCommitted>>)>>

ParseTypedVar ==
  <<Expect({"mut"},
      <<Err, Expect({"identifier"}, <<>>, <<Failed>>)>>,
      <<EXPECT("identifier")>>),
    Leaf, Expect({":"}, <<Reported("ParseTypeExpr")>>, <<>>), Build("TypedVarAST")>>

\* Speculative: `<Types>` after a name, kept if `::`, `{` or `(` follows.
parseExplicitTypeArgsTail ==
  LET undo == <<Rollback, Keep(1), Success>>
  IN <<Peek({"<"}, <<Mark, Take>>, <<Success>>)>>
     \o comma_separated("ParseTypeExpr", undo)
     \o <<CloseAngle(undo),
          Expect({"::"},
            <<Expect({"identifier"}, <<Leaf, [op |-> "member"], Commit, Success>>, undo)>>,
            <<Peek({"{", "("}, <<Commit, BuildAfter(1, "explicit_type_args")>>, undo)>>)>>

-----------------------------------------------------------------------------
(***************************************************************************)
(* Expressions.                                                            *)
(***************************************************************************)

ParseUnaryPrefixExpr(opTok, tag) ==
  <<EXPECT(opTok), Whole("ParsePrimaryExpr"), Build(tag)>>

\* `**` is two dereferences: the second is owed to the next call.
ParseDerefExpr ==
  <<[op |-> "pending",
     no |-> <<Expect({"*"}, <<>>, <<EXPECT("**"), [op |-> "owe"]>>)>>],
    Whole("ParsePrimaryExpr"), Build("DerefExprAST")>>

ParseBuiltinCallExpr(keyword, tag) ==
  <<EXPECT(keyword), REQUIRE("("), Whole("ParseExpr"), REQUIRE(")"), Build(tag)>>

ParseAllocExpr ==
  <<EXPECT("alloc"), REQUIRE("<"), Reported("ParseTypeExpr"), CloseAngle(<<Err, Failed>>),
    REQUIRE("("), Whole("ParseExpr"), REQUIRE(")"), Build("AllocExprAST")>>

ParseArrayLiteralExpr ==
  <<EXPECT("["), Whole("ParseExpr"),
    Expect({"..."}, <<Reported("ParseExpr"), REQUIRE("]"), Build("RangeExprAST"), Success>>, <<>>),
    While({","}, <<Take, Whole("ParseExpr")>>),
    REQUIRE("]"), Build("ArrayLiteralExprAST")>>

\* An index or a field, as often as they come.
parsePostfixOps ==
  <<While({"[", "."},
      <<Expect({"["},
          <<Whole("ParseExpr"), REQUIRE("]"), Build("IndexExprAST")>>,
          <<Take, Expect({"identifier", "number"}, <<Leaf>>, <<Err, Failed>>),
            Build("FieldAccessExprAST")>>)>>)>>

ParseLiteral == <<Expect({"number", "true", "false", "CHAR", "STR"}, <<Leaf>>, <<NonCommitted>>)>>

Primaries ==
  <<"neg", "ParseDerefExpr", "addr", "ParseAllocExpr", "free", "len", "dim",
    "ParseArrayLiteralExpr", "ParseIdentifierExpr", "ParseParenExpr", "ParseIfExpr",
    "ParseCaseExpr", "ParseWhileExpr", "ParseForExpr", "literal">>

ParsePrimaryExpr ==
  <<tryParsers(Primaries, <<NonCommitted>>, <<Failed>>)>> \o parsePostfixOps

ParseExpr ==
  <<Call("ParsePrimaryExpr", <<NonCommitted>>, <<Failed>>),
    CallWith("ParseBinaryExpr", 1, 0, <<>>, <<>>, <<Failed>>)>>

ParseReturnStmt ==
  <<EXPECT("return"), Call("ParseExpr", <<Unit("UnitExprAST")>>, <<Failed>>),
    REQUIRE(";"), Build("ReturnStmtAST")>>

ParseStructLiteralExpr ==
  <<Take,
    Until({"}"},
      <<Expect({"identifier"}, <<Leaf>>, <<Err, Flag, Leave>>),
        Expect({":"}, <<>>, <<Err, Flag, Leave>>),
        Call("ParseExpr", <<Err, Flag, Leave>>, <<Flag, Leave>>),
        Expect({","}, <<>>, <<Leave>>)>>),
    REQUIRE("}"), Build("StructLiteralExprAST"), RetFlagged>>

\* `{ }` or `{ name :` after the name; nothing is consumed to find out.
is_struct_literal ==
  <<Peek({"{"},
      <<Take,
        Peek({"}"}, <<Back(1)>> \o ParseStructLiteralExpr,
          <<Peek({"identifier"},
              <<Take, Peek({":"}, <<Back(2)>> \o ParseStructLiteralExpr, <<Back(2)>>)>>,
              <<Back(1)>>)>>)>>,
      <<>>)>>

\* A name that is qualified is a call even without arguments.
ParseIdentifierExpr ==
  <<EXPECT("identifier"), Leaf>> \o parseQualifiedNameTail(TRUE)
  \o <<CallWith("parseExplicitTypeArgsTail", 1, 0, <<>>, <<>>, <<>>)>>
  \o is_struct_literal
  \o <<Call("ParseArguments",
         <<IfQualified(<<Build("CallExprAST")>>, <<Keep(1), Build("VariableExprAST")>>),
           Success>>,
         <<Failed>>),
       Build("CallExprAST")>>

ParseArguments ==
  <<EXPECT("(")>> \o comma_sep_recover("ParseExpr")
  \o <<ExpectOrSkip(")", "EOF"), Build("arguments"), RetFlagged>>

ParseIfExpr ==
  <<EXPECT("if"), Whole("ParseExpr"), Whole("ParseBlock"),
    Expect({"else"},
      <<Peek({"if"},
          <<Call("ParseIfExpr", <<Failed>>, <<Failed>>), Wrap("BlockAST")>>,
          <<Whole("ParseBlock")>>)>>,
      <<>>),
    Build("IfExprAST")>>

PatternTail ==
  <<Expect({"("},
      <<Until({")"}, <<REQUIRE("identifier"), Leaf, Expect({","}, <<>>, <<Leave>>)>>),
        REQUIRE(")")>>,
      <<>>),
    Build("pattern")>>

parseCasePattern ==
  <<Expect({"_", "number", "true", "false", "CHAR"}, <<Leaf, Build("pattern"), Success>>, <<>>),
    Expect({"-"}, <<REQUIRE("number"), Leaf, Build("negative_pattern"), Success>>, <<>>),
    REQUIRE("identifier"), Leaf,
    Peek({"<"},
      <<Take>> \o comma_separated("ParseTypeExpr", <<Err, Failed>>)
      \o <<CloseAngle(<<Err, Failed>>), REQUIRE("::"), REQUIRE("identifier"), Leaf,
           [op |-> "member"]>>,
      parseQualifiedNameTail(FALSE) \o <<[op |-> "module"]>>)>>
  \o PatternTail

ParseCaseExpr ==
  <<EXPECT("case"), Whole("ParseExpr"), REQUIRE("{"),
    Until({"}"},
      <<Call("parseCasePattern", <<Failed>>, <<Failed>>), REQUIRE("=>"),
        Peek({"{"}, <<Whole("ParseBlock")>>, <<Whole("ParseExpr"), Wrap("BlockAST")>>),
        Expect({","}, <<>>, <<Leave>>)>>),
    REQUIRE("}"), IfNodes(2, <<>>, <<Err>>), Build("CaseExprAST")>>

ParseWhileExpr ==
  <<EXPECT("while"), Whole("ParseExpr"), Whole("ParseBlock"), Build("WhileExprAST")>>

ParseForExpr ==
  <<EXPECT("for"), REQUIRE("identifier"), Leaf, REQUIRE("in"), Whole("ParseExpr"),
    REQUIRE(".."), Whole("ParseExpr"), Whole("ParseBlock"), Build("ForExprAST")>>

\* With no expression inside, the location of a null node is taken.
ParseParenExpr ==
  <<EXPECT("("),
    CallOr("ParseExpr",
      <<Peek({","},
          <<While({","}, <<Take, Reported("ParseExpr")>>), REQUIRE(")"),
            Build("TupleLiteralExprAST"), Success>>,
          <<REQUIRE(")"), Success>>)>>,
      <<[op |-> "null"], REQUIRE(")"), Unit("UnitExprAST")>>,
      <<Err, Failed>>)>>

-----------------------------------------------------------------------------
(***************************************************************************)
(* Statements and definitions.                                             *)
(***************************************************************************)

VarDefValue ==
  <<Expect({"="}, <<>>, <<Exhaust(";"), Err, Failed>>), Reported("ParseExpr"),
    ExpectOrSkip(";", "EOF"), Build("VarDefAST"), Success>>

ParseVarDef ==
  <<EXPECT("let"), Expect({"mut"}, <<Err>>, <<>>),
    Expect({"("},
      <<Reported("ParseTypedVar"), While({","}, <<Take, Reported("ParseTypedVar")>>),
        REQUIRE(")"), Build("pattern")>>,
      <<Whole("ParseTypedVar")>>)>> \o VarDefValue

SkipStatement == <<Err, Exhaust(";")>>

\* After an expression: `;` ends a statement, `}` the block, anything else is
\* an error and the statement is skipped.
ParseBlock ==
  <<EXPECT("{"),
    Until({},
      <<CallOr("ParseExpr",
          <<Expect({";"}, <<>>,
              <<Peek({"}"}, <<Wrap("value"), Leave>>, SkipStatement)>>)>>,
          <<Call("ParseVarDef", <<Call("ParseReturnStmt", <<Leave>>, <<Flag>>)>>, <<Flag>>)>>,
          <<Expect({";"}, <<>>, <<Exhaust("EOF")>>), Flag, Expect({";"}, <<>>, <<>>)>>)>>),
    Expect({"}"}, <<>>, <<Err, Exhaust("EOF"), Failed>>),
    Build("BlockAST"), RetFlagged>>

\* An ellipsis stands for a parameter and is consumed all the same.
parameter ==
  <<Expect({"..."}, <<Leaf, NonCommitted>>, <<>>),
    Call("ParseTypedVar", <<NonCommitted>>, <<Failed>>)>>

ParseParams ==
  <<EXPECT("("),
    Expect({"..."}, <<Leaf>>, comma_sep_recover("parameter")),
    ExpectOrSkip(")", "EOF"), Build("params"), RetFlagged>>

ParsePrototype ==
  <<EXPECT("identifier"), Leaf>> \o parseQualifiedNameTail(FALSE) \o parseTypeParams
  \o <<Whole("ParseParams"), Expect({"->"}, <<Reported("ParseTypeExpr")>>, <<>>),
       Build("PrototypeAST")>>

ParsePrototypeWithSemi ==
  <<Call("ParsePrototype", <<NonCommitted>>, <<Failed>>), Missing(";")>>

ParseFuncDef ==
  LET resync == <<Expect({"}"}, <<>>, <<Exhaust("EOF")>>), Failed>>
  IN <<EXPECT("let"), Call("ParsePrototype", <<Err>> \o resync, resync),
       Call("ParseBlock", <<Err>> \o resync, resync), Build("FuncDefAST")>>

ParseReuseDef ==
  LET resync == <<Expect({";"}, <<>>, <<>>), Failed>>
  IN <<EXPECT("reuse"), Call("ParsePrototypeWithSemi", <<Err>> \o resync, resync),
       Build("ExternAST")>>

ParseStructDef ==
  <<EXPECT("struct"), REQUIRE("identifier"), Leaf>> \o parseQualifiedNameTail(FALSE)
  \o parseTypeParams \o <<REQUIRE("{")>> \o comma_sep_recover("ParseTypedVar")
  \o <<REQUIRE("}"), Missing(";"), Build("StructDefAST")>>

\* Negative discriminants are refused; a literal that is no integer too.
EnumVariant ==
  <<REQUIRE("identifier"), Leaf,
    Expect({"("},
      <<Peek({")"}, <<>>,
          <<Peek({"-"}, <<Err, Failed>>, <<>>),
            Expect({"integer"}, <<Leaf>>,
              <<Expect({"number"}, <<Err, Failed>>,
                  comma_separated("ParseTypeExpr", <<Err, Failed>>))>>)>>),
        REQUIRE(")")>>,
      <<>>),
    Expect({"|"}, <<>>, <<Leave>>)>>

\* A name followed by `|` or `(` begins an enum, anything else an alias.
ParseEnumDef ==
  LET alias == <<Reported("ParseTypeExpr"), Missing(";"), Build("TypeAliasDefAST"), Success>>
  IN <<EXPECT("type"), REQUIRE("identifier"), Leaf>> \o parseQualifiedNameTail(FALSE)
     \o parseTypeParams
     \o <<Expect({":"}, <<REQUIRE("identifier"), Leaf>>, <<>>), REQUIRE("="),
          Peek({"identifier"},
            <<Mark, Take,
              Peek({"|", "("}, <<Rollback>>, <<Rollback>> \o alias)>>,
            alias),
          Until({}, EnumVariant), Missing(";"), Build("EnumDefAST")>>

ParseTypeClassDecl ==
  <<EXPECT("typeclass"), REQUIRE("identifier"), Leaf>> \o parseTypeParams
  \o <<IfNodes(2, <<>>, <<Err, Failed>>), REQUIRE("{")>>
  \o collect_until("}", "ParsePrototypeWithSemi")
  \o <<REQUIRE("}"), Build("TypeClassDeclAST")>>

ParseTypeClassInstance ==
  <<EXPECT("instance"), REQUIRE("identifier"), Leaf, REQUIRE("<")>>
  \o comma_separated("ParseTypeExpr", <<Err, Failed>>)
  \o <<CloseAngle(<<Err, Failed>>), REQUIRE("{")>>
  \o collect_until("}", "ParseFuncDef") \o <<REQUIRE("}"), Build("TypeClassInstanceAST")>>

MapExpr ==
  <<EXPECT("map"), REQUIRE("("), REQUIRE("identifier"), Leaf, REQUIRE(","), Reported("ParseParams"),
    REQUIRE("->"), Reported("ParseTypeExpr"), Reported("ParseBlock"), REQUIRE(")"),
    Build("KernelMapExprAST")>>

ReduceExpr ==
  <<EXPECT("reduce"), REQUIRE("("), REQUIRE("identifier"), Leaf, REQUIRE(","),
    Expect({"+", "-", "*", "/"}, <<Leaf>>, <<Err, Failed>>), REQUIRE(","),
    Reported("ParseExpr"), REQUIRE(")"), Build("KernelReduceExprAST")>>

\* The one function that fails without a word: no prototype after `kernel`.
ParseKernelDef ==
  <<EXPECT("kernel"), Call("ParsePrototype", <<Failed>>, <<Failed>>),
    [op |-> "generic", yes |-> <<Err, Failed>>], REQUIRE("{"),
    Until({"}"},
      <<Expect({"number"}, <<Leaf>>,
          <<tryParsers(<<"map", "reduce">>, <<Err, Exhaust("}"), Leave>>, <<Failed>>)>>)>>),
    REQUIRE("}"), Build("KernelDefAST")>>

Definitions ==
  <<"ParseTypeClassDecl", "ParseTypeClassInstance", "ParseKernelDef", "ParseStructDef",
    "ParseEnumDef", "ParseReuseDef", "ParseFuncDef">>

ParseDefinition ==
  <<Expect({"export"},
      <<tryParsers(Definitions, <<Err, Failed>>, <<Failed>>), Wrap("export")>>,
      <<tryParsers(Definitions, <<NonCommitted>>, <<Failed>>)>>)>>

ParseImport ==
  <<EXPECT("import"), REQUIRE("identifier"), Leaf,
    Expect({"as"}, <<REQUIRE("identifier"), Leaf>>, <<>>),
    [op |-> "alias"], Missing(";"), Build("ImportDecl")>>

\* A definition that failed ends the program.
ParseProgram ==
  <<While({"import"}, <<Call("ParseImport", <<>>, <<>>)>>),
    Until({}, <<Call("ParseDefinition", <<Leave>>, <<Success>>)>>),
    Peek({"EOF"}, <<>>, <<Err>>)>>

Code ==
  [ParseProgram |-> ParseProgram, ParseImport |-> ParseImport,
   ParseDefinition |-> ParseDefinition, ParseTypeClassDecl |-> ParseTypeClassDecl,
   ParseTypeClassInstance |-> ParseTypeClassInstance, ParseKernelDef |-> ParseKernelDef,
   ParseStructDef |-> ParseStructDef, ParseEnumDef |-> ParseEnumDef,
   ParseReuseDef |-> ParseReuseDef, ParseFuncDef |-> ParseFuncDef,
   ParsePrototypeWithSemi |-> ParsePrototypeWithSemi, ParsePrototype |-> ParsePrototype,
   ParseParams |-> ParseParams, map |-> MapExpr, reduce |-> ReduceExpr,
   parameter |-> parameter, ParseBlock |-> ParseBlock,
   ParseVarDef |-> ParseVarDef, ParseReturnStmt |-> ParseReturnStmt,
   ParseParenExpr |-> ParseParenExpr, ParseForExpr |-> ParseForExpr,
   ParseWhileExpr |-> ParseWhileExpr, ParseCaseExpr |-> ParseCaseExpr,
   parseCasePattern |-> parseCasePattern, ParseIfExpr |-> ParseIfExpr,
   ParseArguments |-> ParseArguments, ParseIdentifierExpr |-> ParseIdentifierExpr,
   parseExplicitTypeArgsTail |-> parseExplicitTypeArgsTail, ParseExpr |-> ParseExpr,
   ParseBinaryExpr |-> <<[op |-> "climb"]>>, ParsePrimaryExpr |-> ParsePrimaryExpr,
   literal |-> ParseLiteral, ParseArrayLiteralExpr |-> ParseArrayLiteralExpr,
   ParseAllocExpr |-> ParseAllocExpr, ParseDerefExpr |-> ParseDerefExpr,
   neg |-> ParseUnaryPrefixExpr("-", "UnaryNegExprAST"),
   addr |-> ParseUnaryPrefixExpr("&", "AddrOfExprAST"),
   free |-> ParseBuiltinCallExpr("free", "FreeExprAST"),
   len |-> ParseBuiltinCallExpr("len", "LenExprAST"),
   dim |-> ParseBuiltinCallExpr("dim", "DimExprAST"),
   ParseTypedVar |-> ParseTypedVar, ParseTypeExpr |-> ParseTypeExpr]
=============================================================================
