------------------------------- MODULE Lexer -------------------------------
(***************************************************************************)
(* Lexer.cpp: the tokens of a text, taken one after the other by the first *)
(* handler that advances.  Positions count from 1; the character after the *)
(* last is the empty one.  String literals are taken to be closed: of one  *)
(* that is not, the lexer reads past the end of the text.                  *)
(***************************************************************************)
EXTENDS Naturals, Sequences, FiniteSetsExt, TLC

Chars(str) == {SubSeq(str, i, i) : i \in 1 .. Len(str)}
Digits == Chars("0123456789")
Alphas == Chars("abcdefghijklmnopqrstuvwxyzABCDEFGHIJKLMNOPQRSTUVWXYZ")
Alnums == Digits \cup Alphas
Spaces == {" ", "\n", "\t"}

At(input, i) == IF i \in 1 .. Len(input) THEN SubSeq(input, i, i) ELSE ""
Slice(input, i, j) == SubSeq(input, i, j - 1)

\* The first position from i on, but not past the limit, that is not in chars.
RunTo(limit, input, i, chars) ==
  Min({j \in i .. limit : j = limit \/ At(input, j) \notin chars})
Run(input, i, chars) == RunTo(Len(input) + 1, input, i, chars)

\* The loops over a number stop before the last character of the text.
RunOfNumber(input, i, chars) ==
  IF i >= Len(input) THEN i ELSE RunTo(Len(input), input, i, chars)

Tok(tok_type, lexeme) == <<[tok_type |-> tok_type, lexeme |-> lexeme]>>

\* What a handler does: where it leaves the cursor, the tokens it pushes (an
\* INVALID one is not pushed) and whether it reports an error.
Scan(next, tokens, error) == [next |-> next, tokens |-> tokens, error |-> error]
NotMine(i) == Scan(i, <<>>, FALSE)

keywords ==
  {"fn", "return", "struct", "type", "if", "else", "let", "true", "false", "reuse",
   "export", "ptr", "alloc", "free", "len", "dim", "import", "as", "typeclass",
   "instance", "while", "for", "in", "case", "kernel"}

Escapes == "n" :> "\n" @@ "t" :> "\t" @@ "r" :> "\r" @@ "0" :> ""
Escaped(c) == IF c \in DOMAIN Escapes THEN Escapes[c] ELSE c

\* A tick before a letter that no tick follows is the mark of a linear pointer.
handleTick(input, i) ==
  LET body == IF At(input, i + 1) = "\\" THEN i + 2 ELSE i + 1
      ch == IF body = i + 2 THEN Escaped(At(input, body)) ELSE At(input, body)
  IN IF i + 2 <= Len(input) /\ At(input, i + 1) \in Alphas /\ At(input, i + 2) # "'"
     THEN Scan(i + 1, Tok("'", "'"), FALSE)
     ELSE IF At(input, body + 1) = "'" THEN Scan(body + 2, Tok("CHAR", ch), FALSE)
     ELSE Scan(body + 1, <<>>, TRUE)

\* Where a string ends and what it holds, from position i inside it.
handleString(input, i) ==
  LET from[j \in i .. Len(input) + 1] ==
        CASE At(input, j) = "\"" -> <<j + 1, "">>
          [] At(input, j) = "\\" -> LET rest == from[j + 2]
                                    IN <<rest[1], Escaped(At(input, j + 1)) \o rest[2]>>
          [] OTHER -> LET rest == from[j + 1] IN <<rest[1], At(input, j) \o rest[2]>>
  IN from[i]

handleID(input, i) ==
  CASE At(input, i) = "'" -> handleTick(input, i)
    [] At(input, i) = "\"" ->
         LET str == handleString(input, i + 1) IN Scan(str[1], Tok("STR", str[2]), FALSE)
    [] At(input, i) \in Alphas \cup {"_"} ->
         LET end == Run(input, i + 1, Alnums \cup {"_", "$"})
             id == Slice(input, i, end)
         IN Scan(end, Tok(IF id \in keywords THEN id ELSE "identifier", id), FALSE)
    [] OTHER -> NotMine(i)

\* A dot after the digits is part of the number unless another dot follows, and
\* so is the character after it, whatever it is.
handleNumber(input, i) ==
  LET whole == RunOfNumber(input, i + 1, Digits)
      fraction == IF At(input, whole) = "." /\ At(input, whole + 1) # "."
                  THEN RunOfNumber(input, whole + 2, Digits) ELSE whole
      end == IF At(input, fraction) \in Alphas
             THEN RunOfNumber(input, fraction, Alnums) ELSE fraction
  IN IF At(input, i) \in Digits THEN Scan(end, Tok("number", Slice(input, i, end)), FALSE)
     ELSE IF At(input, i) # "." THEN NotMine(i)
     ELSE LET dots == CASE Slice(input, i, i + 3) = "..." -> 3
                        [] At(input, i + 1) = "." -> 2
                        [] OTHER -> 1
          IN Scan(i + dots, Tok(Slice(input, i, i + dots), Slice(input, i, i + dots)), FALSE)

operatorRules ==
  "+" :> {"++", "+="} @@ "-" :> {"--", "->", "-="} @@ "*" :> {"**", "*="}
  @@ "/" :> {"/^", "/_", "/="} @@ "%" :> {} @@ "&" :> {"&&"} @@ "|" :> {"||", "|>"}
  @@ "^" :> {} @@ "<" :> {"<<", "<="} @@ ">" :> {">>", ">="} @@ "=" :> {"==", "=>"}
  @@ "!" :> {"!="}

\* Slip: the longer operator is not looked for.
handleOperatorsSlip(input, i) ==
  IF At(input, i) = "/" /\ At(input, i + 1) = "/"
  THEN Scan(Run(input, i, Chars(input) \ {"\n"}), <<>>, FALSE)
  ELSE IF At(input, i) \notin DOMAIN operatorRules THEN NotMine(i)
  ELSE Scan(i + 1, Tok(At(input, i), At(input, i)), FALSE)

\* The longer operator if there is one; a comment runs to the end of its line.
handleOperators(input, i) ==
  IF At(input, i) = "/" /\ At(input, i + 1) = "/"
  THEN Scan(Run(input, i, Chars(input) \ {"\n"}), <<>>, FALSE)
  ELSE IF At(input, i) \notin DOMAIN operatorRules THEN NotMine(i)
  ELSE LET pair == Slice(input, i, i + 2)
           op == IF i < Len(input) /\ pair \in operatorRules[At(input, i)] THEN pair ELSE At(input, i)
       IN Scan(i + Len(op), Tok(op, op), FALSE)

\* A `#` is an error, up to and with the end of its line.
handleUtility(input, i) ==
  CASE At(input, i) \in Chars("(){},;[]") ->
         Scan(i + 1, Tok(At(input, i), At(input, i)), FALSE)
    [] At(input, i) = "#" ->
         Scan(Run(input, i, Chars(input) \ {"\n"}) + 1, <<>>, TRUE)
    [] At(input, i) = ":" ->
         LET op == IF At(input, i + 1) = ":" THEN "::" ELSE ":"
         IN Scan(i + Len(op), Tok(op, op), FALSE)
    [] OTHER -> NotMine(i)

\* All up to the next character some handler would take.
Known == Spaces \cup Alnums \cup Chars("_\"+-*/%&|^<>=!(){}[]#,;:.'")
handleInvalid(input, i) == Scan(Run(input, i + 1, Chars(input) \ Known), <<>>, TRUE)

lexNextToken(input, i) ==
  LET tried == <<handleID(input, i), handleNumber(input, i), handleOperators(input, i),
                 handleUtility(input, i)>>
      mine == {k \in 1 .. 4 : tried[k].next # i}
  IN IF mine = {} THEN handleInvalid(input, i) ELSE tried[Min(mine)]

\* The tokens of the text, and whether an error was reported.
Lex(input) ==
  LET from[i \in 1 .. Len(input) + 2] ==
        LET start == IF i > Len(input) THEN i ELSE Run(input, i, Spaces)
        IN IF start > Len(input) THEN Scan(start, <<>>, FALSE)
           ELSE LET first == lexNextToken(input, start)
                    rest == from[first.next]
                IN Scan(rest.next, first.tokens \o rest.tokens, first.error \/ rest.error)
  IN from[1]

\* stoll reads the whole of a number's lexeme.
IsInteger(lexeme) == Chars(lexeme) \subseteq Digits
=============================================================================
