------------------------------ MODULE MCParser ------------------------------
(***************************************************************************)
(* Files for Parser: programs that between them use every construct, each  *)
(* of them with one word missing, added or changed, and every chain of     *)
(* operators with the tree its precedences give.                           *)
(***************************************************************************)
EXTENDS ParserPoints

\* Whether two words may touch.
Brackets == Chars("(){}[],;")
Wordlike(word) == SubSeq(word, 1, 1) \in Alnums \cup {"_"}
MayTouch(v, w) ==
  \/ v \in Brackets \/ w \in Brackets
  \/ Wordlike(v) # Wordlike(w) /\ w # "."
  \/ v = ">" /\ w \in {">", "="}

Spelled(words, glue) ==
  LET from[i \in 1 .. Len(words)] ==
        IF i = Len(words) THEN words[i]
        ELSE words[i] \o (IF words[i] = "'" \/ (glue /\ MayTouch(words[i], words[i + 1])) THEN "" ELSE " ")
             \o from[i + 1]
  IN from[1] \o "\n"

File(words, glue, meant, trees) ==
  [text |-> Spelled(words, glue), words |-> words, spaced |-> ~glue,
   meant |-> meant, trees |-> trees]

-----------------------------------------------------------------------------
Programs == {
  <<"import", "m", ";", "import", "n", "as", "k", ";", "export", "let", "f", "<", "T", ",", "U",
    ">", "(", "x", ":", "T", ",", "...", ")", "->", "ptr", "<", "ptr", "<", "T", ">", ">", "{",
    "k", "::", "g", "(", "x", ")", "}">>,
  <<"struct", "P", "<", "T", ">", "{", "x", ":", "[", "2", "]", "T", ",", "y", ":", "(", "T", ",",
    "i", ")", "->", "i", "}", ";", "reuse", "f", "(", "...", ")", "->", "(", "i", ",", "i", ")", ";">>,
  <<"type", "O", "<", "T", ">", "=", "S", "(", "T", ")", "|", "N", ";", "type", "C", ":", "u8", "=",
    "A", "(", "1", ")", "|", "B", ";", "type", "I", "=", "'", "ptr", "<", "m", "::", "O", "<", "i", ">", ">", ";">>,
  <<"typeclass", "A", "<", "T", ">", "{", "g", "(", "x", ":", "T", ")", ";", "}",
    "instance", "A", "<", "O", "<", "i", ">", ">", "{", "let", "g", "(", ")", "{", "}", "}">>,
  <<"kernel", "k", "(", "x", ":", "[", "2", "]", "i", ")", "{", "map", "(", "x", ",", "(", "e", ":", "i", ")",
    "->", "i", "{", "e", "}", ")", "reduce", "(", "x", ",", "+", ",", "0", ")", "1", "}">>,
  <<"let", "f", "(", ")", "{", "let", "x", ":", "O", "<", "ptr", "<", "i", ">", ">", "=", "g", "<", "i", ">",
    "(", "a", "<", "b", ")", ";", "let", "(", "a", ",", "b", ")", "=", "(", "1", ",", "\"s\"", ")", ";",
    "return", ";", "}">>,
  <<"let", "f", "(", ")", "{", "case", "x", "{", "O", "<", "i", ">", "::", "S", "(", "v", ")", "=>", "v", ",",
    "m", "::", "E", "::", "N", "=>", "{", "1", "}", ",", "-", "1", "=>", "'c'", ",", "_", "=>", "O", "<", "i", ">",
    "::", "N", "}", "}">>,
  <<"let", "f", "(", ")", "{", "if", "a", "{", "free", "(", "p", ")", ";", "}", "else", "if", "b", "{", "**", "p", "}",
    "else", "{", "&", "q", ".", "0", "[", "1", "]", ".", "y", "}", ";", "alloc", "<", "O", "<", "i", ">", ">",
    "(", "2", ")", "}">>,
  <<"let", "f", "(", ")", "{", "while", "a", "<", "b", "{", "x", "=", "-", "1", ";", "}", ";",
    "for", "i", "in", "0", "..", "len", "(", "x", ")", "{", "}", ";",
    "P", "<", "i", ">", "{", "x", ":", "[", "1", ",", "2", "]", ",", "y", ":", "[", "1", "...", "3", "]", "}", "|>", "g", "}">>}

CONSTANT Changes   \* the words put in
Changed(w) ==
  {RemoveAt(w, i) : i \in DOMAIN w}
  \cup {[w EXCEPT ![i] = c] : i \in DOMAIN w, c \in Changes}

-----------------------------------------------------------------------------
(***************************************************************************)
(* Chains of operators, and their trees: the operator that binds loosest,  *)
(* the rightmost of them, is at the root.                                  *)
(***************************************************************************)

Levels ==
  <<{"|>"}, {"="}, {"||"}, {"|"}, {"&&"}, {"^"}, {"&"}, {"<", "<=", ">=", ">", "==", "!="},
    {"<<", ">>"}, {"+", "-"}, {"*", "/", "%"}>>
Operators == UNION Range(Levels)
Level(op) == CHOOSE l \in DOMAIN Levels : op \in Levels[l]

Operands == <<"a", "b", "c", "d">>
Name(word) == Tree(word, <<>>)

\* The tree of the operands from the i-th to the j-th.
Chain(ops, level(_)) ==
  LET tree[i \in 1 .. 4, j \in 1 .. 4] ==
        IF i = j THEN Tree("VariableExprAST", <<Name(Operands[i])>>)
        ELSE LET loosest == CHOOSE k \in i .. j - 1 :
                   /\ \A l \in i .. j - 1 : level(ops[k]) <= level(ops[l])
                   /\ \A l \in k + 1 .. j - 1 : level(ops[k]) < level(ops[l])
                 left == tree[i, loosest]
                 right == tree[loosest + 1, j]
             IN IF ops[loosest] # "|>" THEN Tree(ops[loosest], <<left, right>>)
                ELSE Tree("CallExprAST", <<right.children[1], Tree("arguments", <<left>>)>>)
  IN tree[1, Len(ops) + 1]

\* Only names are piped into.
Pipeable(ops) ==
  \A i \in DOMAIN ops : ops[i] = "|>" => i = Len(ops) \/ Level(ops[i + 1]) = 1

Main(body) ==
  Tree("FuncDefAST",
    <<Tree("PrototypeAST", <<Name("f"), Tree("params", <<>>)>>),
      Tree("BlockAST", <<Tree("value", <<body>>)>>)>>)

ChainFile(ops) ==
  File(<<"let", "f", "(", ")", "{">>
       \o [i \in 1 .. 2 * Len(ops) + 1 |->
             IF i % 2 = 1 THEN Operands[(i + 1) \div 2] ELSE ops[i \div 2]]
       \o <<"}">>,
       FALSE, TRUE, <<Main(Chain(ops, Level))>>)

Few == {"=", "<", ">>", "+", "*"}
Chains ==
  {ops \in [1 .. 2 -> Operators] \cup [1 .. 3 -> Few] : Pipeable(ops)}

\* A file that is meant has no tree to compare with, or the one given.
MCFiles ==
  {File(w, glue, TRUE, <<>>) : w \in Programs, glue \in BOOLEAN}
  \cup {File(v, FALSE, FALSE, <<>>) : v \in UNION {Changed(w) : w \in Programs}}
  \cup {ChainFile(ops) : ops \in Chains}
  \cup {File(<<"let", "f", "(", ")", "{", "(", ")", "}">>, FALSE, FALSE, <<>>)}
MCChanges == {"(", "<"}

-----------------------------------------------------------------------------
\* The order of precedence that docs/grammar.md and the comments at the table
\* give.
DocLevels ==
  <<{"|>"}, {"="}, {"|"}, {"||"}, {"&"}, {"^"}, {"&&"}, {"<", "<=", ">=", ">", "==", "!="},
    {"<<", ">>"}, {"+", "-"}, {"*", "/", "%"}>>
DocLevel(op) == CHOOSE l \in DOMAIN DocLevels : op \in DocLevels[l]
DocFiles ==
  {[ChainFile(ops) EXCEPT !.trees = <<Main(Chain(ops, DocLevel))>>] :
     ops \in [1 .. 2 -> {"|", "||", "&", "^", "&&"}]}

=============================================================================
