---------------------------- MODULE TokenStream ----------------------------
(***************************************************************************)
(* The token list the parser walks over (TokenStream in Token.h), with its *)
(* stack of rollback points and its record of the tokens split in two.     *)
(* The lexer hands tokens over on demand; here the list is complete from   *)
(* the start, which the parser cannot tell apart.                          *)
(***************************************************************************)
EXTENDS Lexer, SequencesExt

VARIABLES
  TokStream,        \* the tokens, the last of them the end of file
  cursor,           \* the position of the token peek() returns
  pending_splits,   \* the tokens split so far: where, and what they were
  rollback_stack    \* cursor and number of splits at each mark

streamVars == <<TokStream, cursor, pending_splits, rollback_stack>>

EOF == [tok_type |-> "EOF", lexeme |-> "end of file"]

StreamInit(tokens) ==
  /\ TokStream = Append(tokens, EOF)
  /\ cursor = 1
  /\ pending_splits = <<>>
  /\ rollback_stack = <<>>

peek == TokStream[cursor]
isEnd == peek.tok_type = "EOF"

\* What a token is asked for by: its type, the name of an identifier that is a
\* word in some places, or that stoll reads the whole of a number.
Words == {"mut", "_", "map", "reduce"}
Names(tok) ==
  {tok.tok_type}
    \cup (IF tok.tok_type = "identifier" THEN {tok.lexeme} \cap Words ELSE {})
    \cup (IF tok.tok_type = "number" /\ IsInteger(tok.lexeme) THEN {"integer"} ELSE {})
Sees(kinds) == Names(peek) \cap kinds # {}

\* The end of file is never consumed.
Past(i) == IF TokStream[i].tok_type = "EOF" THEN i ELSE i + 1

consume ==
  /\ cursor' = Past(cursor)
  /\ UNCHANGED <<TokStream, pending_splits, rollback_stack>>

\* rollback(size_t): the lookahead of the parser, counted in tokens.  It is
\* asserted that there are so many; an assertion that fails ends the process.
BackBy(n) ==
  /\ n \in 0 .. cursor - 1
  /\ cursor' = cursor - n
  /\ UNCHANGED <<TokStream, pending_splits, rollback_stack>>

\* Past the next token of the type, or to the end of file.
After(i, tok_type) ==
  LET found == {j \in i .. Len(TokStream) - 1 : TokStream[j].tok_type = tok_type}
  IN IF found = {} THEN Len(TokStream) ELSE Min(found) + 1

exhaust_until(tok_type) ==
  /\ cursor' = After(cursor, tok_type)
  /\ UNCHANGED <<TokStream, pending_splits, rollback_stack>>

\* split_current(first, second) followed by consume().
SplitAndConsume(first, second) ==
  /\ TokStream' = InsertAt([TokStream EXCEPT ![cursor] = first], cursor + 1, second)
  /\ pending_splits' =
       Append(pending_splits, [inserted |-> cursor + 1, original |-> peek])
  /\ cursor' = cursor + 1
  /\ UNCHANGED rollback_stack

Unsplit(split, tokens) ==
  [RemoveAt(tokens, split.inserted) EXCEPT ![split.inserted - 1] = split.original]

\* The tokens without the splits after the first n, the last undone first.
Undo(tokens, splits, n) ==
  LET upto[k \in 0 .. Len(splits)] ==
        IF k = Len(splits) THEN tokens ELSE Unsplit(splits[k + 1], upto[k + 1])
  IN upto[n]
Undone(n) == Undo(TokStream, pending_splits, n)

mark_rollback ==
  /\ rollback_stack' =
       Append(rollback_stack,
              [cursor |-> cursor, splits_at_mark |-> Len(pending_splits)])
  /\ UNCHANGED <<TokStream, cursor, pending_splits>>

\* Slip: the splits are forgotten, not undone.
rollbackSlip ==
  LET mark == Last(rollback_stack)
  IN /\ rollback_stack # <<>>
     /\ pending_splits' = SubSeq(pending_splits, 1, mark.splits_at_mark)
     /\ cursor' = mark.cursor
     /\ rollback_stack' = Front(rollback_stack)
     /\ UNCHANGED TokStream

\* It is asserted that there is a mark.
rollback ==
  LET mark == Last(rollback_stack)
  IN /\ rollback_stack # <<>>
     /\ TokStream' = Undone(mark.splits_at_mark)
     /\ pending_splits' = SubSeq(pending_splits, 1, mark.splits_at_mark)
     /\ cursor' = mark.cursor
     /\ rollback_stack' = Front(rollback_stack)

\* Slip: the mark stays.
commit_rollbackSlip == rollback_stack # <<>> /\ UNCHANGED streamVars

commit_rollback ==
  /\ rollback_stack # <<>>
  /\ rollback_stack' = Front(rollback_stack)
  /\ UNCHANGED <<TokStream, cursor, pending_splits>>
=============================================================================
