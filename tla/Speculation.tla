----------------------------- MODULE Speculation -----------------------------
(***************************************************************************)
(* What a parser that tries things may rely on (mark_rollback, rollback    *)
(* and commit_rollback as Token.h describes them): a mark keeps the tokens *)
(* and the position as they are, and a rollback brings both back, whatever *)
(* was read, given back or split since, and however marks nest.            *)
(***************************************************************************)
EXTENDS Naturals, Sequences, SequencesExt

VARIABLES tokens, cursor,
          saved     \* what each mark keeps; the first is the start of the file

Here == [tokens |-> tokens, cursor |-> cursor]

Init == tokens # <<>> /\ cursor = 1 /\ saved = <<Here>>

\* Reading on, giving back, skipping ahead.
Go == cursor' \in 1 .. Len(tokens) /\ UNCHANGED <<tokens, saved>>

\* The token at the cursor becomes two, the first of which is read.
Halve ==
  /\ cursor < Len(tokens)
  /\ tokens' = SubSeq(tokens, 1, cursor - 1) \o <<tokens'[cursor], tokens'[cursor + 1]>>
                 \o SubSeq(tokens, cursor + 1, Len(tokens))
  /\ cursor' = cursor + 1 /\ UNCHANGED saved

Keep == saved' = Append(saved, Here) /\ UNCHANGED <<tokens, cursor>>

\* The start of the file is never given up.
Forget == Len(saved) > 1 /\ saved' = Front(saved) /\ UNCHANGED <<tokens, cursor>>

Return == Len(saved) > 1 /\ Here' = Last(saved) /\ saved' = Front(saved)

Next == Go \/ Halve \/ Keep \/ Forget \/ Return
Spec == Init /\ [][Next]_<<tokens, cursor, saved>>
=============================================================================
