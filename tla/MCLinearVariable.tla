-------------------------- MODULE MCLinearVariable --------------------------
(***************************************************************************)
(* LinearVariable over the types nested at most three deep, with one or    *)
(* two fields or elements.                                                 *)
(***************************************************************************)
EXTENDS LinearVariable

Scalar == [kind |-> "scalar", linear |-> FALSE, inner |-> <<>>]
Wrap(k, ts)  == [kind |-> k, linear |-> FALSE, inner |-> ts]
Owning(t)    == [kind |-> "pointer", linear |-> TRUE, inner |-> <<t>>]

Unary(S)  == {Owning(t) : t \in S}
               \cup {Wrap(k, <<t>>) : k \in {"pointer", "array", "struct", "enum"}, t \in S}
Binary(S) == {Wrap(k, <<t, u>>) : k \in {"tuple", "function"}, t, u \in S}

Level1 == {Scalar} \cup Unary({Scalar})
Level2 == Level1 \cup Unary(Level1) \cup Binary(Level1)
MCUniverse == Level2 \cup Unary(Level2)
=============================================================================
