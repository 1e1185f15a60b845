--------------------------- MODULE MCWriteBatcher ---------------------------
(* Instances of WriteBatcher for TLC: small sets of model values. *)
EXTENDS WriteBatcher, TLC

CONSTANTS a1, a2, a3, a4, x, y, c1, c2

ThreeAppends == {a1, a2, a3}
TwoMessages == {x, y}
TwoConversations == {c1, c2}
\* Messages of two conversations, and of one.
Apart == [m \in Messages |-> IF m = x THEN c1 ELSE c2]

Symmetry == Permutations(Appends)
=============================================================================
