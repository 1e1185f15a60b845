--------------------------- MODULE MCChatRequests ---------------------------
(* Instances of ChatRequests for TLC: small sets of model values. *)
EXTENDS ChatRequests, TLC

CONSTANTS c1, c2, c3, i1, i2

TwoCalls == {c1, c2}
TwoIds == {i1, i2}

Symmetry == Permutations(Calls) \cup Permutations(Ids)
=============================================================================
