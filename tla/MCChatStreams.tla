--------------------------- MODULE MCChatStreams ---------------------------
(* Instances of ChatStreams for TLC: small sets of model values. *)
EXTENDS ChatStreams, TLC

CONSTANTS c1, c2, r1, r2

TwoConvs == {c1, c2}
TwoRequests == {r1, r2}
Symmetry == Permutations(Convs) \cup Permutations(Requests)

\* One hazard of the user at a time: loads in flight, an edit or a removal
\* with one conversation, or a second conversation and short answers.
Several == Cardinality({c \in Convs : stored[c] # <<>> \/ store.msgs[c] # <<>>}) > 1
Extra ==
  (IF Several THEN 1 ELSE 0) + (IF loaded = {} THEN 1 ELSE 0) + edits + removals
Focus ==
  /\ Extra <= 1
  /\ Several \/ edits + removals = 1 => \A r \in Requests : sent[r] <= 1
  /\ Extra = 1 => Cardinality({r \in Requests : sent[r] > 1}) <= 1
=============================================================================
