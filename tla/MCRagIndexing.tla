--------------------------- MODULE MCRagIndexing ---------------------------
(* Instances of RagIndexing for TLC: small sets of model values. *)
EXTENDS RagIndexing, TLC

CONSTANTS f1, f2, t1, t2, m1, m2, r1, r2, r3, c1

OneFile == {f1}
OneText == {t1}
OneModel == {m1}
TwoModels == {m1, m2}
TwoRuns == {r1, r2}
OneClient == {c1}
NoClient == {}

\* One trouble at a time: a fault, a reader, an edit of the directory or a crash.
\* With one of the last two the project stays, and so does its model.
OneTrouble ==
  /\ faults + edits + crashes + Cardinality(readers) <= 1
  /\ edits + crashes = 1 => exists /\ \A r \in Runs : using[r] \in {None, model}

Symmetry == Permutations(Files) \cup Permutations(Texts) \cup Permutations(Models)
            \cup Permutations(Runs)
=============================================================================
