----------------------------- MODULE MCCountDoc -----------------------------
(* Small instances of the count documents for TLC.                         *)
EXTENDS CountDoc, TLC

OneItem == [l \in Lots |-> 1]

Parallel == Permutations(Requests)
Alike    == Parallel \cup Permutations(Docs)
=============================================================================
