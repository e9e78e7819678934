----------------------------- MODULE MCReturnTask ---------------------------
(* Small instances of the return tasks for TLC.                            *)
EXTENDS ReturnTask, TLC

OneItem == [l \in Lots |-> 1]
Alike   == Permutations(Requests) \cup Permutations(Tasks)
=============================================================================
