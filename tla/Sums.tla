-------------------------------- MODULE Sums --------------------------------
(* Sums of quantities over finite sets of lots, lines or events.           *)
EXTENDS Integers, FiniteSets, FiniteSetsExt

(* The sum of q[x] for the x in S.                                         *)
SumOf(q, S) == MapThenSumSet(LAMBDA x : q[x], S)
=============================================================================
