---------------------------- MODULE MCInboundFlow ---------------------------
(* Small instances of the inbound flow for TLC.                            *)
EXTENDS InboundFlow, TLC

P(ln, l, q) == [line |-> ln, lot |-> l, qty |-> q]

(* One piece on line 1, two on line 2 that go to two lots.                 *)
OneAndTwo == [ln \in Lines |-> ln]
SplitLine == {<<P(1, 1, 1)>>, <<P(2, 1, 1), P(2, 2, 1)>>}

(* A piece on lot 1, so that a second reversal finds what to take.         *)
OneBefore == [l \in Lots |-> IF l = 1 THEN 1 ELSE 0]

Parallel == Permutations(Requests)
Alike    == Parallel \cup Permutations(Receipts)
=============================================================================
