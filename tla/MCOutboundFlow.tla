--------------------------- MODULE MCOutboundFlow ---------------------------
(* Small instances of the outbound flow for TLC.                           *)
EXTENDS OutboundFlow, TLC

CONSTANTS ord, man      \* an order, a manual document

Kinds == [d \in Docs |-> IF d = ord THEN "ORDER" ELSE "MANUAL"]

P(ln, l, q) == [line |-> ln, lot |-> l, qty |-> q]

(* Two pieces on line 1, one on line 2, from two lots of two: the whole    *)
(* document, two halves of it, a part that is too much after a half, and   *)
(* line 1 from both lots.                                                  *)
TwoAndOne == [ln \in Lines |-> IF ln = 1 THEN 2 ELSE 1]
TwoEach   == [l \in Lots |-> 2]
Half      == {<<P(1, 1, 1)>>, <<P(1, 2, 1), P(2, 2, 1)>>}
Mixed     == Half \cup {<<P(1, 1, 2), P(2, 2, 1)>>, <<P(1, 2, 2)>>,
                         <<P(1, 1, 2), P(1, 2, 1)>>}

Parallel == Permutations(Requests)
=============================================================================
