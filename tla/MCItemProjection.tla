-------------------------- MODULE MCItemProjection --------------------------
(* Two items and a unit of the first.                                      *)
EXTENDS ItemProjection

TwoItemsOneUom == <<{1, 2}, {3}>>
UomOfFirst == [r \in 1..3 |-> IF r = 3 THEN 1 ELSE 0]
=============================================================================
