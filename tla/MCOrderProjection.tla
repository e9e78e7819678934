-------------------------- MODULE MCOrderProjection -------------------------
(* A small instance of the order projection for TLC.                       *)
EXTENDS OrderProjection, TLC

CONSTANTS oa, ob

(* Order oa never changes; of ob first the quantity changes, then the      *)
(* component, on the same line.                                            *)
TwoOrders == oa :> <<{1}>> @@ ob :> <<{1}, {1}, {2}>>
OneLine   == [c \in Parts |-> 1]

AllOrOne == {ReadyOrders, {oa}}
AnyRun   == Permutations(Runs)
=============================================================================
