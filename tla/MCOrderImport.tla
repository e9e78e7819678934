---------------------------- MODULE MCOrderImport ---------------------------
(* A small instance of the order import for TLC.                           *)
EXTENDS OrderImport, TLC

CONSTANTS oa, ob, i1, i2

(* Two stores.  Order oa has two components of one sku, one with a         *)
(* quantity that is no integer; that is corrected and the other dropped.   *)
TwoStores == oa :> 1 @@ ob :> 2
TwoOrders == oa :> <<1 :> 0 @@ 2 :> 1, 1 :> 1>> @@ ob :> <<3 :> 2>>
Sku       == [c \in Components |-> IF c = 3 THEN 2 ELSE 1]

(* Batches that meet in the two stores from both sides, and a dry run.     *)
BothWays == i1 :> {[ids |-> <<oa, ob, oa>>, dry |-> FALSE], [ids |-> <<ob>>, dry |-> TRUE]}
            @@ i2 :> {[ids |-> <<ob, oa>>, dry |-> FALSE]}
=============================================================================
