------------------------------- MODULE MCLots -------------------------------
(* Small instances of the lot resolution for TLC.                          *)
EXTENDS Lots, TLC

(* Without expiry and supplier lots, perishable for a day or for a time    *)
(* PMS does not know, and supplier lots without expiry.                    *)
Plain  == [source |-> "INTERNAL_ONLY", expiry |-> "NONE", life |-> None, derive |-> FALSE]
Perish == [source |-> "SUPPLIER_ONLY", expiry |-> "REQUIRED", life |-> 1, derive |-> TRUE]
Bare   == [Perish EXCEPT !.life = None, !.derive = FALSE]
Coded  == [Plain EXCEPT !.source = "SUPPLIER_ONLY"]
Kinds  == {Plain, Perish, Bare, Coded}

(* One code for two production dates, two for one of them, and either date *)
(* missing.                                                                *)
In(code, pd, ed) == [code |-> code, pd |-> pd, ed |-> ed]
Entered == {In(1, 1, None), In(1, 2, 4), In(2, None, 3)}

OldLot == <<[source |-> "SUPPLIER", code |-> 2, pd |-> None, ed |-> None, snap |-> Coded]>>

Alike == Permutations(Requests)
=============================================================================
