----------------------------- MODULE MCStockTxn -----------------------------
(* Small instances of the stock kernel for TLC.                            *)
EXTENDS StockTxn, TLC

CONSTANTS s1, s2,           \* two slots
          t1, t2, t3,       \* three attempts
          order, task       \* an order that is shipped and a return task

MCRefs == {order, task}
MCLines == {"a", "b"}
MCKeys == [ref : MCRefs \cup Txns \cup {OwnRef}, line : MCLines]

(* Both slots are lots of one code.                                        *)
MCSameCode == [s \in Slots |-> Slots]

(* A line of a document that draws its reference, or names it.             *)
Adj(s, l, q)  == [kind |-> "adjust", slot |-> s, key |-> [ref |-> OwnRef, line |-> l],
                  qty |-> q, confirm |-> FALSE, meta |-> TRUE]
Confirm(s, l) == [Adj(s, l, 0) EXCEPT !.confirm = TRUE]
In(s, l, q)   == [Adj(s, l, q) EXCEPT !.kind = "inbound_op"]
Recount(s, q) == [Adj(s, "a", q) EXCEPT !.kind = "recount"]
Out(s, l, q)  == [Adj(s, l, q) EXCEPT !.kind = "outbound", !.key.ref = order]
Ret(s, l, q)  == [Adj(s, l, q) EXCEPT !.key.ref = task]

Unlocked(q) == [doc |-> NoDoc, calls |-> q]

Receipt   == Unlocked(<<In(s1, "a", 2), In(s2, "b", 1)>>)
Shipment  == Unlocked(<<Out(s2, "a", 1), Out(s1, "b", 1)>>)
Part      == Unlocked(<<Out(s2, "a", 1)>>)
Reversal  == Unlocked(<<Adj(s1, "a", -2), Adj(s2, "b", -1)>>)
CountPost == Unlocked(<<Confirm(s2, "a"), Adj(s1, "b", 1)>>)
Recounted == Unlocked(<<Recount(s1, 3)>>)
Returned  == [doc |-> task, calls |-> <<Ret(s1, "a", 1), Ret(s2, "b", 1)>>]

AllDocuments == {Receipt, Shipment, Part, Reversal, CountPost,
                 Recounted, Returned}
=============================================================================
