------------------------------ MODULE StockSlot -----------------------------
(***************************************************************************)
(* The data of the stock kernel: one row of stocks_lot (a slot: warehouse, *)
(* item, lot) together with its rows of stock_ledger, and what it means    *)
(* for the two tables to agree about that slot.                            *)
(***************************************************************************)
EXTENDS Integers, Sequences

CONSTANTS Slots,    \* (warehouse_id, item_id, lot_id)
          Keys      \* (reason, ref, ref_line): the rest of the unique key

(* A row of stock_ledger.  meta stands for the columns that may be NULL    *)
(* (trace_id, sub_reason, event_id, ...): TRUE when they are filled.       *)
Row == [key : Keys, delta : Int, after : Nat, meta : BOOLEAN]

(* A slot: its balance and its ledger rows, oldest first.  A row that      *)
(* stocks_lot does not have yet is the empty slot, which is what           *)
(* ensure_stocks_lot_slot_exists inserts.                                  *)
Slot == [qty : Nat, rows : Seq(Row)]

EmptySlot == [qty |-> 0, rows |-> << >>]

(* The balance that the first n rows lead to.                              *)
After(rows, n) == IF n = 0 THEN 0 ELSE rows[n].after

(* The unique key is taken in this slot.                                   *)
HasKey(b, k) == \E n \in DOMAIN b.rows : b.rows[n].key = k

-----------------------------------------------------------------------------
(* Every row's after_qty continues the row before it.                      *)
Chained(b) ==
  \A n \in DOMAIN b.rows :
    b.rows[n].after = After(b.rows, n - 1) + b.rows[n].delta

(* A key moves a slot once.                                                *)
KeysOnce(b) ==
  \A m, n \in DOMAIN b.rows : b.rows[m].key = b.rows[n].key => m = n

(* The balance is the end of the chain.                                    *)
Sound(b) ==
  /\ Chained(b)
  /\ KeysOnce(b)
  /\ b.qty = After(b.rows, Len(b.rows))

(* b2 has every row of b, unchanged and in its place.                      *)
Continues(b, b2) ==
  /\ Len(b.rows) <= Len(b2.rows)
  /\ \A n \in DOMAIN b.rows : b2.rows[n] = b.rows[n]
=============================================================================
