----------------------------- MODULE LedgerBook -----------------------------
(***************************************************************************)
(* What the stock tables promise to the rest of the system.  There are no  *)
(* requests, locks or transactions here: the committed book changes in one *)
(* atomic step, from a book in which every balance is the end of its       *)
(* ledger chain to another such book that only adds rows.  StockTxn, which *)
(* has the requests, the locks and the transactions, implements it.        *)
(***************************************************************************)
EXTENDS StockSlot

VARIABLE book       \* [Slots -> Slot]: what a committed read sees

Init == book = [s \in Slots |-> EmptySlot]

Post ==
  /\ book' \in [Slots -> Slot]
  /\ \A s \in Slots : Sound(book'[s]) /\ Continues(book[s], book'[s])

Spec == Init /\ [][Post]_book
=============================================================================
