----------------------------- MODULE InboundFlow ----------------------------
(***************************************************************************)
(* Receiving source documents.  A receipt (inbound_receipts) is made from  *)
(* a purchase or return order, or by hand, released, and received by       *)
(* operations (one COMMIT event of wms_events each) until no line is left. *)
(* An event is undone by a reversal.  Procurement pulls the events of      *)
(* purchase receipts, page by page, behind a cursor of event ids.          *)
(*                                                                         *)
(* A request reads without locks, takes the id of its event from the       *)
(* sequence when it inserts the event, and is seen by others at its        *)
(* commit; the lots it moves are locked from their first write to the      *)
(* commit, so the moves and the commit are one step.                       *)
(***************************************************************************)
EXTENDS Sequences, EventLines

CONSTANTS Receipts,     \* identities of receipts
          Orders,       \* source documents: (source_type, source_doc_id)
          Purchases,    \* the purchase orders among them
          None,         \* no source document: a manual receipt
          Lines,        \* line numbers of a receipt
          Planned,      \* [Lines -> Nat \ {0}]: planned_qty_base
          Lots,
          Stock0,       \* [Lots -> Nat]: the stock there is before
          Payloads,     \* what clients submit: sequences of Part
          Requests,     \* HTTP requests that can be in flight together
          PageLimit,    \* page size of procurement's pulls
          MaxEvents     \* bound on the ids of wms_events

Part == [line : Lines, lot : Lots, qty : Nat \ {0}]

ASSUME InboundAssumption ==
  /\ Purchases \subseteq Orders /\ None \notin Orders \cup Receipts
  /\ Lines # {} /\ Planned \in [Lines -> Nat \ {0}] /\ Stock0 \in [Lots -> Nat]
  /\ \A pay \in Payloads : pay \in Seq(Part) /\ pay # << >>
  /\ PageLimit \in Nat \ {0}

VARIABLES receipt,      \* the committed inbound_receipts
          events,       \* the committed wms_events with their lines, by id
          lastId,       \* the id sequence of wms_events
          stock,        \* committed stocks_lot
          req,          \* requests in flight
          cursor, seen, \* procurement: after_event_id, the events it got
          clash         \* receipts and orders that had two requests in
                        \* flight at once (history)

vars == <<receipt, events, lastId, stock, req, cursor, seen, clash>>

-----------------------------------------------------------------------------
Idle == [op |-> "idle", r |-> None, src |-> None, pay |-> << >>,
         target |-> 0, id |-> 0, done |-> FALSE]

OfKind(k) == {n \in DOMAIN events : events[n].kind = k}

(* received_qty_base: the lines of all operations.  They are a COMMIT      *)
(* event's lines, and a reversal does not take them back.                  *)
Received(r, ln) ==
  LineTotal(events, {n \in OfKind("COMMIT") : events[n].r = r}, ln)

ReversalsOf(n) == {m \in DOMAIN events : events[m].target = n}

Init ==
  /\ receipt = [r \in Receipts |-> [st |-> "NONE", src |-> None]]
  /\ events = << >>
  /\ lastId = 0
  /\ stock = Stock0
  /\ req = [p \in Requests |-> Idle]
  /\ cursor = 0
  /\ seen = {}
  /\ clash = {}

(* Request p starts working on receipt r, for the source document src.     *)
Start(p, r, src) ==
  /\ req[p] = Idle
  /\ clash' = clash \cup {x \in {r, src} \ {None} :
                           \E q \in Requests : x \in {req[q].r, req[q].src}}

(* An exception or a crash rolls a request back; its event id is lost.     *)
Fail(p) ==
  /\ req[p] # Idle
  /\ req' = [req EXCEPT ![p] = Idle]
  /\ UNCHANGED <<receipt, events, lastId, stock, cursor, seen, clash>>

-----------------------------------------------------------------------------
NotYetReceived(src) ==
  \A r \in Receipts : receipt[r].st = "NONE" \/ receipt[r].src # src

(* create_inbound_receipt_from_purchase_repo and _from_return_order_repo:  *)
(* the source document has no receipt; then one is inserted.               *)
CreateCheck(p, r, src) ==
  /\ receipt[r].st = "NONE"
  /\ Start(p, r, src)
  /\ NotYetReceived(src)
  /\ req' = [req EXCEPT ![p] = [op |-> "create", r |-> r, src |-> src, pay |-> << >>,
                                target |-> 0, id |-> 0, done |-> FALSE]]
  /\ UNCHANGED <<receipt, events, lastId, stock, cursor, seen>>

CreateInsert(p) ==
  /\ req[p].op = "create"
  /\ receipt[req[p].r].st = "NONE"
  /\ receipt' = [receipt EXCEPT ![req[p].r] = [st |-> "DRAFT", src |-> req[p].src]]
  /\ req' = [req EXCEPT ![p] = Idle]
  /\ UNCHANGED <<events, lastId, stock, cursor, seen, clash>>

SetStatus(r, from, to) ==
  /\ receipt[r].st = from
  /\ receipt' = [receipt EXCEPT ![r] = [st |-> to, src |-> @.src]]
  /\ UNCHANGED <<events, lastId, stock, req, cursor, seen, clash>>

CreateManual(r) ==
  /\ \A q \in Requests : req[q].r # r
  /\ SetStatus(r, "NONE", "DRAFT")

Release(r) == SetStatus(r, "DRAFT", "RELEASED")

-----------------------------------------------------------------------------
(* No line gets more than planned, entry by entry.                         *)
Fits(r, pay) == \A ln \in Lines : Received(r, ln) + OfLine(pay, ln) <= Planned[ln]

(* Fault: what earlier operations received is forgotten.                   *)
CompletesAlone(r, pay) == \A ln \in Lines : OfLine(pay, ln) >= Planned[ln]

Completes(r, pay) ==
  \A ln \in Lines : Received(r, ln) + OfLine(pay, ln) >= Planned[ln]

(* submit_inbound_operation_repo reads the receipt and its progress, ...   *)
SubmitCheck(p, r, pay) ==
  /\ receipt[r].st = "RELEASED"
  /\ Start(p, r, None)
  /\ Fits(r, pay)
  /\ req' = [req EXCEPT ![p] = [op |-> "submit", r |-> r, src |-> None, pay |-> pay,
                                target |-> 0, id |-> 0, done |-> Completes(r, pay)]]
  /\ UNCHANGED <<receipt, events, lastId, stock, cursor, seen>>

(* ... inserts the event (as a reversal does) ...                          *)
InsertEvent(p) ==
  /\ req[p].op \in {"submit", "reverse"} /\ req[p].id = 0
  /\ lastId < MaxEvents
  /\ lastId' = lastId + 1
  /\ req' = [req EXCEPT ![p] = [@ EXCEPT !.id = lastId']]
  /\ UNCHANGED <<receipt, events, stock, cursor, seen, clash>>

With(evs, id, e) ==
  [n \in DOMAIN evs \cup {id} |-> IF n = id THEN e ELSE evs[n]]

(* late: an event with a larger id was committed before (history).         *)
Event(q, kind) ==
  [r |-> q.r, pay |-> q.pay, kind |-> kind, target |-> q.target, st |-> "COMMITTED",
   late |-> \E n \in DOMAIN events : n > q.id]

(* ... and moves the stock; completion goes by the progress read above.    *)
SubmitCommit(p) ==
  LET q == req[p] IN
  /\ q.op = "submit" /\ q.id # 0
  /\ events' = With(events, q.id, Event(q, "COMMIT"))
  /\ stock' = [l \in Lots |-> stock[l] + OfLot(q.pay, l)]
  /\ receipt' = [receipt EXCEPT ![q.r] =
                   [st |-> IF q.done /\ @.st = "RELEASED" THEN "COMPLETED" ELSE @.st,
                    src |-> @.src]]
  /\ req' = [req EXCEPT ![p] = Idle]
  /\ UNCHANGED <<lastId, cursor, seen, clash>>

-----------------------------------------------------------------------------
(* Fault: the reversal does not look for an earlier one.                   *)
ReversibleAlways(n) == events[n].kind = "COMMIT"

Reversible(n) ==
  /\ ReversalsOf(n) = {}
  /\ events[n].kind = "COMMIT"
  /\ events[n].st = "COMMITTED"

(* reverse_inbound_event: the event and its reversals are read, ...        *)
ReverseCheck(p, n) ==
  /\ Start(p, events[n].r, None)
  /\ Reversible(n)
  /\ req' = [req EXCEPT ![p] = [op |-> "reverse", r |-> events[n].r, src |-> None,
                                pay |-> events[n].pay, target |-> n, id |-> 0,
                                done |-> FALSE]]
  /\ UNCHANGED <<receipt, events, lastId, stock, cursor, seen>>

Enough(pay) == \A l \in LotsIn(pay) : OfLot(pay, l) <= stock[l]

(* Fault: the quantities are given instead of taken.                       *)
TakenBack(pay, l) == stock[l] + OfLot(pay, l)

Taken(pay, l) == stock[l] - OfLot(pay, l)

Superseded(e) == [e EXCEPT !.st = "SUPERSEDED"]

(* ... the lots give back what they got, the event is SUPERSEDED.          *)
ReverseCommit(p) ==
  LET q == req[p] IN
  /\ q.op = "reverse" /\ q.id # 0
  /\ Enough(q.pay)
  /\ events' = With([events EXCEPT ![q.target] = Superseded(@)], q.id,
                    Event(q, "REVERSAL"))
  /\ stock' = [l \in Lots |-> Taken(q.pay, l)]
  /\ req' = [req EXCEPT ![p] = Idle]
  /\ UNCHANGED <<receipt, lastId, cursor, seen, clash>>

-----------------------------------------------------------------------------
(* The events list_procurement_receiving_results selects.                  *)
Reportable(n) ==
  /\ n \in DOMAIN events
  /\ events[n].kind = "COMMIT" /\ events[n].st = "COMMITTED"
  /\ receipt[events[n].r].src \in Purchases

(* Fault: the cursor moves to the last id there is.                        *)
NextAfterLast(page) == lastId

NextAfter(page) == Max(page)

(* Procurement pulls the next page and continues behind it.                *)
Pull ==
  LET new  == {n \in DOMAIN events : n > cursor /\ Reportable(n)}
      page == {n \in new : Cardinality({m \in new : m < n}) < PageLimit}
  IN /\ page # {}
     /\ seen' = seen \cup page
     /\ cursor' = NextAfter(page)
     /\ UNCHANGED <<receipt, events, lastId, stock, req, clash>>

-----------------------------------------------------------------------------
Next ==
  \/ \E r \in Receipts : CreateManual(r) \/ Release(r)
  \/ \E p \in Requests :
       \/ \E r \in Receipts : \/ \E src \in Orders : CreateCheck(p, r, src)
                              \/ \E pay \in Payloads : SubmitCheck(p, r, pay)
       \/ \E n \in DOMAIN events : ReverseCheck(p, n)
       \/ CreateInsert(p) \/ InsertEvent(p) \/ SubmitCommit(p)
       \/ ReverseCommit(p) \/ Fail(p)
  \/ Pull

Spec == Init /\ [][Next]_vars

-----------------------------------------------------------------------------
TypeOK ==
  /\ receipt \in [Receipts -> [st : {"NONE", "DRAFT", "RELEASED", "COMPLETED"},
                               src : Orders \cup {None}]]
  /\ DOMAIN events \subseteq 1..lastId
  /\ \A n \in DOMAIN events :
       /\ events[n].r \in Receipts /\ events[n].pay \in Payloads
       /\ events[n].kind \in {"COMMIT", "REVERSAL"}
       /\ events[n].target \in (DOMAIN events \cup {0}) \ {n}
  /\ stock \in [Lots -> Nat]
  /\ \A p \in Requests : req[p].op \in {"idle", "create", "submit", "reverse"}
  /\ cursor \in 0..lastId /\ seen \subseteq 1..lastId
  /\ clash \subseteq Receipts \cup Orders

(* The events explain the stock: each lot gained what operations brought   *)
(* and lost what the reversals took, whichever requests were in flight on  *)
(* it (submit_inbound_operation_repo, reverse_inbound_event), and none is  *)
(* ever below zero (TypeOK).                                               *)
EventsExplainStock ==
  /\ TypeOK
  /\ \A l \in Lots :
       stock[l] + LotTotal(events, OfKind("REVERSAL"), l)
         = Stock0[l] + LotTotal(events, OfKind("COMMIT"), l)

-----------------------------------------------------------------------------
(* Receipts and orders whose own requests never overlapped, whatever ran   *)
(* with them on others and the same lots.  The code takes no lock on them, *)
(* so overlapping requests break each of these.                            *)
Alone == (Receipts \cup Orders) \ clash

(* A COMPLETED receipt was received in full, although completion is        *)
(* decided from a progress that may be stale when the operation commits.   *)
(* A receipt never receives more than planned, and when it has received    *)
(* all of it, it is COMPLETED and not open to operations any more          *)
(* (submit_inbound_operation_repo).                                        *)
CompletedIffReceived ==
  \A r \in Receipts :
    LET full == \A ln \in Lines : Received(r, ln) >= Planned[ln] IN
    /\ receipt[r].st = "COMPLETED" => full
    /\ r \in Alone =>
         /\ \A ln \in Lines : Received(r, ln) <= Planned[ln]
         /\ full => receipt[r].st = "COMPLETED"

(* What is asked for twice is done once: a source document has one receipt *)
(* (inbound_receipt_already_exists) and an event one reversal              *)
(* (inbound_event_already_reversed).                                       *)
DoneOnce ==
  /\ \A r, q \in Receipts :
       receipt[r].src = receipt[q].src /\ receipt[r].src \in Alone => r = q
  /\ \A n \in DOMAIN events :
       events[n].r \in Alone => Cardinality(ReversalsOf(n)) <= 1

-----------------------------------------------------------------------------
(* Procurement's cursor has passed no event it was not given, so the next  *)
(* pulls bring what is left, unless the event was committed after one with *)
(* a larger id: ids are taken at the INSERT and seen at the commit.        *)
NothingSkipped ==
  \A n \in 1..cursor : Reportable(n) /\ ~events[n].late => n \in seen
=============================================================================
