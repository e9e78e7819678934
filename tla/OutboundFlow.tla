---------------------------- MODULE OutboundFlow ----------------------------
(***************************************************************************)
(* Shipping source documents.  Orders and manual outbound documents are    *)
(* shipped by submits (one COMMIT event of wms_events each, possibly for a *)
(* part of the document), an event is undone by a reversal (a REVERSAL     *)
(* event), and the submit that completes a document hands it to Logistics  *)
(* (LogisticsHandoff).                                                     *)
(*                                                                         *)
(* A submit reads progress (orders) or status (manual documents), writes   *)
(* the event and moves the stock under the row locks of its lots, and is   *)
(* published at its commit.  The reads take no lock.                       *)
(***************************************************************************)
EXTENDS Sequences, EventLines

CONSTANTS Docs, RequestIds, None, Packages,     \* see LogisticsHandoff
          Kind,         \* [Docs -> {"ORDER", "MANUAL"}]
          Lines,        \* line numbers of a document
          Want,         \* [Lines -> Nat \ {0}]: req_qty / requested_qty
          Lots, Stock0, \* the lots and their quantities at the start
          Payloads,     \* what clients submit: sequences of Part
          Requests,     \* HTTP requests that can be in flight together
          MaxEvents     \* bound on the events of wms_events

Part == [line : Lines, lot : Lots, qty : Nat \ {0}]

ASSUME OutboundAssumption ==
  /\ Kind \in [Docs -> {"ORDER", "MANUAL"}]
  /\ Lines # {} /\ Want \in [Lines -> Nat \ {0}]
  /\ Stock0 \in [Lots -> Nat]
  /\ \A pay \in Payloads : pay \in Seq(Part) /\ pay # << >>
  /\ None \notin Docs

VARIABLES status,       \* manual_outbound_docs.status; "OPEN" for orders
          events,       \* committed wms_events with their lines
          stock,        \* committed stocks_lot
          req,          \* requests in flight
          handoff, parcels,
          clash         \* documents that had two requests in flight at once
                        \* (history)

vars == <<status, events, stock, req, handoff, parcels, clash>>

Handoff == INSTANCE LogisticsHandoff

-----------------------------------------------------------------------------
Idle == [op |-> "idle", d |-> None, pay |-> << >>, target |-> 0, done |-> FALSE]

(* submitted_qty of load_order_submit_progress, list_manual_doc_progress:  *)
(* the lines of all events of the document, reversals too.                 *)
Submitted(d, ln) ==
  LineTotal(events, {n \in DOMAIN events : events[n].d = d}, ln)

OfKind(k) == {n \in DOMAIN events : events[n].kind = k}

(* What the document has been shipped by its submits.                      *)
Shipped(d, ln) ==
  LineTotal(events, {n \in OfKind("COMMIT") : events[n].d = d}, ln)

(* The lots a submit has written and keeps locked until it commits.        *)
Held(p) == IF req[p].op = "commit" THEN LotsIn(req[p].pay) ELSE {}

Free(p, pay) == \A q \in Requests \ {p} : Held(q) \cap LotsIn(pay) = {}

Init ==
  /\ status = [d \in Docs |-> IF Kind[d] = "ORDER" THEN "OPEN" ELSE "NONE"]
  /\ events = << >>
  /\ stock = Stock0
  /\ req = [p \in Requests |-> Idle]
  /\ Handoff!Init
  /\ clash = {}

(* Request p starts working on document d.                                 *)
Start(p, d) ==
  /\ req[p] = Idle
  /\ clash' = IF \E q \in Requests : req[q].d = d THEN clash \cup {d} ELSE clash

Quiet == UNCHANGED <<status, events, stock, handoff, parcels>>

(* An exception or a crash rolls a request back.                           *)
Fail(p) ==
  /\ req[p] # Idle
  /\ req' = [req EXCEPT ![p] = Idle]
  /\ Quiet
  /\ UNCHANGED clash

-----------------------------------------------------------------------------
(* create_manual_doc, release_manual_doc, void_manual_doc: one UPDATE each,*)
(* that asks for the status it changes.                                    *)
SetStatus(d, from, to) ==
  /\ Kind[d] = "MANUAL"
  /\ status[d] \in from
  /\ status' = [status EXCEPT ![d] = to]
  /\ UNCHANGED <<events, stock, req, handoff, parcels, clash>>

CreateManualDoc(d)  == SetStatus(d, {"NONE"}, "DRAFT")
ReleaseManualDoc(d) == SetStatus(d, {"DRAFT"}, "RELEASED")

VoidManualDoc(d)    == SetStatus(d, {"DRAFT", "RELEASED"}, "VOIDED")

-----------------------------------------------------------------------------
(* Fault: the quantity already submitted is not added.                     *)
FitsAlone(d, part) ==
  Submitted(d, part.line) < Want[part.line] /\ part.qty <= Want[part.line]

(* submit_order_outbound_event looks at each line of the payload on its    *)
(* own: the line is not completed and the quantity fits.                   *)
Fits(d, part) ==
  /\ Submitted(d, part.line) < Want[part.line]
  /\ Submitted(d, part.line) + part.qty <= Want[part.line]

(* Fault: what earlier submits shipped is forgotten.                       *)
CompletesAlone(d, pay) == \A ln \in Lines : OfLine(pay, ln) >= Want[ln]

(* _order_outbound_completed_after_submit; the same test over the progress *)
(* rows, which then include the submit's own lines, for manual documents.  *)
Completes(d, pay) ==
  \A ln \in Lines : Submitted(d, ln) + OfLine(pay, ln) >= Want[ln]

(* submit_order_outbound_event up to the writes: completion is decided     *)
(* from the progress read here.                                            *)
OrderCheck(p, d, pay) ==
  /\ Kind[d] = "ORDER"
  /\ Start(p, d)
  /\ \A n \in DOMAIN pay : Fits(d, pay[n])
  /\ req' = [req EXCEPT ![p] = [op |-> "write", d |-> d, pay |-> pay, target |-> 0,
                                done |-> Completes(d, pay)]]
  /\ Quiet

(* load_manual_submit_context.                                             *)
ManualCheck(p, d, pay) ==
  /\ Kind[d] = "MANUAL"
  /\ Start(p, d)
  /\ status[d] = "RELEASED"
  /\ req' = [req EXCEPT ![p] = [op |-> "write", d |-> d, pay |-> pay, target |-> 0,
                                done |-> FALSE]]
  /\ Quiet

(* The unique key of stock_ledger: (reason, ref, ref_line) with the lot,   *)
(* where ref names the document and ref_line is the place in the payload.  *)
KeyTaken(d, pay) ==
  \E n \in DOMAIN events : LET e == events[n] IN
    /\ e.d = d /\ e.kind = "COMMIT"
    /\ \E m \in DOMAIN pay : m \in DOMAIN e.pay /\ e.pay[m].lot = pay[m].lot

Enough(pay) == \A l \in LotsIn(pay) : OfLot(pay, l) <= stock[l]

(* _write_event_and_ledger: the lots are locked one by one, each must have *)
(* enough.  For a manual document the progress is read after it.           *)
Write(p) ==
  LET r == req[p] IN
  /\ r.op = "write"
  /\ Free(p, r.pay)
  /\ Enough(r.pay)
  /\ ~KeyTaken(r.d, r.pay)
  /\ req' = [req EXCEPT ![p] = [op |-> "commit", d |-> r.d, pay |-> r.pay, target |-> 0,
                                done |-> IF Kind[r.d] = "ORDER" THEN r.done
                                         ELSE Completes(r.d, r.pay)]]
  /\ Quiet
  /\ UNCHANGED clash

Event(d, pay, kind, target) ==
  [d |-> d, pay |-> pay, kind |-> kind, target |-> target, st |-> "COMMITTED"]

(* Fault: the handoff is given the event before its own.                   *)
HandoverBefore(r) ==
  IF r.done THEN Handoff!Upsert(r.d, IF events = << >> THEN 1 ELSE Len(events))
  ELSE UNCHANGED <<handoff, parcels>>

(* A completing submit marks the manual document, if it is still RELEASED, *)
(* and upserts the handoff with its own event's lines.                     *)
Handover(r) ==
  IF r.done THEN Handoff!Upsert(r.d, Len(events) + 1)
  ELSE UNCHANGED <<handoff, parcels>>

CompleteManualDoc(r) ==
  IF r.done /\ Kind[r.d] = "MANUAL"
  THEN status[r.d] = "RELEASED" /\ status' = [status EXCEPT ![r.d] = "COMPLETED"]
  ELSE UNCHANGED status

Commit(p) ==
  LET r == req[p] IN
  /\ r.op = "commit"
  /\ Len(events) < MaxEvents
  /\ events' = Append(events, Event(r.d, r.pay, "COMMIT", 0))
  /\ stock' = [l \in Lots |-> stock[l] - OfLot(r.pay, l)]
  /\ CompleteManualDoc(r)
  /\ Handover(r)
  /\ req' = [req EXCEPT ![p] = Idle]
  /\ UNCHANGED clash

-----------------------------------------------------------------------------
ReversalsOf(n) == {m \in DOMAIN events : events[m].target = n}

(* Fault: the reversal does not look for an earlier one.                   *)
ReversibleAlways(n) == events[n].kind = "COMMIT"

Reversible(n) ==
  /\ ReversalsOf(n) = {}
  /\ events[n].kind = "COMMIT"
  /\ events[n].st = "COMMITTED"

(* reverse_outbound_event: the event and its reversals are read, ...       *)
ReverseCheck(p, n) ==
  /\ Start(p, events[n].d)
  /\ Reversible(n)
  /\ req' = [req EXCEPT ![p] = [op |-> "reverse", d |-> events[n].d, pay |-> events[n].pay,
                                target |-> n, done |-> FALSE]]
  /\ Quiet

(* ... then the lots get their quantities back and the event is SUPERSEDED.*)
(* Fault: a lot gets back what the whole event took.                       *)
RestoredWhole(pay, l) ==
  IF l \in LotsIn(pay) THEN SumParts(pay, DOMAIN pay) ELSE 0

Restored(pay, l) == OfLot(pay, l)

Superseded(e) == [e EXCEPT !.st = "SUPERSEDED"]

ReverseCommit(p) ==
  LET r == req[p] IN
  /\ r.op = "reverse"
  /\ Free(p, r.pay)
  /\ Len(events) < MaxEvents
  /\ events' = Append([events EXCEPT ![r.target] = Superseded(@)],
                      Event(r.d, r.pay, "REVERSAL", r.target))
  /\ stock' = [l \in Lots |-> stock[l] + Restored(r.pay, l)]
  /\ req' = [req EXCEPT ![p] = Idle]
  /\ UNCHANGED <<status, handoff, parcels, clash>>

(* Logistics reports back.                                                 *)
Callback(d) ==
  /\ Handoff!Callback(d)
  /\ UNCHANGED <<status, events, stock, req, clash>>

-----------------------------------------------------------------------------
Next ==
  \/ \E d \in Docs : \/ CreateManualDoc(d) \/ ReleaseManualDoc(d)
                     \/ VoidManualDoc(d) \/ Callback(d)
  \/ \E p \in Requests :
       \/ \E d \in Docs, pay \in Payloads :
            OrderCheck(p, d, pay) \/ ManualCheck(p, d, pay)
       \/ \E n \in DOMAIN events : ReverseCheck(p, n)
       \/ Write(p) \/ Commit(p) \/ ReverseCommit(p) \/ Fail(p)

Spec == Init /\ [][Next]_vars

-----------------------------------------------------------------------------
TypeOK ==
  /\ status \in [Docs -> {"OPEN", "NONE", "DRAFT", "RELEASED", "VOIDED", "COMPLETED"}]
  /\ stock \in [Lots -> Nat]
  /\ \A n \in DOMAIN events :
       /\ events[n].d \in Docs /\ events[n].pay \in Payloads
       /\ events[n].kind \in {"COMMIT", "REVERSAL"}
       /\ events[n].target \in 0..(n - 1)
  /\ \A p \in Requests : req[p].op \in {"idle", "write", "commit", "reverse"}
  /\ clash \subseteq Docs
  /\ Handoff!TypeOK

(* The events explain the stock: each lot has what it had, less what the   *)
(* submits took, plus what the reversals gave back, whichever requests     *)
(* were in flight on the same lots (_write_event_and_ledger, adjust_lot),  *)
(* and none is ever below zero (TypeOK).                                   *)
EventsExplainStock ==
  /\ TypeOK
  /\ \A l \in Lots :
       stock[l] = Stock0[l] - LotTotal(events, OfKind("COMMIT"), l)
                            + LotTotal(events, OfKind("REVERSAL"), l)

-----------------------------------------------------------------------------
(* Documents whose own requests never overlapped, whatever ran with them   *)
(* on other documents and the same lots.  The code takes no lock on the    *)
(* document, so overlapping requests break each of these.                  *)
Alone == Docs \ clash

(* A submit of the document listed one line twice.                         *)
ListedTwice(d) ==
  \E n \in DOMAIN events : LET pay == events[n].pay IN
    events[n].d = d /\ \E i, j \in DOMAIN pay : i < j /\ pay[i].line = pay[j].line

(* An order is never shipped more than it asks for (the over-submit check  *)
(* of submit_order_outbound_event), unless a submit lists a line twice,    *)
(* once per lot: each is checked on its own.                               *)
NoOverSubmit ==
  \A d \in Alone : Kind[d] = "ORDER" /\ ~ListedTwice(d) =>
    \A ln \in Lines : Shipped(d, ln) <= Want[ln]

(* A document is handed to Logistics only when every line of it has been   *)
(* submitted in full, although completion is decided from a progress that  *)
(* may be stale by the commit; a manual one exactly when it is COMPLETED;  *)
(* and a document that is shipped in full is handed over.                  *)
HandedOverIffShipped ==
  \A d \in Docs :
    /\ Handoff!Exists(d) => \A ln \in Lines : Submitted(d, ln) >= Want[ln]
    /\ Kind[d] = "MANUAL" => (Handoff!Exists(d) <=> status[d] = "COMPLETED")
    /\ /\ d \in Alone /\ status[d] # "VOIDED"
       /\ \A ln \in Lines : Shipped(d, ln) >= Want[ln]
       => Handoff!Exists(d)

(* The first k events submit every line of the document in full.           *)
FullBy(d, k) ==
  \A ln \in Lines : LineTotal(events, {m \in 1..k : events[m].d = d}, ln) >= Want[ln]

(* The event Logistics is told of is the one that completed the document:  *)
(* with it every line is submitted in full and, for an order, without it   *)
(* not (the payload lists its lines alone, those of earlier parts are not  *)
(* in it).                                                                 *)
HandoffIsCompletion ==
  \A d \in Alone : Handoff!Exists(d) =>
    LET n == handoff[d].ev IN
    /\ n \in DOMAIN events /\ events[n].d = d /\ events[n].kind = "COMMIT"
    /\ FullBy(d, n)
    /\ Kind[d] = "ORDER" => ~FullBy(d, n - 1)

(* An event is reversed once at most (outbound_event_already_reversed).    *)
ReversedOnce ==
  \A n \in DOMAIN events :
    events[n].d \in Alone => Cardinality(ReversalsOf(n)) <= 1
=============================================================================
