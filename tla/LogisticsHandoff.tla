-------------------------- MODULE LogisticsHandoff --------------------------
(***************************************************************************)
(* The handoff of shipped documents to the independent Logistics service:  *)
(* one row of wms_logistics_export_records, with its payload, per source   *)
(* document.  A submit that completes the document upserts the row;        *)
(* Logistics pulls ready rows and reports back the import (success or      *)
(* failure) and later the parcels.  Its callbacks come by HTTP: repeated,  *)
(* late, in any order, or from two workers that pulled the same row.  Each *)
(* callback locks the row first, so it is one step.                        *)
(***************************************************************************)
EXTENDS Integers

CONSTANTS Docs,         \* source documents (orders, manual outbound docs)
          RequestIds,   \* (logistics_request_id, logistics_request_no)
          None,         \* SQL NULL
          Packages      \* package numbers

ASSUME HandoffAssumption == None \notin RequestIds

VARIABLES handoff,      \* the rows, by document
          parcels       \* shipping_records: package numbers by document

handoffVars == <<handoff, parcels>>

Imported == {"IMPORTED", "IN_PROGRESS", "COMPLETED"}

(* ev is the outbound event whose lines are the payload's shipment_items.  *)
Record == [exp : {"NONE", "PENDING", "EXPORTED", "FAILED", "CANCELLED"},
           log : {"NONE", "NOT_IMPORTED", "FAILED"} \cup Imported,
           id : RequestIds \cup {None}, ev : Nat]

NoRecord == [exp |-> "NONE", log |-> "NONE", id |-> None, ev |-> 0]

Exists(d) == handoff[d] # NoRecord

Init ==
  /\ handoff = [d \in Docs |-> NoRecord]
  /\ parcels = [d \in Docs |-> {}]

-----------------------------------------------------------------------------
(* upsert_pending_logistics_export_record: a row that is not EXPORTED      *)
(* (is not with Logistics) goes to PENDING (NOT_IMPORTED).                 *)
Upserted(r, ev) ==
  [exp |-> IF r.exp = "EXPORTED" THEN r.exp ELSE "PENDING",
   log |-> IF r.log \in Imported THEN r.log ELSE "NOT_IMPORTED",
   id |-> r.id, ev |-> ev]

(* upsert_logistics_handoff_payload comes with it: the payload is replaced *)
(* whatever the status.                                                    *)
Upsert(d, ev) ==
  /\ handoff' = [handoff EXCEPT ![d] = Upserted(@, ev)]
  /\ UNCHANGED parcels

(* Fault: a second import overwrites the first.                            *)
ImportSuccessAgain(d, id) ==
  /\ Exists(d)
  /\ handoff[d].exp # "CANCELLED"
  /\ handoff' = [handoff EXCEPT ![d] =
                   [exp |-> "EXPORTED", log |-> "IMPORTED", id |-> id, ev |-> @.ev]]
  /\ UNCHANGED parcels

(* apply_logistics_import_success.  A repeat with the same request only    *)
(* touches timestamps; with another one it is refused.                     *)
ImportSuccess(d, id) ==
  /\ Exists(d)
  /\ handoff[d].exp \notin {"CANCELLED", "EXPORTED"}
  /\ handoff[d].log \notin Imported
  /\ handoff' = [handoff EXCEPT ![d] =
                   [exp |-> "EXPORTED", log |-> "IMPORTED", id |-> id, ev |-> @.ev]]
  /\ UNCHANGED parcels

(* apply_logistics_import_failure.                                         *)
ImportFailure(d) ==
  /\ Exists(d)
  /\ handoff[d].exp \notin {"CANCELLED", "EXPORTED"}
  /\ handoff[d].log \notin Imported
  /\ handoff' = [handoff EXCEPT ![d] =
                   [exp |-> "FAILED", log |-> "FAILED", id |-> None, ev |-> @.ev]]
  /\ UNCHANGED parcels

(* _assert_request_identity: a request that is named must be the one known.*)
SameRequest(r, id) == r.id = None \/ id = None \/ r.id = id

Coalesce(id, old) == IF id = None THEN old ELSE id

(* Fault: a result is taken before the import was reported.                *)
ShippingResultsEarly(d, id, pkgs) ==
  /\ Exists(d)
  /\ SameRequest(handoff[d], id)
  /\ parcels' = [parcels EXCEPT ![d] = @ \cup pkgs]
  /\ handoff' = [handoff EXCEPT ![d] =
                   [exp |-> @.exp, log |-> "COMPLETED",
                    id |-> Coalesce(id, @.id), ev |-> @.ev]]

(* apply_logistics_shipping_results: the parcels of the result are         *)
(* upserted by package number and the row is COMPLETED.                    *)
ShippingResults(d, id, pkgs) ==
  /\ handoff[d].exp = "EXPORTED"
  /\ handoff[d].log \in Imported
  /\ SameRequest(handoff[d], id)
  /\ parcels' = [parcels EXCEPT ![d] = @ \cup pkgs]
  /\ handoff' = [handoff EXCEPT ![d] =
                   [exp |-> @.exp, log |-> "COMPLETED",
                    id |-> Coalesce(id, @.id), ev |-> @.ev]]

Callback(d) ==
  \/ \E id \in RequestIds : ImportSuccess(d, id)
  \/ ImportFailure(d)
  \/ \E id \in RequestIds \cup {None}, pkgs \in (SUBSET Packages) \ {{}} :
       ShippingResults(d, id, pkgs)

(* On its own: any document may be completed by any event at any time.     *)
Next == \E d \in Docs : Callback(d) \/ \E ev \in Nat \ {0} : Upsert(d, ev)

Spec == Init /\ [][Next]_handoffVars

-----------------------------------------------------------------------------
TypeOK ==
  /\ handoff \in [Docs -> Record]
  /\ parcels \in [Docs -> SUBSET Packages]

(* The two status columns, the request and the parcels tell the same       *)
(* story, although each handler guards them separately.                    *)
StatusesAgree ==
  \A d \in Docs : LET r == handoff[d] IN
    /\ r.exp = "EXPORTED" <=> r.log \in Imported
    /\ r.exp = "EXPORTED" <=> r.id # None
    /\ r.exp = "FAILED" <=> r.log = "FAILED"
    /\ r.log = "COMPLETED" <=> parcels[d] # {}

(* What Logistics has imported stays imported, as the same request, and    *)
(* completed stays completed: no late, repeated or contradicting callback  *)
(* and no second completion of the document takes it back.                 *)
ImportIsFinal ==
  [][\A d \in Docs : handoff[d].exp = "EXPORTED" =>
       /\ handoff'[d].exp = "EXPORTED"
       /\ handoff'[d].id = handoff[d].id
       /\ handoff[d].log = "COMPLETED" => handoff'[d].log = "COMPLETED"]_handoffVars
=============================================================================
