--------------------------- MODULE ShippingRecords --------------------------
(***************************************************************************)
(* The table shipping_records has two writers: the shipping results        *)
(* Logistics sends with its callbacks (LogisticsHandoff), and the sync of  *)
(* Logistics' shipping facts, which reads a page of facts behind one       *)
(* stored cursor, or behind an id the operator gives, and upserts them.    *)
(* Both overwrite a package's row whatever it holds.                       *)
(*                                                                         *)
(* Logistics' facts are a list; the fact at position i tells what is known *)
(* of a package at time i, so the position stands for the data of a row.   *)
(* A sync locks the rows it upserts to its commit and reads nothing in     *)
(* between: upserts, cursor and commit are one step.                       *)
(***************************************************************************)
EXTENDS LogisticsHandoff, Sequences, FiniteSetsExt

CONSTANTS FactSyncs,    \* sync requests that can be in flight together
          PageLimit,
          MaxFacts      \* bound on the facts of Logistics

ASSUME RecordsAssumption == PageLimit \in Nat \ {0} /\ MaxFacts \in Nat

VARIABLES facts,        \* Logistics: the facts, each of one package
          record,       \* shipping_records: position of the data, -1 for no row
          cursor,       \* logistics_shipping_record_sync_cursors
          factSync,     \* sync requests in flight
          jumped,       \* a sync with a filter, or not behind the cursor,
                        \* saved its own cursor (history)
          late          \* packages a callback put back to older data (history)

recordVars == <<facts, record, cursor, factSync, jumped, late>>
allVars    == <<handoffVars, recordVars>>

Package == Docs \X Packages
NoSync  == [pc |-> "idle", after |-> 0, only |-> Docs, page |-> {}]

AllInit ==
  /\ Init
  /\ facts = << >>
  /\ record = [x \in Package |-> -1]
  /\ cursor = 0
  /\ factSync = [p \in FactSyncs |-> NoSync]
  /\ jumped = FALSE
  /\ late = {}

(* External: Logistics adds a fact.                                        *)
AddFact(x) ==
  /\ Len(facts) < MaxFacts
  /\ facts' = Append(facts, x)
  /\ UNCHANGED <<handoffVars, record, cursor, factSync, jumped, late>>

-----------------------------------------------------------------------------
(* sync_logistics_shipping_record_facts_once: the cursor, if no id is      *)
(* given; a platform and store filter selects documents.                   *)
LoadCursor(p, after, only) ==
  /\ factSync[p].pc = "idle"
  /\ factSync' = [factSync EXCEPT ![p] = [pc |-> "fetch", after |-> after, only |-> only,
                                          page |-> {}]]
  /\ UNCHANGED <<handoffVars, facts, record, cursor, jumped, late>>

(* fetch_logistics_shipping_record_facts: the ids of the next facts.       *)
FactsAfter(after, only) ==
  LET next == {i \in DOMAIN facts : i > after /\ facts[i][1] \in only}
  IN  {i \in next : Cardinality({j \in next : j < i}) < PageLimit}

FetchFacts(p) ==
  /\ factSync[p].pc = "fetch"
  /\ factSync' = [factSync EXCEPT ![p].pc = "apply",
                              ![p].page = FactsAfter(factSync[p].after, factSync[p].only)]
  /\ UNCHANGED <<handoffVars, facts, record, cursor, jumped, late>>

(* Fault: the cursor goes to the end of Logistics' list.                   *)
NextCursorLast(page) == Len(facts)

(* next_cursor comes with the page: the sync saves what Logistics sends.   *)
(* That it is the largest id of the page is an assumption about Logistics. *)
NextCursor(page) == Max(page)

(* _upsert_shipping_record for every fact, _save_cursor if there were any, *)
(* and the router's commit.                                                *)
Apply(p) ==
  /\ factSync[p].pc = "apply"
  /\ LET page == factSync[p].page
         At(x) == {i \in page : facts[i] = x}
     IN  /\ record' = [x \in Package |-> IF At(x) = {} THEN record[x] ELSE Max(At(x))]
         /\ cursor' = IF page = {} THEN cursor ELSE NextCursor(page)
         /\ jumped' = (jumped
              \/ (page # {} /\ (factSync[p].after # cursor \/ factSync[p].only # Docs)))
         /\ late' = {x \in late : At(x) = {}}
  /\ factSync' = [factSync EXCEPT ![p] = NoSync]
  /\ UNCHANGED <<handoffVars, facts>>

(* Logistics does not answer, or a fact has no active warehouse or         *)
(* provider: the page is rolled back and the cursor stays.                 *)
SyncFail(p) ==
  /\ factSync[p].pc # "idle"
  /\ factSync' = [factSync EXCEPT ![p] = NoSync]
  /\ UNCHANGED <<handoffVars, facts, record, cursor, jumped, late>>

-----------------------------------------------------------------------------
(* A callback with the packages' data of time t: the handoff's own step,   *)
(* and the rows of its packages.  One that was on its way for long, or is  *)
(* repeated, brings old data.                                              *)
ReportResults(d, id, pkgs, t) ==
  /\ ShippingResults(d, id, pkgs)
  /\ record' = [x \in Package |-> IF x[1] = d /\ x[2] \in pkgs THEN t ELSE record[x]]
  /\ late' = late \cup {x \in Package : x[1] = d /\ x[2] \in pkgs /\ t < record[x]}
  /\ UNCHANGED <<facts, cursor, factSync, jumped>>

ImportCallback(d) ==
  /\ \/ \E id \in RequestIds : ImportSuccess(d, id)
     \/ ImportFailure(d)
  /\ UNCHANGED recordVars

Complete(d, ev) == Upsert(d, ev) /\ UNCHANGED recordVars

SyncStep(p) ==
  \/ \E only \in {Docs} \cup {{d} : d \in Docs} : LoadCursor(p, cursor, only)
  \/ \E after \in 0..Len(facts) : LoadCursor(p, after, Docs)
  \/ FetchFacts(p) \/ Apply(p) \/ SyncFail(p)

RecordsNext ==
  \/ \E x \in Package : AddFact(x)
  \/ \E p \in FactSyncs : SyncStep(p)
  \/ \E d \in Docs :
       \/ ImportCallback(d)
       \/ \E id \in RequestIds \cup {None}, pkgs \in (SUBSET Packages) \ {{}},
             t \in 0..Len(facts) : ReportResults(d, id, pkgs, t)

(* And any document may be completed by any event at any time.             *)
AllNext ==
  \/ RecordsNext
  \/ \E d \in Docs, ev \in Nat \ {0} : Complete(d, ev)

RecordsSpec == AllInit /\ [][AllNext]_allVars

-----------------------------------------------------------------------------
RecordsTypeOK ==
  /\ facts \in Seq(Package) /\ Len(facts) <= MaxFacts
  /\ record \in [Package -> -1..Len(facts)]
  /\ cursor \in 0..Len(facts)
  /\ late \subseteq Package /\ jumped \in BOOLEAN
  /\ \A p \in FactSyncs : factSync[p].page \subseteq DOMAIN facts

(* Behind the cursor nothing is missing or out of date: a package's row is *)
(* at least as new as its last fact up to the cursor, although syncs       *)
(* fail, overlap and repeat each other's pages.  Only a sync with a filter *)
(* or one that does not continue at the cursor (an id was given, or        *)
(* another sync moved the cursor since it was read) breaks this, and a     *)
(* callback with older data, until the package's next fact is read.        *)
CursorCovers ==
  /\ RecordsTypeOK
  /\ jumped \/ \A x \in Package \ late :
                 \A i \in 1..cursor : facts[i] = x => record[x] >= i
=============================================================================
