----------------------------- MODULE OrderImport ----------------------------
(***************************************************************************)
(* The import of projected OMS orders as execution orders.  A request      *)
(* names a batch; it reads the heads, the components and what is already   *)
(* imported in separate statements, each with a snapshot of its own, then  *)
(* writes order by order in one transaction.  The upsert of the order's    *)
(* store holds the store's row to the end: imports of one store are        *)
(* serialised, and two batches can wait for each other's stores.           *)
(*                                                                         *)
(* Syncs of the projection (OrderProjection) are commits here: one that    *)
(* replaces an order's tree, and one that tears it.                        *)
(***************************************************************************)
EXTENDS Naturals, Sequences, FiniteSetsExt, SequencesExt, Functions, Sums

CONSTANTS Orders,       \* ready orders; each has its own platform order no
          StoreOf,      \* their stores
          Components, Skus,
          SkuOf,        \* the sku code of a component
          Content,      \* the components of each version of an order, with
                        \* their quantity; 0 is one that is no positive integer
          Batches,      \* what a request can be: ready_order_ids and dry_run
          Warehouses, NoWarehouse,
          ImportRequests  \* the requests: the bound on their number

ASSUME ImportAssumption ==
  /\ SkuOf \in [Components -> Skus]
  /\ \A o \in Orders :
       /\ Len(Content[o]) \in Nat /\ DOMAIN Content[o] = 1..Len(Content[o])
       /\ \A v \in DOMAIN Content[o] :
            /\ IsFiniteSet(DOMAIN Content[o][v]) /\ DOMAIN Content[o][v] \subseteq Components
            /\ Content[o][v] \in [DOMAIN Content[o][v] -> Nat]
  /\ \A p \in ImportRequests : Batches[p] \subseteq [ids : Seq(Orders), dry : BOOLEAN]
  /\ NoWarehouse \notin Warehouses

VARIABLES head,         \* the projection: the version of an order's head, or 0
          comps,        \* and its component rows
          order,        \* the committed execution orders with their import
          imp,          \* requests in flight
          mixed         \* what syncs committed between the reads of head and
                        \* components of the import of an order (history)

importVars == <<head, comps, order, imp, mixed>>

(* v is the version (source_hash) of the import's audit row.               *)
NoOrder ==
  [v |-> 0, lines |-> {}, items |-> [k \in Skus |-> 0], ff |-> "NONE", wh |-> NoWarehouse]

(* A request: the orders to go, by their positions in the batch, and what  *)
(* it read of them; the orders it wrote; and for each order if a sync      *)
(* committed a whole or a torn tree between its reads (history).           *)
NewImport ==
  [pc |-> "new", ids |-> [i \in {} |-> 0], dry |-> FALSE,
   heads |-> [o \in Orders |-> 0], comps |-> [o \in Orders |-> {}],
   known |-> {}, tx |-> [o \in Orders |-> NoOrder],
   between |-> [o \in Orders |-> "none"]]

ImportInit ==
  /\ head = [o \in Orders |-> 0]
  /\ comps = [o \in Orders |-> {}]
  /\ order = [o \in Orders |-> NoOrder]
  /\ imp = [p \in ImportRequests |-> NewImport]
  /\ mixed = [o \in Orders |-> "none"]

-----------------------------------------------------------------------------
RowsAt(o, v) == {[id |-> c, v |-> v] : c \in DOMAIN Content[o][v]}

(* A sync commits version v of an order, with components of an earlier one *)
(* left behind by an overlapping sync or not.                              *)
SyncCommit(o, v, left) ==
  /\ left = {} \/ left = {r \in comps[o] : r.id \notin DOMAIN Content[o][v]}
  /\ head' = [head EXCEPT ![o] = v]
  /\ comps' = [comps EXCEPT ![o] = RowsAt(o, v) \cup left]
  /\ imp' = [p \in ImportRequests |->
               IF imp[p].pc # "components" THEN imp[p]
               ELSE [imp[p] EXCEPT !.between[o] = IF left = {} THEN "whole" ELSE "torn"]]
  /\ UNCHANGED <<order, mixed>>

-----------------------------------------------------------------------------
(* _dedupe_ready_order_ids: the first position of each order.              *)
Dedupe(ids) ==
  Restrict(ids, {i \in DOMAIN ids : \A j \in DOMAIN ids : ids[j] = ids[i] => i <= j})

(* _load_projection_orders.                                                *)
StartImport(p, batch) ==
  /\ imp[p].pc = "new"
  /\ imp' = [imp EXCEPT ![p] =
       [NewImport EXCEPT !.pc = "components", !.ids = Dedupe(batch.ids), !.dry = batch.dry,
          !.heads = [o \in Orders |-> IF o \in ToSet(batch.ids) THEN head[o] ELSE 0]]]
  /\ UNCHANGED <<head, comps, order, mixed>>

(* _load_projection_components.                                            *)
LoadComponents(p) ==
  /\ imp[p].pc = "components"
  /\ imp' = [imp EXCEPT ![p].pc = "existing",
       ![p].comps = [o \in Orders |-> IF o \in Range(imp[p].ids) THEN comps[o] ELSE {}]]
  /\ UNCHANGED <<head, comps, order, mixed>>

(* _load_existing_imports and _load_existing_order_conflicts.  An import   *)
(* committed between the two is a conflict instead of ALREADY_IMPORTED;    *)
(* the order is left alone either way.                                     *)
LoadExisting(p) ==
  /\ imp[p].pc = "existing"
  /\ imp' = [imp EXCEPT ![p].pc = "write",
       ![p].known = {o \in Range(imp[p].ids) : order[o] # NoOrder}]
  /\ UNCHANGED <<head, comps, order, mixed>>

-----------------------------------------------------------------------------
Qty(o, r) == Content[o][r.v][r.id]

(* Fault: component_count is not compared.                                 *)
AcceptableUncounted(p, o) ==
  /\ imp[p].heads[o] # 0
  /\ o \notin imp[p].known
  /\ imp[p].comps[o] # {}
  /\ \A r \in imp[p].comps[o] : Qty(o, r) > 0

(* The order is in the projection, is not imported, has the components its *)
(* head counts, and all their quantities are positive integers.            *)
Acceptable(p, o) ==
  /\ imp[p].heads[o] # 0
  /\ o \notin imp[p].known
  /\ imp[p].comps[o] # {}
  /\ Cardinality(DOMAIN Content[o][imp[p].heads[o]]) = Cardinality(imp[p].comps[o])
  /\ \A r \in imp[p].comps[o] : Qty(o, r) > 0

(* The order it is at.                                                     *)
OrderAt(p) == imp[p].ids[Min(DOMAIN imp[p].ids)]

(* The order is done with; what was read of it is not used again.          *)
OrderDone(r, o) ==
  [r EXCEPT !.ids = Restrict(@, DOMAIN @ \ {Min(DOMAIN @)}),
            !.heads[o] = 0, !.comps[o] = {}, !.known = @ \ {o}]

Writing(p) == imp[p].pc = "write" /\ DOMAIN imp[p].ids # {}

(* FAILED, ALREADY_IMPORTED or DRY_RUN: on to the next order.              *)
SkipOrder(p) ==
  /\ Writing(p)
  /\ ~Acceptable(p, OrderAt(p)) \/ imp[p].dry
  /\ imp' = [imp EXCEPT ![p] = OrderDone(@, OrderAt(p))]
  /\ UNCHANGED <<head, comps, order, mixed>>

Imports(p) == Writing(p) /\ Acceptable(p, OrderAt(p)) /\ ~imp[p].dry

StoreLocked(p, store) == \E o \in Orders : imp[p].tx[o] # NoOrder /\ StoreOf[o] = store

(* p waits for q's store: _ensure_store_from_projection.                   *)
WaitsForStore(p, q) == p # q /\ Imports(p) /\ StoreLocked(q, StoreOf[OrderAt(p)])

(* Fault: ON CONFLICT DO NOTHING on the import's audit row.                *)
NotYetImportedAlways(o) == TRUE

(* The primary key of the import's audit row is free.                      *)
NotYetImported(o) == order[o] = NoOrder

(* The quantity of sku k in rows rs of order o.                            *)
SkuTotal(o, rs, k) == SumOf([r \in rs |-> Qty(o, r)], {r \in rs : SkuOf[r.id] = k})

(* Order (the one that is there, if any), address, fulfilment placeholder, *)
(* audit row, and for each component a line and its quantity in the item   *)
(* of its sku.                                                             *)
ImportedOrder(p, o) ==
  LET rs == imp[p].comps[o]
  IN  [order[o] EXCEPT
         !.v = imp[p].heads[o],
         !.lines = @ \cup rs,
         !.items = [k \in Skus |-> @[k] + SkuTotal(o, rs, k)],
         !.ff = IF @ = "NONE" THEN "OMS_IMPORTED" ELSE @]

ImportOne(p) ==
  /\ Imports(p)
  /\ \A q \in ImportRequests : ~WaitsForStore(p, q)
  /\ LET o == OrderAt(p)
     IN  /\ NotYetImported(o)
         /\ imp' = [imp EXCEPT ![p] = OrderDone([@ EXCEPT !.tx[o] = ImportedOrder(p, o)], o)]
  /\ UNCHANGED <<head, comps, order, mixed>>

EndedImport == [NewImport EXCEPT !.pc = "ended"]

Importing(p) == imp[p].pc \notin {"new", "ended"}

WrittenBy(p) == {o \in Orders : imp[p].tx[o] # NoOrder}

CommitImport(p) ==
  /\ imp[p].pc = "write" /\ DOMAIN imp[p].ids = {}
  /\ order' = [o \in Orders |-> IF o \in WrittenBy(p) THEN imp[p].tx[o] ELSE order[o]]
  /\ mixed' = [o \in Orders |->
                 IF o \in WrittenBy(p) THEN imp[p].between[o] ELSE mixed[o]]
  /\ imp' = [imp EXCEPT ![p] = EndedImport]
  /\ UNCHANGED <<head, comps>>

RollbackImport(p) ==
  /\ imp' = [imp EXCEPT ![p] = EndedImport]
  /\ UNCHANGED <<head, comps, order, mixed>>

(* The audit row of an order is there: the whole batch is rolled back.     *)
ImportConflict(p) ==
  /\ Imports(p)
  /\ \A q \in ImportRequests : ~WaitsForStore(p, q)
  /\ ~NotYetImported(OrderAt(p))
  /\ RollbackImport(p)

(* Fault: waiting requests are never aborted.                              *)
ImportDeadlockNever(p) == WaitsForStore(p, p) /\ RollbackImport(p)

(* PostgreSQL aborts one of the requests that wait for each other.         *)
ImportDeadlock(p) ==
  /\ \E C \in SUBSET ImportRequests :
       p \in C /\ \A q \in C : \E r \in C : WaitsForStore(q, r)
  /\ RollbackImport(p)

(* Any other error, or a crash.                                            *)
FailImport(p) == Importing(p) /\ RollbackImport(p)

-----------------------------------------------------------------------------
(* manual_assign_fulfillment_warehouse: an order with items gets its       *)
(* actual warehouse; too little stock there is only noted.                 *)
ManualAssign(o, w) ==
  /\ order[o] # NoOrder
  /\ \E k \in Skus : order[o].items[k] > 0
  /\ order' = [order EXCEPT ![o].ff = "MANUALLY_ASSIGNED", ![o].wh = w]
  /\ UNCHANGED <<head, comps, imp, mixed>>

-----------------------------------------------------------------------------
ImportStep(p) ==
  \/ LoadComponents(p) \/ LoadExisting(p) \/ SkipOrder(p) \/ ImportOne(p)
  \/ CommitImport(p) \/ ImportConflict(p) \/ ImportDeadlock(p)

ImportNext ==
  \/ \E p \in ImportRequests : \E batch \in Batches[p] : StartImport(p, batch)
  \/ \E p \in ImportRequests : ImportStep(p) \/ FailImport(p)
  \/ \E o \in Orders : \E v \in DOMAIN Content[o], left \in SUBSET comps[o] :
       SyncCommit(o, v, left)
  \/ \E o \in Orders, w \in Warehouses : ManualAssign(o, w)

ImportSpec == ImportInit /\ [][ImportNext]_importVars

(* The event loop and the database run every request that can go on.       *)
ImportFairSpec == ImportSpec /\ \A p \in ImportRequests : WF_importVars(ImportStep(p))

-----------------------------------------------------------------------------
ImportTypeOK ==
  /\ \A o \in Orders :
       /\ head[o] \in 0..Len(Content[o])
       /\ order[o].v \in 0..Len(Content[o])
       /\ order[o].items \in [Skus -> Nat]
       /\ order[o].ff \in {"NONE", "OMS_IMPORTED", "MANUALLY_ASSIGNED"}
       /\ order[o].wh \in Warehouses \cup {NoWarehouse}
  /\ mixed \in [Orders -> {"none", "whole", "torn"}]

(* However imports and syncs overlap, an imported order has the lines of   *)
(* one version of the order, whole, unless a sync committed a torn tree    *)
(* between the two reads of the import; and it is the version its audit    *)
(* row names unless a sync committed a whole one there.  The quantity of   *)
(* every item is that of the lines of its sku, once: no other import of    *)
(* the order adds to it.                                                   *)
ImportedIsOneVersion ==
  /\ ImportTypeOK
  /\ \A o \in Orders : order[o] # NoOrder /\ mixed[o] # "torn" =>
       \E v \in DOMAIN Content[o] :
         /\ order[o].lines = RowsAt(o, v)
         /\ mixed[o] = "none" => order[o].v = v
  /\ \A o \in Orders, k \in Skus : order[o].items[k] = SkuTotal(o, order[o].lines, k)

(* An execution order stands for good: no later import, sync or conflict   *)
(* changes what is to be shipped, or takes back the operator's warehouse.  *)
OrderStands ==
  [][\A o \in Orders : order[o] # NoOrder =>
       /\ order'[o].lines = order[o].lines /\ order'[o].items = order[o].items
       /\ order[o].wh # NoWarehouse => order'[o].wh # NoWarehouse]_importVars

(* No import waits for ever, whatever stores the batches meet in.          *)
EveryImportEnds == \A p \in ImportRequests : Importing(p) ~> imp[p].pc = "ended"
=============================================================================
