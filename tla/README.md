# A TLA+ model of wms-api

wms-api is the back end of a warehouse management system: a FastAPI application over
PostgreSQL (async SQLAlchemy). This directory holds TLA+ modules for the parts of it that move
stock, exchange documents with other services, keep copies of their data, and govern its users;
the TLC configurations that check them on small instances; and TLAPS proofs of the results that
hold for every instance. `PROJECT.json` maps
every definition to the source lines it stands for and lists runs, mutants, findings, hazards
and theorems.

To check: `tlc -config StockTxn.cfg MCStockTxn` (one configuration per run, see the tables
below) and `tlapm` on each of the eight modules that hold theorems: `StockTxnProofs`,
`CountDocProofs`, `OutboundFlowProofs`, `InboundFlowProofs`, `ReturnTaskProofs`, `LotsProofs`,
`PeripheryProofs` and `SumProofs`.

## 1. The system

### How it executes

Every HTTP request runs in one database transaction (`app/db/session.py`), at PostgreSQL's
default level READ COMMITTED: each *statement* sees what is committed when it starts. A request
is a chain of awaited statements, so requests interleave at every statement, in one process or
in several. The router commits at the end, or rolls back everything on an exception. Nothing but
row locks (`SELECT ... FOR UPDATE`, `UPDATE`, `INSERT` on a unique key) keeps requests apart.
The models take this as the unit of interleaving: a read without a lock is one step, what is
written under a lock is seen by others at the commit, and statements that follow a request's
last lock are joined with the commit when nobody can observe the difference.

### Inventory

| Component | State | Operations | Interacts with | What is hard | What makes it correct |
|---|---|---|---|---|---|
| Stock kernel (`wms/stock`, `stock_write_service`, `ledger_writer`) | `stocks_lot`, `stock_ledger` | `adjust_lot_impl`, the outbound and inbound direct writers, operator's recount | called by every writer below | key looked up before the lock; two tables; opposite lock orders; retries | balance = ledger; no key moves twice; documents whole or not at all; never negative |
| Count documents (`inventory_adjustment/count`) | `count_docs`, lines, lot snapshots | create, freeze, update lines, post, void | posts through the kernel; its FROZEN status is the freeze guard | status read unlocked and acted on later; snapshot in two statements | count reached; posted once; ended for good |
| Freeze guard (`ensure_warehouse_not_frozen`) | none of its own | asked by all writers but the return task | count documents | check then act | stock of a frozen warehouse is still |
| Outbound submit (`wms/outbound`) | `wms_events`, `outbound_event_lines`, manual documents | order submit, manual submit, manual document create / release / void | kernel, Logistics handoff | progress and status read unlocked; partial submits | nothing shipped twice; what is complete is handed over |
| Outbound and inbound reversal | `wms_events` (REVERSAL, SUPERSEDED) | reverse | kernel | earlier reversal looked for unlocked | reversed once |
| Logistics handoff (`wms_logistics_export_records`, payloads, `shipping_records`) | two status columns, request identity, parcels | upsert, import success / failure, shipping results | outbound submit; Logistics over HTTP | repeated, late, reordered, contradicting callbacks | statuses agree; an import is final |
| Inbound receipts and operations | `inbound_receipts`, `wms_inbound_operations`, `wms_events` | create from purchase / return order / by hand, release, submit, complete | kernel, procurement | progress read unlocked; unlocked look for a receipt | nothing received beyond the plan; completed iff received |
| Procurement receiving results | none (the cursor is the client's) | pull after an event id | inbound events | ids are assigned before they are visible | nothing is skipped |
| Lots (`stock/services/lots.py`, inbound lot resolution) | `lots` | find or create, patch a missing expiry | inbound commit; PMS over HTTP for the item's policy | two creations of one lot; up to three reads of a policy that may change | one lot per key; the loser finds the winner's; a lot fits the policy and the date |
| Return tasks and the three-books gate | `return_tasks`, `stock_snapshots` | create, receive, commit with the gate | kernel, ledger, snapshot | unlocked look for an open task; snapshot rebuilt and compared in several statements; two rebuilds at once | a task comes back once; no more than was shipped; the snapshot is exact for what moved |
| Shipping records (`shipping_assist/records`) | `shipping_records`, one cursor | sync a page of facts; callbacks write the same rows | Logistics | two writers; filters and given ids move the one cursor; a fact is refused in the middle of a page | nothing missing or out of date behind the cursor |
| OMS projection (`integrations/oms`, `oms/fulfillment_projection`) | order heads, lines, components without foreign keys; sync log | sync (paged by offset), reconciliation checks | OMS; read by the import | DELETE and INSERT of overlapping syncs; lists that shift between pages; crashes around the log entry | trees are whole; the checks see what is not |
| Order import and assignment (`wms/outbound`) | `orders`, lines, items, import audit | import a batch, assign a warehouse | OMS projection, stores | four reads in four statements; overlapping batches; lock cycles over stores | imported once, whole, from one version; every import ends |
| PMS projection (`integrations/pms`, `pms/projections`) | items, suppliers, units, SKU codes, barcodes; sync log | sync all tables or one; checks | PMS; read by scans and lots | unique codes that move between rows; stale pages over newer ones; repeated failure | codes unique; the copy catches up |
| Users and permissions (`user`, `admin`) | `users`, `user_permissions` | create, enable, disable, delete, save the matrix | every route asks `check_permission` | count of administrators without a lock; DELETE and INSERT of two saves | an administrator is left; a save is exact |
| Direct count, direct ship, purchase orders, reports, scan parsing, finance, service auth, master data | see section 6 | | | | not modelled |

## 2. The modules

| Module | What it is | Code |
|---|---|---|
| `StockSlot` | one balance row with its ledger rows; `Sound`: they agree | `stocks_lot`, `stock_ledger` tables |
| `LedgerBook` | **abstract specification**: the committed book goes atomically from a sound book to a sound one that only adds rows | what the two tables promise |
| `StockTxn` | **the kernel**: attempts at requests with lookups, row locks, working copies, commit, rollback, crash, deadlock | `adjust_lot_impl`, `write_ledger_infra`, `stock_recount`, `_write_event_and_ledger`, `submit_inbound_operation_repo`, `get_session` |
| `StockTxnProofs` | type correctness, the inductive invariants, documents posted whole, the refinement of `LedgerBook` | |
| `Sums`, `SumProofs` | sums over finite sets, and their laws | |
| `CountDoc` | count documents and the guard, statement by statement, two documents of one warehouse | `count_doc_service`, `count_doc_repo`, guard service |
| `CountDocProofs` | its invariants, the allocation of a difference, two action properties | |
| `EventLines` | sums over the lines of events, shared by the two flows | |
| `OutboundFlow` | orders and manual documents: submits, completion, handoff, reversals; composes `LogisticsHandoff` by `INSTANCE` | `outbound` services and repos |
| `OutboundFlowProofs` | stock, completion, handoff and reversal | |
| `LogisticsHandoff` | the export record and the callbacks, also a specification of its own | handoff import and shipping result services, upsert repo |
| `InboundFlow` | receipts, operations, reversals, procurement's pull | receipt and operation repos, inbound reversal, receiving results |
| `InboundFlowProofs` | stock, completion, the cursor, what is done once | |
| `ShippingRecords` | the sync of Logistics' facts, composed with `LogisticsHandoff`: the callbacks' parcels write the same table | `records/sync/service.py`, `routes_sync.py` |
| `Lots` | find-or-create of a lot by one inbound line, every read of the policy a step | `lots.py`, `lot_service.py`, `lot_resolve_repo.py`, `expiry_resolver.py`, constraints of `lots` |
| `LotsProofs` | its invariant, one lot per key, lots that fit and stand | |
| `ReturnTask` | return tasks, shipments beside them, and the gate with its snapshot | `return_task_service_impl.py`, `three_books_enforcer.py`, `snapshot_run.py` |
| `ReturnTaskProofs` | its invariant, what comes back, the snapshot | |
| `ReadIndex` | **abstract specification**: a copy that shows, per key, nothing or a version the owner has had | what a projection promises |
| `OrderProjection` | the OMS projection: syncs, log, checks; implements `ReadIndex` | `oms/projection_sync.py`, fulfilment projection service and repo |
| `OrderImport` | imports of projected orders and the operator's assignment; syncs of the projection are single commits here | `oms_projection_order_import_service.py`, `order_fulfillment_manual_assign.py` |
| `ItemProjection` | the PMS projection: syncs by script and by request, row by row | `pms/projection_sync.py`, `pms_projection_service.py` |
| `AdminUsers` | users, permissions, the guards of the last administrator | `user_service.py`, `user_permission_matrix_write_service.py`, `user_repository.py` |
| `PeripheryProofs` | the theorems about `LogisticsHandoff`, `ShippingRecords`, `AdminUsers`, `ItemProjection`, `OrderImport` and `OrderProjection`, one part each; the modules' definitions have names of their own so that one module can extend them all | |
| `MC*` | constants for TLC, symmetry sets, and where needed a bounded next-state relation or a fold that only TLC evaluates | |

Definitions named after a *fault* (commented "Fault: ...", placed before the definition they
distort) are never part of a specification: they are the plausible bugs each property must catch
(`mutants` in `PROJECT.json`).

### State and actions

**StockTxn.** `book` is what is committed; `work[t]` and `holder` are the rows a transaction has
written and so locked; `doc` is the document an attempt locks, `pc`, `req`, `todo` its program
counter, its stock movements and those that remain. `Begin` is a request sent for the first time
or again. `Drawn` gives the attempt the reference it draws, where the code draws one: inbound
commits, inbound operations, reversals and count posts make an event number with a uuid, which is
unique in `wms_events`; a recount makes a `scan_ref` of device, microseconds and warehouse.
`LockDocument` is the `SELECT ... FOR UPDATE` of a return task, which posts under its order and
its own lines. Outbound submits post under the number of their order or document and lock
neither, so overlapping attempts of one key reach the slot's row. `AdjustHit`/`AdjustMiss` are `adjust_lot_impl` up to the idempotency lookup,
`AdjustWrite` the rest of it under the lock (the ledger `INSERT ... ON CONFLICT DO NOTHING`,
whose result is not looked at, then the balance); `RecountRead` the unlocked read of the
recount, the sum over all lots of the item with the code (`SameCode`), after which it is an
adjust of one of them; `OutboundWrite` and `InboundOperationWrite` one line of
the two direct writers, whose `INSERT` is plain; `Reject` an insufficient balance or a duplicate
key; `Fail` any other exception or crash; `DeadlockAbort` PostgreSQL's detector; `Commit` the
router's commit. Lot guards, date and unit rules are among the reasons of `Fail`. The dates of
the lot snapshot are not modelled.

**CountDoc.** One warehouse. A document has a status, per item the snapshot quantity and the
count, per lot the lot snapshot. Each operation is an unlocked `...Check` followed by what it
writes; freeze has its three writes (lines, lot snapshots, header) as three actions because
stock can move between them. `Movement` is `_post_line_diff`: a gain goes to the largest lot
snapshot, a loss is taken from the lots in order of size, then id. `GuardCheck` and `MoveStock`
stand for all other writers. Two variables are history: `quiet`, the documents since whose
snapshot no stock was moved, and `clash`, the documents whose creation overlapped with another
or a freeze of which overlapped with another freeze or a void.

**OutboundFlow.** `events` is `wms_events` with its lines, in order of commit. `OrderCheck` and
`ManualCheck` read; `Write` takes the lots' locks; `Commit` publishes event, stock, document
status and handoff. `Submitted` sums the lines of *all* events of a document line, as the SQL
does; `Shipped` is used by properties only.

**LogisticsHandoff.** `exp` and `log` are the two status columns. Each callback locks the row
first and is one step. A repetition that changes timestamps only is a stuttering step. No code
writes the CANCELLED and IN_PROGRESS values the tables allow.

**InboundFlow.** The event id comes from a sequence at `InsertEvent`, before the event can be
seen; `events` is therefore a function of ids with gaps. `Pull` is procurement's next request
for a page behind its cursor (the client is external). `late` marks, as history, events that
were committed after one with a larger id.

**ShippingRecords.** Logistics' facts are a list; a row of `shipping_records` is the position of
the fact it was written from, so that older data is a smaller number, and a page is a set of
positions. The cursor that comes with a page is Logistics' own (`NextCursor`); that it is the
largest id of the page is an assumption about that service. `LoadCursor` reads the cursor, `FetchFacts` a page; the upserts, the cursor and the
commit are one step (`Apply`), a refusal in the middle of the page rolls all back. `jumped` is set
by a sync that filters or does not continue at the cursor.

**Lots.** One item in one warehouse. `resolve_inbound_lot` asks for the policy, normalises the
dates, asks again in the lot layer, looks for the lot, inserts, and looks again when
`ON CONFLICT DO NOTHING` inserted nothing. `Change` is PMS; `steady` tells whether the policy
stayed during the request. Production date plus shelf life gives the expiry date; the table's
CHECK and unique constraints are part of `Insert`.

**ReturnTask.** `shipped` is the ledger's SHIP rows of an order, `returned` what tasks brought
back. A commit moves the lots (locked to the end), deletes and inserts today's snapshot, verifies
it and commits; each is a step, because other lots move in between.

**OrderProjection.** A sync run is a transaction with its uncommitted rows and a log entry that
is committed on its own. Under READ COMMITTED the DELETE of an order's rows works on the
snapshot of its statement: it waits for rows that another run deletes and never sees what that
one inserts (`Look`, `DeleteRows`, `WriteTree`). OMS publishes, changes and withdraws orders
meanwhile, which shifts the offsets. A page is the set of the orders on it, each with its place in
OMS's list and its version then; the run replaces them in the order of the places.

**OrderImport.** `StartImport`, `LoadComponents` and `LoadExisting` are the reads; `ImportOne`
writes an order under the lock of its store's row, held to the commit; `ImportDeadlock` is
PostgreSQL's detector; `SyncCommit` a commit of the projection, whole or torn, of any version OMS
has had: a slow sync may put an order back to an older one. `between` in a request and `mixed` of
an imported order are history: whether a sync committed a whole tree or a torn one between the
reads of head and components.

**ItemProjection.** `pms[r]` is the history of a row's code, `copy[r]` the version the table has.
`UpsertRow` waits for a row or a code another sync holds and is refused when a committed row has
the code. A page is a function from its rows to the versions they had when it was fetched. The
script syncs all tables, a request one.

**AdminUsers.** A request checks its actor, reads the target (the ORM keeps what it read),
counts the administrators and writes; a save's DELETE takes its snapshot, waits, and the INSERTs
meet the primary key. `crossed` and `mixed` in a request are history: it overlapped with another
removal on another user, or with a removal that was crossed itself; and with another save of the
same user.

## 3. What the passing runs show

| Run | Instance and bounds | Properties |
|---|---|---|
| `StockTxn` | 2 slots, lots of one code; 3 attempts at 7 requests (receipt, shipment of an order, shipment of a part of it under the same number, reversal, count, recount, return task with its lock), the shipment with the opposite lock order; everything overlaps, also attempts at one request; fair | `TypeOK` (no negative balance), `BooksAgree`, `AllOrNothing`, `AbstractSpec`, `EveryAttemptEnds` |
| `CountDoc` | 2 documents, 2 requests, 1 item with 2 lots of at most 1, at most 2 pieces in the lines of both documents; everything overlaps | for all `CountedIsComplete`, `PostMovesDiff`; for documents in `Alone`: `OneActive`, `EndedIsFinal` |
| `LogisticsHandoff` | 2 documents, one of them completed twice, the other known from facts only; 2 request ids; 2 syncs in flight, page size 1, 3 facts | `StatusesAgree`, `ImportIsFinal`; `CursorCovers` |
| `OutboundFlow` | an order and a manual document with 2 lines on 2 scarce lots; whole, partial and split payloads; 2 requests, 4 events | for all documents `EventsExplainStock` and that only what is submitted is handed over (`HandedOverIffShipped`); for documents in `Alone`: its converse, `NoOverSubmit`, `HandoffIsCompletion`, `ReversedOnce` |
| `InboundFlow` | 2 receipts with 2 lines, one of them split over 2 lots, a purchase order, manual receipts, 2 requests, 3 events, page size 1 | for all `EventsExplainStock` and that only what is received is COMPLETED (`CompletedIffReceived`); for receipts and orders in `Alone`: its converse, no over-receipt, `DoneOnce`; for events that are not `late`: `NothingSkipped` |
| `Lots` | 2 requests with 3 kinds of lines, 4 policies, 2 changes of policy, a lot from before | `OneLotPerKey`, `LotFitsLine`, `LotsStand` |
| `ReturnTask` | 1 order over 2 lots of an item, 2 tasks, 2 requests, shipments beside them | `ReturnedOnce`, `NoOverReturn`, `OwnLotsExact` |
| `OrderProjection` | 2 orders, one with 1 version and one with 3, over 2 components, 3 runs of which 2 overlap, page size 1, with and without a filter | `TreesWhole`, `FreshSyncCatchesUp`, `IndexSpec` |
| `OrderImport` | 2 orders of 2 stores, batches in both orders and a dry run, 3 components of 2 SKUs, 2 requests; syncs may go back to an older version; fair | `ImportedIsOneVersion`, `OrderStands`, `EveryImportEnds` |
| `ItemProjection` | 2 items and a unit of the first, 2 codes, 3 changes in PMS, a script and a request, 1 failure, page size 1; fair | `CodesUnique`, `FullSyncIsCurrent`, `CatchesUp` |
| `AdminUsers` | 2 users, 2 requests, the page of administration and a permission of no page | `UsersTypeOK` (who is not there has no permissions), `AdminRemains`, `SaveIsExact`, `MixedSavesKeep` |

Each property is stated in words above its definition, and each has a mutant of the code that
TLC must refute. Type correctness is a property of its own where a run lists it; in the other
modules it is the first conjunct of the first invariant (for the handoff it is proved, section 5).

The bounds are the smallest at which the interesting case happens and one more where TLC
affords it: two requests on one document are enough for every check-then-act race of the code;
three attempts on two slots for a lock cycle with a bystander, or for a document, its retry and
another; two lots to split a quantity; two lines to complete a document in parts; three runs for
a sync that repairs what two overlapping ones tore; three events for a movement and two
reversals of it, for which the first lot has a piece before; page size 1 so that a cursor or an
offset stops between any two rows; two users for administrators who remove each other. The
constants named `Max...`, `Limit` and `PageLimit` bound what the code does not. Runs say
`CHECK_DEADLOCK FALSE` where the system may really stop: all attempts have ended, all documents
are completed and the event bound is reached, or no administrator is left to ask for anything.

**Where requests must not overlap.** Some results hold only for requests that do not overlap, and
the code takes no lock that would enforce it. The models let everything overlap and carry the
exception as history, so that a property claims nothing for what was disturbed and everything
for the rest, whatever ran beside it on the same rows: `clash` (CountDoc, OutboundFlow,
InboundFlow), `late` (InboundFlow), `late` and `jumped` (ShippingRecords), `torn`
(OrderProjection), `mixed` (OrderImport), `steady` (Lots), `still` and `moved` (ItemProjection),
`crossed` and `mixed` (AdminUsers). No model restricts the
behaviours themselves.

**Ledger keys.** In `StockTxn` attempts overlap whatever keys they share. `adjust_lot_impl` looks
its key up before it has the slot's lock and does not look at the result of the conflicting
insert, so two overlapping adjusts with one key would move the balance twice and leave one ledger
row. What keeps them apart is in the model as it is in the code: the reference an attempt draws,
or the lock on the document the key names (`AdjustAssumption` says that each adjust has one or the
other). The mutant of `BooksAgree` reads the document without `FOR UPDATE`
(`DocumentFreeAlways`), and TLC finds that double movement. Outbound submits have neither; there
the second attempt waits for the slot's row and its plain `INSERT` meets the unique key
(`Reject`).

**Refinement.** `AbstractSpec`: the kernel implements `LedgerBook`, the slots mapped to the
committed rows; a commit is a step of the book, all else stutters. `IndexSpec`: the OMS
projection *as an import reads it* (an order counts only if its components are as many as the
head says) implements `ReadIndex`. Torn trees exist, and the mapping would send a tree that mixes
versions to a version nobody had; that an import never accepts one is the content of the
refinement.

**Fairness.** `StockTxn!FairSpec` and `OrderImport!ImportFairSpec` have weak fairness of every
request's own steps: the event loop resumes a request whose statement returned, and PostgreSQL
grants a free lock and runs its deadlock detector after `deadlock_timeout`. Starting a request
and failing are never required. `ItemProjection!ItemsFairSpec` adds strong fairness of
`UpsertRow`, because PostgreSQL grants a row lock in the order of the requests for it, and weak
fairness of `StartAll`: that the sync script is run again and again is what its deployment
promises, not this code.

## 4. What the code does against its own words

`FreezeGuardRace` checks what the guard's message states, "当前禁止任何会改库存的操作" (no operation
that changes stock while a count is FROZEN), and TLC finds a behaviour of the code that breaks
it: a movement that passed the guard commits after the freeze.

The exceptions in the properties of section 3 are behaviours of the code too. Dropping one gives
TLC a short trace:

- **Stock and counts.** A recount reads 0, another request commits +2, the recount to 3 adds 3:
  the balance is 5. Two active count documents, and a freeze that revives a document voided or
  posted meanwhile.
- **Flows.** Two submits of an order that read the same progress both ship, or complete it
  without either handing it over; a payload that takes a line from two lots passes the
  over-submit check entry by entry; the payload for Logistics lists the lines of the completing
  event only; two operations receive more than planned; two reversals of one event both move
  stock; two receipts for one purchase order. A reversal's lines count as submitted
  (`Submitted`), and a second part from the same lot at the same place of the payload meets the
  ledger key of the first (`KeyTaken`). An event committed after one with a larger id is behind
  procurement's cursor for ever.
- **Returns.** A second task of an order ignores what the first brought back. The gate may pass
  although totals of the item are apart, when other lots move between its statements (its
  comment says the opposite, `three_books_enforcer.py:31`). The commit does not ask the freeze
  guard.
- **Lots.** When PMS changes the policy from REQUIRED to NONE within a request, the line goes to
  a lot of another date. A later, different expiry date of a lot is ignored.
- **Copies.** Overlapping syncs of OMS leave trees of two versions (the import refuses them);
  orders are skipped when the list shifts between pages; a head and components read around a
  sync's commit give an audit row of another version, and if that commit tore the tree, lines of
  two versions that are as many as the head counts. A code that moves between rows of PMS can
  stop every later sync. The log entry of a process that died stays RUNNING. A filtered sync of
  shipping records moves the cursor past facts it did not read, and a late callback puts older
  data over newer.
- **Users.** Two administrators who remove each other at once leave nobody with
  `page.admin.write`; two saves of one user can leave him the union of both.

## 5. What is proved

Every theorem below holds for all values of the constants, from the named assumptions of the
module it is about; TLC evaluates these on every run. The invariants marked *inductive* were
checked by TLC on the run of their component before they were proved. Each proof has one lemma
per action that states what the action writes, one per conjunct it can disturb, and one lemma
that puts the steps together.

**The stock kernel** (`StockTxnProofs`), for any sets of slots, keys, attempts and requests:

- `TypeCorrect`: `Spec => []TypeOK`. Its content is that no balance and no `after_qty` ever
  becomes negative, in the committed tables or in a transaction.
- `BooksAlwaysAgree`: `BooksAgree` and `LookupStillMisses` always hold.
- `KernelImplementsBook`: `Spec => Abstract!Spec`.
- `DocumentsAreWhole`: `Spec => []AllOrNothing`.

All attempts may overlap, with common keys or without. The assumptions say what requests are:
`TxnAssumption` (the lock's "nobody" is not an attempt), `RequestAssumption` (requests are
sequences of calls, document quantities are not negative), `KeyAssumption` (a reference that an
attempt draws is nobody else's), `CodeAssumption` (finitely many lots have a code) and
`AdjustAssumption` (an adjust draws its reference, or every request with its key locks the same
document). The lookup before the lock is right because of the last one, and wrong without it.

`BooksAgree` alone is not inductive: it says nothing about what a commit will publish. The
inductive invariant `KernelInv` adds

- `WorkSound`: the version of a slot a lock holder works on is sound, continues the committed
  slot, and its new keys are keys of the holder's request. So publishing it keeps `BooksAgree`,
  and is a step of `LedgerBook`;
- `LookupStillMisses`: between lookup and lock nobody took the key, so `LedgerWrite` appends and
  does not fall into its conflict branch (which would move the balance without a row);
- `RequestsDrawn`, `AdjustsOfRequest` and `DocumentsLocked`: an attempt makes the calls of a
  request under the reference it drew, and holds its document alone. With `AdjustAssumption` no
  two attempts under way have the key of an adjust in common;
- `TodoOfRequest`: so the keys another transaction publishes are not those an adjust is about to
  write, which keeps `LookupStillMisses` true through its commit. A plain `INSERT` needs none of
  this: it looks under the lock.

For `AllOrNothing` the *inductive* `DocInv` says what a transaction has done so far: the working
version of a slot has a key of its request for every call it has worked through (`LinesPosted`),
and what it is about to publish has no key that is not the committed slot's or the request's. So
the commit, and only the commit, makes all of a document visible.

**Count documents** (`CountDocProofs`), for any documents, items, lots and requests:

- `CountedStaysComplete` (`CountedIsComplete`): *inductive* `CountTypes`, types with the fact that
  a counted or posted row has lines and all of them counted. A freeze that overtakes a count
  replaces the lines only under the status that says they are not counted.
- `OneActiveDocument` and `EndedStaysFinal`: *inductive* `CountInv`, which adds `FreezesAlone` and
  `CreatesAlone`: a creation or a freeze in flight has the warehouse or its document to itself, or
  they are in `clash`. That is what makes the status it read long ago still true.
- `PostMovesTheDifference` (`PostMovesDiff`): the allocation of a difference to lots, in whatever
  order the lots come and however many there are, sums to the difference. The lemmas walk the
  order of the lots by induction over finite sets: what a prefix has taken is what it could give,
  or all that was asked for. `QuietInv` says that the lines of a document in `quiet` are the stock.

**Outbound** (`OutboundFlowProofs`), for any documents, lines, lots, payloads and logs:

- `StockIsExplained` (`EventsExplainStock`): *inductive* `Shapes` and `StockInv`; the latter adds
  `Reserved` (the stock a submit has taken from its lots is still there, and nobody else holds the
  lots) to the equation, because the event is written before the stock.
- `NeverOverSubmitted`, `HandedOverWhenShipped`, `HandoffCompletes`, `EventsReversedOnce`:
  *inductive* `Shapes`, `Reads` and `History`. `Reads` is the point: what a request has read
  (nothing is reversed yet, the payload still fits, the document will be complete) is still true
  when it commits, if the document is not in `clash`; `OneAtATime` is why.

**Inbound** (`InboundFlowProofs`), for any receipts, orders, lines, lots, payloads and page size:

- `StockIsExplained` (`EventsExplainStock`): as outbound.
- `CompletedWhenReceived` (`CompletedIffReceived`) and `EachIsDoneOnce` (`DoneOnce`): *inductive*
  `Shapes`, `Reads` and `History` as outbound, with the source documents beside the receipts.
- `PullsSkipNothing` (`NothingSkipped`): *inductive* `CursorInv`. It adds that the cursor stands on
  a committed event, so an event that commits behind it took its id before and is `late`; the
  page's selection of the smallest ids beyond the cursor is lemma work over finite sets.

**Return tasks** (`ReturnTaskProofs`), for any lots, finite sets of orders and tasks, and requests:

- `ReturnsAreOnce` (`ReturnedOnce`), `NotMoreThanShipped` (`NoOverReturn`) and `SnapshotIsExact`
  (the action property `OwnLotsExact`), from one *inductive* invariant, `ReturnInv`: a commit in
  flight moves what its task, still OPEN, has received (`RequestShape`), which holds because a
  task has one commit at a time (`OwnTask`); the rows it has inserted are the balances of its lots,
  because a lot has one, too (`OwnLots`); a task expects no more than its order has shipped
  (`TaskShape`); and the two sums of `ReturnedOnce` (`Books`). The type of `stock` has no upper
  bound: a bound by the number of tasks is true on the run's instance and false in general, as each
  task of an order may return what it shipped and the next shipment takes it again.

**Lots** (`LotsProofs`), for any requests, lines, policies, number of changes, and lots from before:

- `OneLotOfAKey` (`OneLotPerKey`), `LotsFitTheirLines` (`LotFitsLine`) and `LotsNeverChange` (the
  action property `LotsStand`), from one *inductive* invariant, `LotsInv`. Its part `Reserved` says
  that nobody, committed or not, has the key of a row a request has inserted, so the commit keeps
  the keys apart; `Shape` says what a request has found fits its line by what it had read *then*,
  which stays true because no commit changes a lot's source, code, date or snapshot
  (`GrownShape`). That the loser of a race finds the winner's lot rests on the CHECK constraints:
  a lot whose key includes the production date has one, and is looked for by it.
- The lots from before are assumed to be what the table allows (`LegacyAssumption`): rows that
  pass the CHECK constraints, no two with the key of a unique index, and INTERNAL ones without a
  code. The last is not a constraint but the comment on `lot_code` in `models/lot.py`; `lots.py`,
  the only writer of the table, inserts them so.

**The handoff** (`PeripheryProofs`, as the five that follow), for any documents, request ids and
packages, from `HandoffAssumption` (NULL is not a request): `HandoffStatusesAgree` (`HandoffInv` =
`TypeOK` and `StatusesAgree` is inductive as it stands) and `ImportStaysFinal`, the action
property, from the same invariant.

**Shipping records**, for any page size and any number of facts and overlapping syncs:

- `CursorDoesCover` (`CursorCovers`): *inductive* `RecordsInv`. It adds `PageInv`, what a sync in
  flight knows: its page has, if it has no filter, every fact between the id it was given and the
  page's last one. So saving that one as the cursor passes over nothing; if the cursor was moved
  since it was read, the sync is one that sets `jumped`.
- `RecordsKeepHandoff`: `RecordsSpec => Spec`, the composed system implements the handoff it
  extends, so the two theorems about the handoff hold beside the syncs, too.

**Users** (`AdminUsers`), for any users, requests, pages and permissions, from one *inductive*
invariant, `UsersInv`:

- `UsersAreTyped` (`UsersTypeOK`), `SavesAreExact` (`SaveIsExact`) and `MixedSavesDoKeep`
  (`MixedSavesKeep`). `Fits` says what a save knows: the permissions of no page it will insert
  are the user's, and what its DELETE does not see was added by another save, which then has
  `mixed` set (`Apart`), and is closed under "write comes with read".
- `AnAdminRemains` (`AdminRemains`). The part is `Kept`: a removal in flight that is not crossed has
  another administrator beside its target, or its target is one and no removal in flight takes
  that from it. Two uncrossed removals have one target (`Apart`), so none takes the
  administrator another counted. The two requests of the run cannot show why `Crosses` passes
  the mark on: with four, one that overlapped no removal of another user, but on the same user
  one that had, can take the last administrator.

**The PMS projection** (`ItemProjection`), for any tables of rows, codes, page size and number of
changes, failures and syncs, from one *inductive* invariant, `ItemsInv`:

- `CodesStayUnique` (`CodesUnique`): `UniqueInv` says it of the committed rows, of the rows as each
  sync sees them and of those two syncs have written, and that no row is written by two syncs. The
  middle one alone is not kept by a commit of another sync; the last two make it so. `HeldInv`
  says that whatever is held of a row is a version PMS listed.
- `FullSyncsAreCurrent` (`FullSyncIsCurrent`): `StillInv` says of a sync of all tables, over a PMS
  that stands still, what is behind it: the tables it has gone through, and in the present one the
  rows with a place before its offset. That pages by offset pass over nothing when the list stands
  still is lemma work on cardinalities. `PmsInv` (a listed row's parent is listed) gives the checks'
  half of the property.

The theorems rest on `ItemsAssumption`: tables are finite, disjoint sets of ids, and a parent is a
row.

**The order import** (`OrderImport`), for any orders, stores, contents, batches and requests, from
one *inductive* invariant, `ImportInv`:

- `ImportsAreOneVersion` (`ImportedIsOneVersion`). `TreeInv` says that the projection has for every
  head the components of its version and, if torn, others under ids the version does not have; so
  components as many as the head counts are exactly those. `RequestInv` carries this through the
  reads, by what was committed between them, and through the uncommitted writes, no two of which
  are of one order; the sums per SKU follow since the order was not there before.
- `OrdersStand` (the action property `OrderStands`), for the order's key is free only before it.

The property excepts two cases, and the proof shows that there are no others. A sync that commits
a *torn* tree between the two reads can leave as many components as the older head counts, of two
versions, and the count is all the import compares. Components of a *whole* tree of another version
pass under the older head in the same way, which makes the audit row's version wrong, not the
lines. `mixed` names the two. The run's instance reaches the first; no order of it has two versions
with as many components, so the second is the theorem's part alone. `ImportAssumption` states what
contents and batches are.

**The OMS projection** (`OrderProjection`), for any orders, versions, parts, filters, page size and
number of runs, of which any number may be in flight, from one *inductive* invariant, `ProjInv`:

- `TreesStayWhole` (`TreesWhole`). `CommittedInv`: an order that is not torn is whole, and even one
  that is torn has all the rows of its head's version by one run, which is why counts and
  references are enough for the checks to see the rest. `WrittenInv` says of each run that it has
  inserted the rows of the orders it wrote and deleted all others that are committed, unless
  somebody's commit came in between (`tear`); `ReplaceInv` the same of the statement it is at, per
  table. No two runs have written one order, which is what the wait for the head's row ensures.
- `FreshSyncsCatchUp` (the action property `FreshSyncCatchesUp`): `FreshInv` says which places of
  OMS's list are behind the run. Every listed order is not only at OMS's version but whole,
  because nobody's commit can come in between: no run is beside a fresh one.
- `ProjectionImplementsIndex` (`ProjSpec => IndexSpec`): an order an import accepts has exactly
  the components of its head's version, because it has all of them and no more than they are; and
  its head is a version OMS has had.

**Sums** (`SumProofs`). Quantities are summed by `Sums!SumOf`, a fold of the community modules
over a finite set. Its recursion is a `CHOOSE` of a function, and the library's induction theorems
cannot be used; so `SmallestSubset` and `SubsetInduction` state induction over the subsets of a
finite set for a *set* of subsets instead of a predicate, and `AddsExists` and `AddsUnique` show
that the function the fold chooses exists and is determined. The rest are the laws the
proofs above cite: a sum takes an element out (`SumRemove`), changes with one element
(`SumChange`), adds up over parts and pointwise (`SumUnion`, `SumPlus`), and is monotone
(`SumPart`, `SumSubset`). `EventLines`' totals over the lines of events are such sums.

**Only model-checked.** `EveryAttemptEnds`, `EveryImportEnds` and `CatchesUp` are liveness under
fairness, outside what TLAPS proves here. Every other property of the passing runs is stated by a
theorem. `FrozenStockStill`, which the code breaks, is TLC's counterexample.

## 6. Not modelled, and the plan

- **Migrations** (`alembic/`, more lines than the application): they are run once, by hand,
  with the service stopped. What they leave behind, tables and constraints, is in the models.
- **Read-only parts**: reports, analysis, finance read models, the ready list, projection lists
  and statistics, navigation, barcode parsing and probing.
- **Plain CRUD** of warehouses, partners and providers; passwords and profiles of users. Audit
  rows are best effort by their writer's own comment.
- **Direct count** (`POST /count`): its router never commits, and neither does the nightly
  snapshot job, so neither changes committed state. **Direct ship** is reached by tests only.
- **Purchase orders**: a local book with create, edit and close under the lock of the order's
  row. Receiving works from the orders of the procurement service, and nothing feeds the local
  completion table, so the book does not interact with the stock.
- **Order ingestion services** under `app/oms/services` and the unit of work are not reached from
  any mounted router.
- **Atomic inbound commit**: its movements and its lot decisions are modelled, the resolution of
  units and barcodes to an item is not.

Further modelling that would add something: an abstract specification of the two flows (a
document's progress as a counter that only grows, handed over once) and its refinement for
documents in `Alone`.
