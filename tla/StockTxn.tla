------------------------------ MODULE StockTxn ------------------------------
(***************************************************************************)
(* The stock kernel under concurrent requests.                             *)
(*                                                                         *)
(* A request is one HTTP call: it runs in one PostgreSQL transaction (READ *)
(* COMMITTED, the default of app/db/session.py), makes a sequence of stock *)
(* movements and is committed, or rolled back as a whole, by its router.   *)
(* There are four ways in the code to move stock:                          *)
(*                                                                         *)
(*   adjust      adjust_lot_impl: look for the idempotency key, then lock  *)
(*               the slot, write the ledger row, set the balance.  Inbound *)
(*               commit, reversals, count posting, return tasks.           *)
(*   recount     the operator's recount: read the balance, then adjust by  *)
(*               the difference.                                           *)
(*   outbound    _write_event_and_ledger: lock, check, plain INSERT.       *)
(*   inbound_op  submit_inbound_operation_repo: upsert the balance, plain  *)
(*               INSERT.                                                   *)
(*                                                                         *)
(* A write to a slot keeps its row locked until the transaction ends, so   *)
(* what a transaction has written is its private working copy of the slots *)
(* it holds, and commit publishes those copies at once.  Everything a      *)
(* transaction reads of a slot it does not hold is the committed book.     *)
(*                                                                         *)
(* Any requests overlap, also two attempts at one request.  What ledger    *)
(* keys they share depends on where their references come from:            *)
(*                                                                         *)
(*   receipts, inbound commits, reversals, counts and recounts draw a      *)
(*   reference of their own at every attempt (an event number with a       *)
(*   uuid, a scan reference with the time in microseconds);                *)
(*   return tasks post under the order's id and their line's, and lock     *)
(*   the task's row before anything else;                                  *)
(*   outbound submits post under the order's or the document's number and  *)
(*   lock no document, so attempts with one key meet at the slot.          *)
(***************************************************************************)
EXTENDS StockSlot, Sums

CONSTANTS Txns,       \* attempts at requests (a retry is a new attempt)
          NoTxn,      \* holder of an unlocked slot
          Refs,       \* references that requests name (order, document)
          OwnRef,     \* stands for a reference that the attempt will draw
          Lines,      \* the rest of a ledger key: its reason and ref_line
          Docs,       \* documents whose row a request may lock
          NoDoc,      \* what a request locks that locks no document
          SameCode,   \* SameCode[s]: the slots of s's item with its lot_code
          Requests    \* the requests clients make

Kinds == {"adjust", "recount", "outbound", "inbound_op"}

(* One stock movement.  qty is the signed delta of an adjust, the target   *)
(* of a recount, the quantity of an outbound or inbound_op line.  confirm: *)
(* meta.allow_zero_delta_ledger (with its sub_reason), by which a count    *)
(* leaves a ledger row for a zero difference.  Lines of documents carry    *)
(* quantities that are not negative.                                       *)
Call == {c \in [kind : Kinds, slot : Slots, key : Keys, qty : Int,
                confirm : BOOLEAN, meta : BOOLEAN] :
           c.kind \in {"outbound", "inbound_op"} => c.qty >= 0}

(* The document it locks first, if any, and its movements.                 *)
Request == [doc : Docs \cup {NoDoc}, calls : Seq(Call)]

(* The call goes through adjust_lot_impl.                                  *)
Adjusts(c) == c.kind \in {"adjust", "recount"}

ASSUME TxnAssumption == NoTxn \notin Txns

(* A drawn reference is nobody else's.                                     *)
ASSUME KeyAssumption ==
  /\ Keys = [ref : Refs \cup Txns \cup {OwnRef}, line : Lines]
  /\ Refs \cap Txns = {}
  /\ OwnRef \notin Refs \cup Txns

ASSUME CodeAssumption ==
  \A s \in Slots : SameCode[s] \subseteq Slots /\ IsFiniteSet(SameCode[s])

ASSUME RequestAssumption ==
  /\ Requests \subseteq Request
  /\ \A r \in Requests : \A n \in DOMAIN r.calls :
       r.calls[n].key.ref \in Refs \cup {OwnRef}

(* An adjust draws its reference, or every request with its key locks the  *)
(* document that the key names.                                            *)
ASSUME AdjustAssumption ==
  \A q, r \in Requests : \A m \in DOMAIN q.calls, n \in DOMAIN r.calls :
    /\ Adjusts(q.calls[m])
    /\ q.calls[m].key = r.calls[n].key
    /\ q.calls[m].key.ref # OwnRef
    => q.doc = r.doc /\ q.doc # NoDoc

VARIABLES book,     \* the committed tables, [Slots -> Slot]
          work,     \* work[t][s]: t's version of s, while t holds s
          holder,   \* who holds the row lock of a slot
          pc,       \* where an attempt is
          doc,      \* the document it locks
          req,      \* the calls of its request, under its references
          todo      \* the calls it has still to make

vars == <<book, work, holder, pc, doc, req, todo>>

-----------------------------------------------------------------------------
Active(t) == pc[t] \in {"wait", "call", "write"}

(* t has its document's lock, if it takes one.                             *)
Started(t) == pc[t] \in {"call", "write"}

Ended(t) == pc[t] \in {"done", "aborted"}

(* What t reads of slot s.                                                 *)
View(t, s) == IF holder[s] = t THEN work[t][s] ELSE book[s]

Free(t, s) == holder[s] \in {NoTxn, t}

(* The unique ledger keys that calls can take, and those of the adjusts.   *)
Targets(q) == {<<q[n].slot, q[n].key>> : n \in DOMAIN q}
AdjustTargets(q) ==
  {<<q[n].slot, q[n].key>> : n \in {m \in DOMAIN q : Adjusts(q[m])}}

NothingHeld == [s \in Slots |-> EmptySlot]

-----------------------------------------------------------------------------
Init ==
  /\ book = [s \in Slots |-> EmptySlot]
  /\ work = [t \in Txns |-> NothingHeld]
  /\ holder = [s \in Slots |-> NoTxn]
  /\ pc = [t \in Txns |-> "idle"]
  /\ doc = [t \in Txns |-> NoDoc]
  /\ req = [t \in Txns |-> << >>]
  /\ todo = [t \in Txns |-> << >>]

(* The calls under the reference that attempt t draws.                     *)
Drawn(t, q) ==
  [n \in DOMAIN q |->
     IF q[n].key.ref = OwnRef
     THEN [q[n] EXCEPT !.key = [ref |-> t, line |-> q[n].key.line]]
     ELSE q[n]]

(* A client sends a request, for the first time or again.                  *)
Begin(t) ==
  /\ pc[t] = "idle"
  /\ \E r \in Requests :
       /\ doc' = [doc EXCEPT ![t] = r.doc]
       /\ req' = [req EXCEPT ![t] = Drawn(t, r.calls)]
       /\ todo' = [todo EXCEPT ![t] = Drawn(t, r.calls)]
       /\ pc' = [pc EXCEPT ![t] = IF r.doc = NoDoc THEN "call" ELSE "wait"]
  /\ UNCHANGED <<book, work, holder>>

(* Fault: the document is read without FOR UPDATE.                         *)
DocumentFreeAlways(t) == TRUE

(* The document's row is locked by nobody else: it is locked by the first  *)
(* statement and released when the transaction ends.                       *)
DocumentFree(t) == \A u \in Txns \ {t} : Started(u) => doc[u] # doc[t]

(* get_with_lines(for_update=True).  The request holds nothing while it    *)
(* waits here, so it is in no cycle of waiting transactions.  A task that  *)
(* is COMMITTED returns here; the kernel does not rely on it: a request    *)
(* that goes on finds its keys taken (AdjustHit).                          *)
LockDocument(t) ==
  /\ pc[t] = "wait"
  /\ DocumentFree(t)
  /\ pc' = [pc EXCEPT ![t] = "call"]
  /\ UNCHANGED <<book, work, holder, doc, req, todo>>

(* t is about to make a call of one of these kinds.                        *)
Calls(t, kinds) ==
  /\ pc[t] = "call"
  /\ todo[t] # << >>
  /\ Head(todo[t]).kind \in kinds

(* The call returns and the request goes on to the next.                   *)
Return(t) ==
  /\ todo' = [todo EXCEPT ![t] = Tail(@)]
  /\ pc' = [pc EXCEPT ![t] = "call"]

(* The transaction ends and its row locks are released.                    *)
Release(t, outcome) ==
  /\ pc' = [pc EXCEPT ![t] = outcome]
  /\ holder' = [s \in Slots |-> IF holder[s] = t THEN NoTxn ELSE holder[s]]
  /\ work' = [work EXCEPT ![t] = NothingHeld]
  /\ todo' = [todo EXCEPT ![t] = << >>]
  /\ UNCHANGED <<doc, req>>

Rollback(t) ==
  /\ Release(t, "aborted")
  /\ UNCHANGED book

(* t holds s from here on, with b as its version of it.                    *)
Put(t, s, b) ==
  /\ holder' = [holder EXCEPT ![s] = t]
  /\ work' = [work EXCEPT ![t][s] = b]
  /\ UNCHANGED <<book, doc, req>>

(* A ledger row with its balance.                                          *)
Posted(b, c, d) ==
  [qty |-> b.qty + d,
   rows |-> Append(b.rows, [key |-> c.key, delta |-> d,
                            after |-> b.qty + d, meta |-> c.meta])]

-----------------------------------------------------------------------------
(* adjust_lot_impl, first half: a zero delta that asks for no ledger row   *)
(* and a key that is already in the ledger return without effect.  The key *)
(* is looked up before the slot is locked.                                 *)
IsNoop(c) == c.qty = 0 /\ ~c.confirm

AdjustHit(t) ==
  /\ Calls(t, {"adjust"})
  /\ LET c == Head(todo[t]) IN IsNoop(c) \/ HasKey(View(t, c.slot), c.key)
  /\ Return(t)
  /\ UNCHANGED <<book, work, holder, doc, req>>

AdjustMiss(t) ==
  /\ Calls(t, {"adjust"})
  /\ LET c == Head(todo[t]) IN ~IsNoop(c) /\ ~HasKey(View(t, c.slot), c.key)
  /\ pc' = [pc EXCEPT ![t] = "write"]
  /\ UNCHANGED <<book, work, holder, doc, req, todo>>

(* write_ledger_infra: the row is inserted unless its key is taken; then   *)
(* the NULL columns of the row that is there are filled instead.           *)
Patched(row, c) ==
  IF row.key = c.key /\ c.meta THEN [row EXCEPT !.meta = TRUE] ELSE row

(* Fault: the slot's ledger is rewritten instead of appended to.           *)
LedgerWriteReplace(b, c) == <<[key |-> c.key, delta |-> b.qty + c.qty,
                               after |-> b.qty + c.qty, meta |-> c.meta]>>

LedgerWrite(b, c) ==
  IF HasKey(b, c.key)
  THEN [n \in DOMAIN b.rows |-> Patched(b.rows[n], c)]
  ELSE Posted(b, c, c.qty).rows

(* Fault: the check for negative stock is left out.                        *)
AdjustWriteUnchecked(t) ==
  LET c == Head(todo[t])
      b == View(t, c.slot)
  IN /\ pc[t] = "write"
     /\ Free(t, c.slot)
     /\ Put(t, c.slot, [qty |-> b.qty + c.qty, rows |-> LedgerWrite(b, c)])
     /\ Return(t)

(* adjust_lot_impl, second half: with the slot locked, ledger row and      *)
(* balance are written.  Whether the ledger row was inserted is not asked. *)
AdjustWrite(t) ==
  LET c == Head(todo[t])
      b == View(t, c.slot)
  IN /\ pc[t] = "write"
     /\ Free(t, c.slot)
     /\ b.qty + c.qty >= 0
     /\ Put(t, c.slot, [qty |-> b.qty + c.qty, rows |-> LedgerWrite(b, c)])
     /\ Return(t)

(* What t reads as the stock under the lot_code of slot s: the sum over    *)
(* all lots that have it.                                                  *)
OnHand(t, s) == SumOf([x \in SameCode[s] |-> View(t, x).qty], SameCode[s])

(* stock_recount: the difference to the counted quantity is computed from  *)
(* an unlocked read of all lots with the code; the rest is an adjust of    *)
(* one of them by that difference.                                         *)
RecountRead(t) ==
  LET c == Head(todo[t])
      d == c.qty - OnHand(t, c.slot)
  IN /\ Calls(t, {"recount"})
     /\ todo' = [todo EXCEPT ![t] =
                   <<[c EXCEPT !.kind = "adjust", !.qty = d]>> \o Tail(@)]
     /\ UNCHANGED <<book, work, holder, pc, doc, req>>

(* One line of _write_event_and_ledger.                                    *)
OutboundWrite(t) ==
  LET c == Head(todo[t])
      b == View(t, c.slot)
  IN /\ Calls(t, {"outbound"})
     /\ Free(t, c.slot)
     /\ b.qty >= c.qty
     /\ ~HasKey(b, c.key)
     /\ Put(t, c.slot, Posted(b, c, -c.qty))
     /\ Return(t)

(* One entry of submit_inbound_operation_repo.                             *)
InboundOperationWrite(t) ==
  LET c == Head(todo[t])
      b == View(t, c.slot)
  IN /\ Calls(t, {"inbound_op"})
     /\ Free(t, c.slot)
     /\ ~HasKey(b, c.key)
     /\ Put(t, c.slot, Posted(b, c, c.qty))
     /\ Return(t)

-----------------------------------------------------------------------------
(* The slot t needs next, when it is at a statement that takes the lock.   *)
Wants(t, s) ==
  /\ pc[t] = "write" \/ Calls(t, {"outbound", "inbound_op"})
  /\ Head(todo[t]).slot = s

(* Stock would go negative, or a plain INSERT meets its unique key: the    *)
(* service raises and the router rolls back.                               *)
Refused(c, b) ==
  \/ c.kind = "adjust" /\ b.qty + c.qty < 0
  \/ c.kind = "outbound" /\ b.qty < c.qty
  \/ c.kind \in {"outbound", "inbound_op"} /\ HasKey(b, c.key)

(* Fault: the failing line is skipped and the document goes on.            *)
RejectLine(t) ==
  /\ \E s \in Slots : /\ Wants(t, s)
                      /\ Free(t, s)
                      /\ Refused(Head(todo[t]), View(t, s))
  /\ Return(t)
  /\ UNCHANGED <<book, work, holder, doc, req>>

Reject(t) ==
  /\ \E s \in Slots : /\ Wants(t, s)
                      /\ Free(t, s)
                      /\ Refused(Head(todo[t]), View(t, s))
  /\ Rollback(t)

(* Any other exception of a request (lot guard, date rules, ...), a lost   *)
(* connection or a crash of the server: PostgreSQL rolls back.             *)
Fail(t) ==
  /\ Active(t)
  /\ Rollback(t)

(* t waits for a lock that u holds.                                        *)
WaitsFor(t, u) == u # t /\ \E s \in Slots : Wants(t, s) /\ holder[s] = u

(* Fault: a cycle of waiting transactions is not detected.                 *)
DeadlockAbortNever(t) ==
  /\ \E u \in Txns : WaitsFor(t, u) /\ u = t
  /\ Rollback(t)

(* PostgreSQL breaks a cycle of waiting transactions by aborting one.      *)
DeadlockAbort(t) ==
  /\ \E C \in SUBSET Txns :
       /\ t \in C
       /\ \A u \in C : /\ \E v \in C : WaitsFor(u, v)
                       /\ \E v \in C : WaitsFor(v, u)
  /\ Rollback(t)

(* The router commits: the working copies become the committed slots.      *)
Commit(t) ==
  /\ pc[t] = "call"
  /\ todo[t] = << >>
  /\ book' = [s \in Slots |-> View(t, s)]
  /\ Release(t, "done")

-----------------------------------------------------------------------------
Step(t) ==
  \/ LockDocument(t)
  \/ AdjustHit(t) \/ AdjustMiss(t) \/ AdjustWrite(t) \/ RecountRead(t)
  \/ OutboundWrite(t) \/ InboundOperationWrite(t)
  \/ Reject(t) \/ DeadlockAbort(t) \/ Commit(t)

Next == \E t \in Txns : Begin(t) \/ Step(t) \/ Fail(t)

Spec == Init /\ [][Next]_vars

(* The event loop and the database run every request that can go on, and   *)
(* the deadlock detector runs after deadlock_timeout.                      *)
FairSpec == Spec /\ \A t \in Txns : WF_vars(Step(t))
-----------------------------------------------------------------------------
TypeOK ==
  /\ book \in [Slots -> Slot]
  /\ work \in [Txns -> [Slots -> Slot]]
  /\ holder \in [Slots -> Txns \cup {NoTxn}]
  /\ pc \in [Txns -> {"idle", "wait", "call", "write", "done", "aborted"}]
  /\ doc \in [Txns -> Docs \cup {NoDoc}]
  /\ req \in [Txns -> Seq(Call)]
  /\ todo \in [Txns -> Seq(Call)]
  /\ \A t \in Txns : pc[t] = "write" =>
       /\ todo[t] # << >>
       /\ Head(todo[t]).kind = "adjust"

(* The two tables agree in every committed state: a balance is the end of  *)
(* its ledger chain and no key moved a slot twice, however attempts at one *)
(* document overlap (adjust_lot_impl writes the ledger row and the balance *)
(* with two statements, looks its key up before it has the lock, and does  *)
(* not ask whether the row was inserted; outbound submits of one order     *)
(* have its number as their key and no lock on it).                        *)
BooksAgree == \A s \in Slots : Sound(book[s])

(* The kernel implements the abstract book: commits only add rows.         *)
Abstract == INSTANCE LedgerBook
AbstractSpec == Abstract!Spec

(* What an adjust found before it had the lock still holds when it gets    *)
(* it: no one has taken its key in between.                                *)
LookupStillMisses ==
  \A t \in Txns : pc[t] = "write" =>
    ~HasKey(View(t, Head(todo[t]).slot), Head(todo[t]).key)

(* The rest of the inductive invariant.  A working copy is a sound         *)
(* continuation of the committed slot, whose new rows are the request's.   *)
WorkSound ==
  \A t \in Txns, s \in Slots : holder[s] = t =>
    /\ Active(t)
    /\ Sound(work[t][s])
    /\ Continues(book[s], work[t][s])
    /\ \A k \in Keys : HasKey(work[t][s], k) =>
         HasKey(book[s], k) \/ <<s, k>> \in Targets(req[t])

(* An attempt makes no calls but those of its request.                     *)
TodoOfRequest ==
  \A t \in Txns : Targets(todo[t]) \subseteq Targets(req[t])

AdjustsOfRequest ==
  \A t \in Txns : AdjustTargets(todo[t]) \subseteq AdjustTargets(req[t])

(* An attempt has the calls of a request, under the reference it drew.     *)
RequestsDrawn ==
  \A t \in Txns : Active(t) =>
    \E r \in Requests : doc[t] = r.doc /\ req[t] = Drawn(t, r.calls)

(* A document is locked by one attempt at a time.                          *)
DocumentsLocked ==
  \A t, u \in Txns : Started(t) /\ Started(u) /\ t # u /\ doc[t] = doc[u] =>
    doc[t] = NoDoc

KernelInv ==
  /\ TypeOK /\ BooksAgree
  /\ LookupStillMisses /\ WorkSound
  /\ TodoOfRequest /\ AdjustsOfRequest
  /\ RequestsDrawn /\ DocumentsLocked

(* The call leaves a ledger row when its request commits.                  *)
Posts(c) ==
  \/ c.kind \in {"outbound", "inbound_op"}
  \/ c.kind = "adjust" /\ ~IsNoop(c)

(* The ledger holds the committed requests, each with all of its lines,    *)
(* and nothing of any other, whatever failed in the middle of it (every    *)
(* router rolls back as a whole) or was tried again.                       *)
AllOrNothing ==
  /\ \A t \in Txns : pc[t] = "done" =>
       \A n \in DOMAIN req[t] :
         Posts(req[t][n]) => HasKey(book[req[t][n].slot], req[t][n].key)
  /\ \A s \in Slots : \A n \in DOMAIN book[s].rows :
       \E t \in Txns : pc[t] = "done" /\ <<s, book[s].rows[n].key>> \in Targets(req[t])

(* No request waits for ever, whatever the lock orders of the others.      *)
EveryAttemptEnds == \A t \in Txns : Active(t) ~> Ended(t)
=============================================================================
