----------------------------- MODULE ReturnTask -----------------------------
(***************************************************************************)
(* Return tasks of shipped orders, in one warehouse: a task is made from   *)
(* what the ledger says was shipped, receives pieces, and is committed to  *)
(* stock.  The commit ends in the three-books gate: it rebuilds today's    *)
(* stock snapshot (stock_snapshots) in its own transaction and compares it *)
(* with the balances.                                                      *)
(*                                                                         *)
(* The task's row and the lots it moves are locked from the first write to *)
(* the end; other lots move freely.  Two rebuilds exclude each other: the  *)
(* DELETE or the INSERT of the second waits for the first, and if that one *)
(* commits its rows are there and the unique key refuses the second.       *)
(***************************************************************************)
EXTENDS Sums

CONSTANTS Lots,
          ItemOf,       \* the item of a lot
          Orders,       \* order references
          Tasks,        \* identities of return tasks: the bound on their number
          Stock0,       \* the stock of every lot before anything was shipped
          Requests,     \* HTTP requests that can be in flight together
          None

ASSUME ReturnAssumption ==
  /\ Stock0 \in Nat /\ None \notin Orders \cup Tasks
  /\ IsFiniteSet(Orders) /\ IsFiniteSet(Tasks)

VARIABLES stock,        \* committed stocks_lot
          shipped,      \* ledger: what the reference's shipments took
          returned,     \* ledger: what its returns brought back
          task,         \* return_tasks with return_task_lines, by lot
          snap,         \* committed stock_snapshots of today, -1 for no row
          req           \* requests in flight

vars == <<stock, shipped, returned, task, snap, req>>

Nothing == [l \in Lots |-> 0]
NoTask  == [st |-> "NONE", o |-> None, expected |-> Nothing, picked |-> Nothing]
Idle    == [pc |-> "idle", o |-> None, t |-> None, move |-> Nothing,
            snap |-> Nothing]

(* A request that commits task t.                                          *)
Committing(pc, t, move, rows) ==
  [pc |-> pc, o |-> None, t |-> t, move |-> move, snap |-> rows]

Init ==
  /\ stock = [l \in Lots |-> Stock0]
  /\ shipped = [o \in Orders |-> Nothing]
  /\ returned = [o \in Orders |-> Nothing]
  /\ task = [t \in Tasks |-> NoTask]
  /\ snap = [l \in Lots |-> -1]
  /\ req = [p \in Requests |-> Idle]

Plus(f, g) == [l \in Lots |-> f[l] + g[l]]

Free(l) == \A p \in Requests : req[p].move[l] = 0

(* A submit ships a piece of a lot that no commit has moved.               *)
Ship(o, l) ==
  /\ Free(l) /\ stock[l] > 0
  /\ stock' = [stock EXCEPT ![l] = @ - 1]
  /\ shipped' = [shipped EXCEPT ![o] = [@ EXCEPT ![l] = shipped[o][l] + 1]]
  /\ UNCHANGED <<returned, task, snap, req>>

-----------------------------------------------------------------------------
(* create_for_order: a task of the order that is not COMMITTED is          *)
(* returned as it is; ...                                                  *)
CreateLook(p, o) ==
  /\ req[p] = Idle
  /\ \A t \in Tasks : task[t].o = o => task[t].st = "COMMITTED"
  /\ req' = [req EXCEPT ![p] = [pc |-> "create", o |-> o, t |-> None,
                                move |-> Nothing, snap |-> Nothing]]
  /\ UNCHANGED <<stock, shipped, returned, task, snap>>

(* Fault: the task also expects what was not shipped.                      *)
ExpectedMore(o) == [l \in Lots |-> shipped[o][l] + 1]

(* _load_shipped_summary: every shipment of the order, whatever was        *)
(* returned since.                                                         *)
Expected(o) == shipped[o]

(* ... otherwise a task is made of everything the order shipped.           *)
CreateInsert(p, t) ==
  /\ req[p].pc = "create"
  /\ task[t] = NoTask
  /\ shipped[req[p].o] # Nothing
  /\ task' = [task EXCEPT ![t] = [st |-> "OPEN", o |-> req[p].o,
                                  expected |-> Expected(req[p].o), picked |-> Nothing]]
  /\ req' = [req EXCEPT ![p] = Idle]
  /\ UNCHANGED <<stock, shipped, returned, snap>>

TaskFree(t) == \A p \in Requests : req[p].t # t

Receivable(t, l, n) == n \in 0..task[t].expected[l]

(* record_receive: the first line of the item, in the order the database   *)
(* returns them, takes the quantity, which may be a correction.            *)
Receive(t, l, qty) ==
  /\ TaskFree(t)
  /\ task[t].st = "OPEN"
  /\ task[t].expected[l] > 0
  /\ Receivable(t, l, task[t].picked[l] + qty)
  /\ LET got == task[t].picked
     IN  task' = [task EXCEPT ![t] =
                    [@ EXCEPT !.picked = [got EXCEPT ![l] = got[l] + qty]]]
  /\ UNCHANGED <<stock, shipped, returned, snap, req>>

-----------------------------------------------------------------------------
(* Fault: a task that is COMMITTED is committed again.                     *)
CommittableAlways(t) == task[t].st # "NONE"

Committable(t) == task[t].st = "OPEN"

(* commit: the task is locked, and the lots of the lines that received     *)
(* something are moved.                                                    *)
Move(p, t) ==
  /\ req[p] = Idle
  /\ TaskFree(t)
  /\ Committable(t)
  /\ \A l \in Lots : task[t].picked[l] > 0 => Free(l)
  /\ req' = [req EXCEPT ![p] =
               Committing(IF task[t].picked = Nothing THEN "commit" ELSE "delete",
                          t, task[t].picked, Nothing)]
  /\ UNCHANGED <<stock, shipped, returned, task, snap>>

(* enforce_three_books, run_snapshot: the rows of today are deleted, ...   *)
SnapshotDelete(p) ==
  /\ req[p].pc = "delete"
  /\ req' = [req EXCEPT ![p] = [@ EXCEPT !.pc = "insert"]]
  /\ UNCHANGED <<stock, shipped, returned, task, snap>>

(* What the transaction sees of the balances.                              *)
Seen(p) == Plus(stock, req[p].move)

(* Fault: the snapshot leaves out the transaction's own moves.             *)
SnapshotBefore(p) == stock

(* _rebuild_snapshot_today_from_lot: the balances, own moves included.     *)
SnapshotRows(p) == Seen(p)

Rebuilding(p) == req[p].pc \in {"verify", "commit"} /\ req[p].move # Nothing

(* ... and inserted again from the balances, when nobody else's rebuild is *)
(* open.                                                                   *)
SnapshotInsert(p) ==
  /\ req[p].pc = "insert"
  /\ \A q \in Requests \ {p} : ~Rebuilding(q)
  /\ req' = [req EXCEPT ![p] =
               Committing("verify", @.t, @.move, SnapshotRows(p))]
  /\ UNCHANGED <<stock, shipped, returned, task, snap>>

Total(f, i) == SumOf(f, {l \in Lots : ItemOf[l] = i})

Touched(p) == {ItemOf[l] : l \in {k \in Lots : req[p].move[k] # 0}}

(* verify_commit_three_books: for every item the task moved, the balances  *)
(* now add up to the snapshot; otherwise the commit fails.                 *)
Verify(p) ==
  /\ req[p].pc = "verify"
  /\ \A i \in Touched(p) : Total(Seen(p), i) = Total(req[p].snap, i)
  /\ req' = [req EXCEPT ![p] = [@ EXCEPT !.pc = "commit"]]
  /\ UNCHANGED <<stock, shipped, returned, task, snap>>

(* The balances a commit leaves: only the lots it moved are written.       *)
Balances(p) == Seen(p)

(* The router commits.  Whoever deleted the old snapshot meanwhile will    *)
(* find the unique key taken.                                              *)
Commit(p) ==
  LET t == req[p].t
      o == task[t].o
      moved == req[p].move # Nothing
  IN  /\ req[p].pc = "commit"
      /\ stock' = Balances(p)
      /\ returned' = [returned EXCEPT ![o] = Plus(@, req[p].move)]
      /\ task' = [task EXCEPT ![t] = [@ EXCEPT !.st = "COMMITTED"]]
      /\ snap' = IF moved THEN req[p].snap ELSE snap
      /\ req' = [q \in Requests |->
                   IF q = p \/ (moved /\ req[q].pc = "insert") THEN Idle ELSE req[q]]
      /\ UNCHANGED shipped

(* The gate refuses, or anything else fails: the request is rolled back.   *)
Fail(p) ==
  /\ req[p] # Idle
  /\ req' = [req EXCEPT ![p] = Idle]
  /\ UNCHANGED <<stock, shipped, returned, task, snap>>

Next ==
  \/ \E o \in Orders, l \in Lots : Ship(o, l)
  \/ \E p \in Requests, o \in Orders : CreateLook(p, o)
  \/ \E p \in Requests, t \in Tasks : CreateInsert(p, t) \/ Move(p, t)
  \/ \E t \in Tasks, l \in Lots, qty \in {-1, 1} : Receive(t, l, qty)
  \/ \E p \in Requests :
       \/ SnapshotDelete(p) \/ SnapshotInsert(p) \/ Verify(p)
       \/ Commit(p) \/ Fail(p)

Spec == Init /\ [][Next]_vars

-----------------------------------------------------------------------------
TypeOK ==
  /\ stock \in [Lots -> Nat]
  /\ shipped \in [Orders -> [Lots -> Nat]] /\ returned \in [Orders -> [Lots -> Nat]]
  /\ snap \in [Lots -> Nat \cup {-1}]
  /\ \A t \in Tasks :
       /\ task[t].st \in {"NONE", "OPEN", "COMMITTED"}
       /\ \A l \in Lots : task[t].picked[l] \in 0..task[t].expected[l]
  /\ \A p \in Requests :
       req[p].pc \in {"idle", "create", "delete", "insert", "verify", "commit"}

TasksOf(o) == {t \in Tasks : task[t].o = o}

ReturnedOf(o) == {t \in TasksOf(o) : task[t].st = "COMMITTED"}

(* A task is returned to stock once, with what it received last, however   *)
(* often and by whomever it is committed, and whatever gate refusals come  *)
(* between; nothing else comes back for the order.  Stock is what was      *)
(* there, less what was shipped, plus what came back.                      *)
ReturnedOnce ==
  /\ TypeOK
  /\ \A o \in Orders, l \in Lots :
       returned[o][l] = SumOf([t \in Tasks |-> task[t].picked[l]], ReturnedOf(o))
  /\ \A l \in Lots :
       stock[l] = Stock0 + SumOf([o \in Orders |-> returned[o][l] - shipped[o][l]], Orders)

(* An order with one task does not get back more of a lot than it shipped, *)
(* although it may ship more, and correct receipts, while the task is open.*)
NoOverReturn ==
  \A o \in Orders : Cardinality(TasksOf(o)) <= 1 =>
    \A l \in Lots : returned[o][l] <= shipped[o][l]

(* A committed return leaves a snapshot that is exact for the lots it      *)
(* moved: nobody moves them between the rebuild and the commit, and no     *)
(* other rebuild replaces it unseen.  Lots of the same item that others    *)
(* move between the check and the commit may differ.                       *)
OwnLotsExact ==
  [][\A p \in Requests : req[p].pc = "commit" /\ req'[p] = Idle /\ returned' # returned =>
       \A l \in Lots : req[p].move[l] # 0 => snap'[l] = stock'[l]]_vars
=============================================================================
