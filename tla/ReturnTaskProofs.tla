-------------------------- MODULE ReturnTaskProofs --------------------------
(***************************************************************************)
(* Return tasks for any lots, orders, tasks, stock and number of requests  *)
(* in flight.                                                              *)
(***************************************************************************)
EXTENDS ReturnTask, SumProofs

TaskRow == [st : {"NONE", "OPEN", "COMMITTED"}, o : Orders \cup {None},
            expected : [Lots -> Nat], picked : [Lots -> Nat]]

InFlight == {"delete", "insert", "verify", "commit"}

RequestRow == [pc : {"idle", "create"} \cup InFlight, o : Orders \cup {None},
               t : Tasks \cup {None}, move : [Lots -> Nat], snap : [Lots -> Nat]]

(* A task expects what its order has shipped, or less.                     *)
TaskShape(t) ==
  /\ task[t] \in TaskRow
  /\ task[t].st # "NONE" =>
       /\ task[t].o \in Orders
       /\ \A l \in Lots : task[t].expected[l] <= shipped[task[t].o][l]
  /\ \A l \in Lots : task[t].picked[l] <= task[t].expected[l]

(* A commit in flight moves what its task, still OPEN, has received, and   *)
(* the rows it has inserted are the balances of the lots it moves.         *)
RequestShape(p) ==
  LET q == req[p] IN
  /\ q \in RequestRow
  /\ q.pc \in {"idle", "create"} => q.t = None /\ q.move = Nothing
  /\ q.pc = "create" => q.o \in Orders
  /\ q.pc \in InFlight => /\ q.t \in Tasks /\ task[q.t].st = "OPEN"
                          /\ q.move = task[q.t].picked
  /\ q.pc \in {"verify", "commit"} =>
       \A l \in Lots : q.move[l] # 0 => q.snap[l] = stock[l] + q.move[l]

(* A task and a lot have one commit at a time.                             *)
OwnTask == \A p \in Requests : \A q \in Requests \ {p} :
             req[p].t # None => req[q].t # req[p].t

OwnLots == \A p \in Requests : \A q \in Requests \ {p} : \A l \in Lots :
             req[p].move[l] = 0 \/ req[q].move[l] = 0

Tables ==
  /\ stock \in [Lots -> Nat]
  /\ shipped \in [Orders -> [Lots -> Nat]] /\ returned \in [Orders -> [Lots -> Nat]]
  /\ snap \in [Lots -> Nat \cup {-1}]
  /\ task \in [Tasks -> TaskRow] /\ req \in [Requests -> RequestRow]

(* What came back for an order, of its tasks; the stock, of the orders.    *)
BackFor(o, l) == SumOf([t \in Tasks |-> task[t].picked[l]], ReturnedOf(o))
Moved(l) == SumOf([o \in Orders |-> returned[o][l] - shipped[o][l]], Orders)

Books ==
  /\ \A o \in Orders, l \in Lots : returned[o][l] = BackFor(o, l)
  /\ \A l \in Lots : stock[l] = Stock0 + Moved(l)

ReturnInv ==
  /\ Tables
  /\ \A t \in Tasks : TaskShape(t)
  /\ \A p \in Requests : RequestShape(p)
  /\ OwnTask /\ OwnLots
  /\ Books

-----------------------------------------------------------------------------
(* The tables, taken apart.                                                *)
LEMMA TaskIs ==
  ASSUME ReturnInv, NEW t \in Tasks
  PROVE  TaskShape(t) /\ task[t] \in TaskRow /\ \A l \in Lots : task[t].picked[l] \in Nat
BY DEF ReturnInv, TaskShape, TaskRow

LEMMA RequestIs ==
  ASSUME ReturnInv, NEW p \in Requests
  PROVE  /\ RequestShape(p) /\ req[p] \in RequestRow
         /\ \A l \in Lots : req[p].move[l] \in Nat /\ req[p].snap[l] \in Nat
BY DEF ReturnInv, RequestShape, RequestRow

(* The rows requests are written with.                                     *)
LEMMA RowsAre ==
  /\ Nothing \in [Lots -> Nat] /\ \A l \in Lots : Nothing[l] = 0
  /\ Idle \in RequestRow /\ Idle.pc = "idle" /\ Idle.t = None /\ Idle.move = Nothing
BY DEF Nothing, Idle, RequestRow

(* The sums stay when no task is committed.                                *)
LEMMA BooksKept ==
  ASSUME ReturnInv, UNCHANGED <<stock, shipped, returned>>,
         task' \in [Tasks -> TaskRow],
         \A t \in Tasks : /\ task'[t].st = "COMMITTED" <=> task[t].st = "COMMITTED"
                          /\ task[t].st = "COMMITTED" => task'[t] = task[t]
  PROVE  Books'
<1>1. ASSUME NEW o \in Orders, NEW l \in Lots PROVE BackFor(o, l)' = BackFor(o, l)
  <2> DEFINE R == ReturnedOf(o)
             q == [t \in Tasks |-> task[t].picked[l]]
             r == [t \in Tasks |-> task'[t].picked[l]]
  <2>1. ReturnedOf(o)' = R
    BY DEF ReturnedOf, TasksOf
  <2>2. R \subseteq Tasks /\ \A t \in R : task'[t] = task[t]
    BY DEF ReturnedOf, TasksOf
  <2>3. IsFiniteSet(R) /\ \A t \in R : q[t] = r[t]
    BY <2>2, ReturnAssumption, FS_Subset
  <2>4. BackFor(o, l)' = SumOf(r, ReturnedOf(o)') /\ BackFor(o, l) = SumOf(q, R)
    BY DEF BackFor
  <2> HIDE DEF R, q, r
  <2>5. SumOf(q, R) = SumOf(r, R)
    BY <2>3, SumAgree
  <2> QED BY <2>1, <2>4, <2>5, Zenon
<1>2. \A l \in Lots : Moved(l)' = Moved(l)
  BY DEF Moved
<1> QED BY <1>1, <1>2 DEF ReturnInv, Books

(* A request's row changes: it takes a task and lots that nobody has, or   *)
(* keeps its own or fewer.                                                 *)
LEMMA RequestMoves ==
  ASSUME ReturnInv, UNCHANGED <<stock, shipped, returned, task, snap>>,
         NEW p \in Requests, NEW row \in RequestRow, req' = [req EXCEPT ![p] = row],
         row.pc \in {"idle", "create"} => row.t = None /\ row.move = Nothing,
         row.pc = "create" => row.o \in Orders,
         row.pc \in InFlight => /\ row.t \in Tasks /\ task[row.t].st = "OPEN"
                                /\ row.move = task[row.t].picked,
         row.pc \in {"verify", "commit"} =>
           \A l \in Lots : row.move[l] # 0 => row.snap[l] = stock[l] + row.move[l],
         row.t \in {None, req[p].t} \/ TaskFree(row.t),
         \A l \in Lots : row.move[l] \in {0, req[p].move[l]} \/ Free(l)
  PROVE  ReturnInv'
<1>1. /\ req' \in [Requests -> RequestRow] /\ req'[p] = row
      /\ \A q \in Requests \ {p} : req'[q] = req[q]
  BY DEF ReturnInv, Tables
<1>2. Tables'
  BY <1>1 DEF ReturnInv, Tables
<1>3. \A t \in Tasks : TaskShape(t)'
  BY DEF ReturnInv, TaskShape
<1>4. ASSUME NEW q \in Requests PROVE RequestShape(q)'
  <2>1. CASE q = p
    BY <1>1, <2>1 DEF RequestShape
  <2>2. CASE q # p
    BY <1>1, <2>2 DEF ReturnInv, RequestShape
  <2> QED BY <2>1, <2>2
<1>5. OwnTask'
  BY <1>1 DEF ReturnInv, OwnTask, TaskFree
<1>6. OwnLots'
  BY <1>1 DEF ReturnInv, OwnLots, Free
<1>7. Books'
  BY BooksKept DEF ReturnInv, Tables
<1> QED BY <1>2, <1>3, <1>4, <1>5, <1>6, <1>7 DEF ReturnInv

(* A task that no commit has changes, and is not committed by that.        *)
LEMMA TaskChanges ==
  ASSUME ReturnInv, UNCHANGED <<stock, shipped, returned, snap>>,
         NEW t \in Tasks, NEW row \in TaskRow, task' = [task EXCEPT ![t] = row],
         task[t].st # "COMMITTED", row.st = "OPEN", row.o \in Orders,
         \A l \in Lots : /\ row.expected[l] <= shipped[row.o][l]
                         /\ row.picked[l] <= row.expected[l],
         \A q \in Requests : req'[q] = req[q] \/ req'[q] = Idle,
         req' \in [Requests -> RequestRow],
         \A q \in Requests : req'[q].t # t
  PROVE  ReturnInv'
<1>1. /\ task' \in [Tasks -> TaskRow] /\ task'[t] = row
      /\ \A x \in Tasks \ {t} : task'[x] = task[x]
  BY DEF ReturnInv, Tables
<1>2. Tables'
  BY <1>1 DEF ReturnInv, Tables
<1>3. ASSUME NEW x \in Tasks PROVE TaskShape(x)'
  <2>1. CASE x = t
    BY <1>1, <2>1 DEF TaskShape
  <2>2. CASE x # t
    BY <1>1, <2>2 DEF ReturnInv, TaskShape
  <2> QED BY <2>1, <2>2
<1>4. ASSUME NEW q \in Requests PROVE RequestShape(q)'
  <2>1. CASE req'[q] = Idle
    BY <2>1, RowsAre DEF RequestShape, InFlight
  <2>2. CASE req'[q] = req[q]
    <3>1. req[q].t # t
      BY <2>2
    <3> QED BY <1>1, <2>2, <3>1 DEF ReturnInv, RequestShape
  <2> QED BY <2>1, <2>2
<1>5. OwnTask'
  BY RowsAre DEF ReturnInv, OwnTask
<1>6. OwnLots'
  BY RowsAre DEF ReturnInv, OwnLots
<1>7. \A x \in Tasks : /\ task'[x].st = "COMMITTED" <=> task[x].st = "COMMITTED"
                       /\ task[x].st = "COMMITTED" => task'[x] = task[x]
  BY <1>1
<1>8. Books'
  BY <1>1, <1>7, BooksKept
<1> QED BY <1>2, <1>3, <1>4, <1>5, <1>6, <1>8 DEF ReturnInv

-----------------------------------------------------------------------------
(* What the orders moved of a lot after one order moved some more of it.   *)
LEMMA MovedChanges ==
  ASSUME ReturnInv, Tables', NEW o \in Orders, NEW l \in Lots, NEW d \in Int,
         returned'[o][l] - shipped'[o][l] = (returned[o][l] - shipped[o][l]) + d,
         \A x \in Orders \ {o} : /\ returned'[x][l] = returned[x][l]
                                 /\ shipped'[x][l] = shipped[x][l]
  PROVE  Moved(l)' = Moved(l) + d /\ Moved(l) \in Int
<1> DEFINE q == [x \in Orders |-> returned[x][l] - shipped[x][l]]
           r == [x \in Orders |-> returned'[x][l] - shipped'[x][l]]
<1>1. \A x \in Orders : /\ returned[x][l] \in Nat /\ shipped[x][l] \in Nat
                        /\ returned'[x][l] \in Nat /\ shipped'[x][l] \in Nat
  BY DEF ReturnInv, Tables
<1>2. r[o] = q[o] + d
  BY <1>1
<1>7. \A x \in Orders : q[x] \in Int /\ r[x] \in Int
  BY <1>1
<1>8. \A x \in Orders \ {o} : q[x] = r[x]
  BY <1>1
<1>9. IsFiniteSet(Orders)
  BY ReturnAssumption
<1>3. Moved(l) = SumOf(q, Orders) /\ Moved(l)' = SumOf(r, Orders)
  BY DEF Moved
<1> HIDE DEF q, r
<1>4. SumOf(r, Orders) = SumOf(q, Orders) + (r[o] - q[o])
  <2>1. ASSUME NEW f, NEW g, \A x \in Orders : f[x] \in Int /\ g[x] \in Int,
               \A x \in Orders \ {o} : f[x] = g[x]
        PROVE  SumOf(g, Orders) = SumOf(f, Orders) + (g[o] - f[o])
    BY <1>9, <2>1, SumChange
  <2> QED BY <1>7, <1>8, <2>1, Zenon
<1>5. SumOf(q, Orders) \in Int
  BY <1>7, <1>9, SumType, Zenon
<1>6. q[o] \in Int /\ r[o] \in Int
  BY <1>7
<1> QED BY <1>2, <1>3, <1>4, <1>5, <1>6

(* Orders that move nothing of a lot leave it as it is.                    *)
LEMMA MovedStays ==
  ASSUME NEW l \in Lots,
         \A x \in Orders : /\ returned'[x][l] = returned[x][l]
                           /\ shipped'[x][l] = shipped[x][l]
  PROVE  Moved(l)' = Moved(l)
<1> DEFINE q == [x \in Orders |-> returned[x][l] - shipped[x][l]]
           r == [x \in Orders |-> returned'[x][l] - shipped'[x][l]]
<1>1. q = r
  OBVIOUS
<1>2. Moved(l) = SumOf(q, Orders) /\ Moved(l)' = SumOf(r, Orders)
  BY DEF Moved
<1> HIDE DEF q, r
<1> QED BY <1>1, <1>2, Zenon

(* A shipment takes a piece of a lot that no commit has moved.             *)
LEMMA ShipKeeps ==
  ASSUME ReturnInv, NEW o \in Orders, NEW l \in Lots, Ship(o, l)
  PROVE  ReturnInv'
<1> DEFINE row == [shipped[o] EXCEPT ![l] = shipped[o][l] + 1]
<1>1. Free(l) /\ stock[l] > 0 /\ UNCHANGED <<returned, task, snap, req>>
  BY DEF Ship
<1>10. stock' = [stock EXCEPT ![l] = stock[l] - 1]
  BY DEF Ship
<1>11. shipped' = [shipped EXCEPT ![o] = row]
  BY Zenon DEF Ship
<1>2. /\ row \in [Lots -> Nat] /\ row[l] = shipped[o][l] + 1
      /\ \A k \in Lots \ {l} : row[k] = shipped[o][k]
  BY DEF ReturnInv, Tables
<1> HIDE DEF row
<1>12. /\ shipped' \in [Orders -> [Lots -> Nat]] /\ shipped'[o] = row
       /\ \A x \in Orders \ {o} : shipped'[x] = shipped[x]
  BY <1>2, <1>11 DEF ReturnInv, Tables
<1>13. stock \in [Lots -> Nat] /\ stock[l] \in Nat /\ stock[l] - 1 \in Nat
  BY <1>1 DEF ReturnInv, Tables
<1>14. /\ stock' \in [Lots -> Nat] /\ stock'[l] = stock[l] - 1
       /\ \A k \in Lots \ {l} : stock'[k] = stock[k]
  BY <1>10, <1>13
<1>3. /\ shipped' \in [Orders -> [Lots -> Nat]] /\ shipped'[o] = row
      /\ \A x \in Orders \ {o} : shipped'[x] = shipped[x]
      /\ stock' \in [Lots -> Nat] /\ stock'[l] = stock[l] - 1
      /\ \A k \in Lots \ {l} : stock'[k] = stock[k]
  BY <1>12, <1>14
<1>4. Tables'
  BY <1>1, <1>3 DEF ReturnInv, Tables
<1>5. \A x \in Orders, k \in Lots : /\ shipped[x][k] \in Nat /\ shipped'[x][k] \in Nat
                                    /\ shipped[x][k] <= shipped'[x][k]
  BY <1>2, <1>3 DEF ReturnInv, Tables
<1>6. ASSUME NEW t \in Tasks PROVE TaskShape(t)'
  <2>1. TaskShape(t) /\ \A k \in Lots : task[t].expected[k] \in Nat
    BY TaskIs DEF TaskRow
  <2>2. ASSUME task[t].st # "NONE", NEW k \in Lots
        PROVE  task[t].expected[k] <= shipped'[task[t].o][k]
    <3>1. PICK x \in Orders : x = task[t].o
      BY <2>1, <2>2 DEF TaskShape
    <3>2. task[t].expected[k] <= shipped[x][k] /\ task[t].expected[k] \in Nat
      BY <2>1, <2>2, <3>1 DEF TaskShape
    <3>3. task[t].expected[k] <= shipped'[x][k]
      BY <1>5, <3>2
    <3> QED BY <3>1, <3>3
  <2> QED BY <1>1, <2>1, <2>2 DEF TaskShape
<1>7. ASSUME NEW q \in Requests PROVE RequestShape(q)'
  <2>1. \A k \in Lots : req[q].move[k] # 0 => stock'[k] = stock[k]
    BY <1>1, <1>3 DEF Free
  <2> QED BY <1>1, <2>1 DEF ReturnInv, RequestShape
<1>8. OwnTask' /\ OwnLots'
  BY <1>1 DEF ReturnInv, OwnTask, OwnLots
<1>9. Books'
  <2>1. \A x \in Orders, k \in Lots : BackFor(x, k)' = BackFor(x, k)
    BY <1>1 DEF BackFor, ReturnedOf, TasksOf
  <2>2. \A x \in Orders, k \in Lots : returned'[x][k] = BackFor(x, k)'
    BY <1>1, <2>1 DEF ReturnInv, Books
  <2>3. ASSUME NEW k \in Lots PROVE stock'[k] = Stock0 + Moved(k)'
    <3>1. stock[k] = Stock0 + Moved(k) /\ Stock0 \in Nat /\ stock[k] \in Nat
      BY ReturnAssumption DEF ReturnInv, Books, Tables
    <3>2. CASE k # l
      <4>1. \A x \in Orders : /\ returned'[x][k] = returned[x][k]
                              /\ shipped'[x][k] = shipped[x][k]
        BY <1>1, <1>2, <1>3, <3>2
      <4>2. Moved(k)' = Moved(k)
        BY <4>1, MovedStays
      <4> QED BY <1>3, <3>1, <3>2, <4>2
    <3>3. CASE k = l
      <4>1. returned[o][k] \in Nat /\ shipped[o][k] \in Nat
        BY DEF ReturnInv, Tables
      <4>2. returned'[o][k] - shipped'[o][k] = (returned[o][k] - shipped[o][k]) + (-1)
        <5>1. returned'[o][k] = returned[o][k] /\ shipped'[o][k] = shipped[o][k] + 1
          BY <1>1, <1>2, <1>3, <3>3
        <5>2. \A a, b \in Nat : a - (b + 1) = (a - b) + (-1)
          OBVIOUS
        <5>3. returned[o][k] - (shipped[o][k] + 1) = (returned[o][k] - shipped[o][k]) + (-1)
          BY <4>1, <5>2
        <5> QED BY <5>1, <5>3, Zenon
      <4>3. \A x \in Orders \ {o} : /\ returned'[x][k] = returned[x][k]
                                    /\ shipped'[x][k] = shipped[x][k]
        BY <1>1, <1>3
      <4>4. Moved(k)' = Moved(k) + (-1) /\ Moved(k) \in Int
        BY <1>4, <4>2, <4>3, MovedChanges
      <4> QED BY <1>3, <3>1, <3>3, <4>4
    <3> QED BY <3>2, <3>3
  <2> QED BY <2>2, <2>3 DEF Books
<1> QED BY <1>4, <1>6, <1>7, <1>8, <1>9 DEF ReturnInv

-----------------------------------------------------------------------------
(* A request that waits to create a task has none, and moves nothing.      *)
LEMMA CreateLookKeeps ==
  ASSUME ReturnInv, NEW p \in Requests, NEW o \in Orders, CreateLook(p, o)
  PROVE  ReturnInv'
<1> DEFINE row == [pc |-> "create", o |-> o, t |-> None, move |-> Nothing, snap |-> Nothing]
<1>1. req' = [req EXCEPT ![p] = row] /\ UNCHANGED <<stock, shipped, returned, task, snap>>
  BY DEF CreateLook
<1>2. row \in RequestRow
  BY RowsAre DEF RequestRow
<1>3. /\ row.pc = "create" /\ row.o = o /\ row.t = None /\ row.move = Nothing
      /\ \A l \in Lots : row.move[l] = 0
  BY RowsAre
<1> HIDE DEF row
<1>4. row.pc \notin InFlight /\ row.pc \notin {"verify", "commit"}
  BY <1>3 DEF InFlight
<1> QED BY <1>1, <1>2, <1>3, <1>4, RequestMoves

(* A request that fails gives up its task and its lots.                    *)
LEMMA FailKeeps ==
  ASSUME ReturnInv, NEW p \in Requests, Fail(p)
  PROVE  ReturnInv'
<1>1. req' = [req EXCEPT ![p] = Idle] /\ UNCHANGED <<stock, shipped, returned, task, snap>>
  BY DEF Fail
<1>2. Idle.pc \notin InFlight /\ Idle.pc \notin {"verify", "commit", "create"}
  BY RowsAre DEF InFlight
<1>3. \A l \in Lots : Idle.move[l] = 0
  BY RowsAre
<1> QED BY <1>1, <1>2, <1>3, RowsAre, RequestMoves

(* A commit takes its task, and the lots the task has received.            *)
LEMMA MoveKeeps ==
  ASSUME ReturnInv, NEW p \in Requests, NEW t \in Tasks, Move(p, t)
  PROVE  ReturnInv'
<1> DEFINE pc  == IF task[t].picked = Nothing THEN "commit" ELSE "delete"
           row == Committing(pc, t, task[t].picked, Nothing)
<1>1. /\ req' = [req EXCEPT ![p] = row] /\ UNCHANGED <<stock, shipped, returned, task, snap>>
      /\ TaskFree(t) /\ task[t].st = "OPEN"
      /\ \A l \in Lots : task[t].picked[l] > 0 => Free(l)
  BY DEF Move, Committable
<1>2. task[t].picked \in [Lots -> Nat]
  BY TaskIs DEF TaskRow
<1>3. pc \in {"commit", "delete"} /\ (pc = "commit" => task[t].picked = Nothing)
  OBVIOUS
<1> HIDE DEF pc
<1>4. row \in RequestRow /\ row.pc = pc /\ row.t = t /\ row.move = task[t].picked
  BY <1>2, <1>3, RowsAre DEF RequestRow, InFlight, Committing
<1> HIDE DEF row
<1>5. row.pc \notin {"idle", "create"}
  BY <1>3, <1>4
<1>6. row.pc \in {"verify", "commit"} => \A l \in Lots : row.move[l] = 0
  BY <1>3, <1>4, RowsAre
<1>7. \A l \in Lots : row.move[l] = 0 \/ Free(l)
  BY <1>1, <1>2, <1>4
<1> QED BY <1>1, <1>4, <1>5, <1>6, <1>7, RequestMoves

(* The rebuild goes on with the task and the lots the commit has.          *)
LEMMA GoesOn ==
  ASSUME ReturnInv, UNCHANGED <<stock, shipped, returned, task, snap>>,
         NEW p \in Requests, NEW row \in RequestRow, req' = [req EXCEPT ![p] = row],
         req[p].pc \in InFlight, row.pc \in InFlight,
         row.t = req[p].t, row.move = req[p].move,
         row.pc \in {"verify", "commit"} =>
           \A l \in Lots : row.move[l] # 0 => row.snap[l] = stock[l] + row.move[l]
  PROVE  ReturnInv'
<1>1. /\ req[p].t \in Tasks /\ task[req[p].t].st = "OPEN"
      /\ req[p].move = task[req[p].t].picked
  BY RequestIs DEF RequestShape
<1>2. row.pc \notin {"idle", "create"}
  BY DEF InFlight
<1> QED BY <1>1, <1>2, RequestMoves

LEMMA DeleteKeeps ==
  ASSUME ReturnInv, NEW p \in Requests, SnapshotDelete(p)
  PROVE  ReturnInv'
<1> DEFINE row == [req[p] EXCEPT !.pc = "insert"]
<1>1. /\ req' = [req EXCEPT ![p] = row] /\ req[p].pc = "delete"
      /\ UNCHANGED <<stock, shipped, returned, task, snap>>
  BY DEF SnapshotDelete
<1>2. /\ row \in RequestRow /\ row.pc = "insert"
      /\ row.t = req[p].t /\ row.move = req[p].move
  BY RequestIs DEF RequestRow, InFlight
<1> HIDE DEF row
<1>3. req[p].pc \in InFlight /\ row.pc \in InFlight /\ row.pc \notin {"verify", "commit"}
  BY <1>1, <1>2 DEF InFlight
<1> QED BY <1>1, <1>2, <1>3, GoesOn

LEMMA InsertKeeps ==
  ASSUME ReturnInv, NEW p \in Requests, SnapshotInsert(p)
  PROVE  ReturnInv'
<1> DEFINE row == Committing("verify", req[p].t, req[p].move, SnapshotRows(p))
<1>1. /\ req' = [req EXCEPT ![p] = row] /\ req[p].pc = "insert"
      /\ UNCHANGED <<stock, shipped, returned, task, snap>>
  BY DEF SnapshotInsert
<1>2. /\ SnapshotRows(p) \in [Lots -> Nat]
      /\ \A l \in Lots : SnapshotRows(p)[l] = stock[l] + req[p].move[l]
  BY RequestIs DEF ReturnInv, Tables, SnapshotRows, Seen, Plus
<1>3. req[p].t \in Tasks \cup {None} /\ req[p].move \in [Lots -> Nat]
  BY RequestIs DEF RequestRow
<1>4. /\ row \in RequestRow /\ row.pc = "verify" /\ row.snap = SnapshotRows(p)
      /\ row.t = req[p].t /\ row.move = req[p].move
  BY <1>2, <1>3 DEF RequestRow, InFlight, Committing
<1> HIDE DEF row
<1>5. req[p].pc \in InFlight /\ row.pc \in InFlight
  BY <1>1, <1>4 DEF InFlight
<1>6. \A l \in Lots : row.snap[l] = stock[l] + row.move[l]
  BY <1>2, <1>4
<1> QED BY <1>1, <1>4, <1>5, <1>6, GoesOn

LEMMA VerifyKeeps ==
  ASSUME ReturnInv, NEW p \in Requests, Verify(p)
  PROVE  ReturnInv'
<1> DEFINE row == [req[p] EXCEPT !.pc = "commit"]
<1>1. /\ req' = [req EXCEPT ![p] = row] /\ req[p].pc = "verify"
      /\ UNCHANGED <<stock, shipped, returned, task, snap>>
  BY DEF Verify
<1>2. /\ row \in RequestRow /\ row.pc = "commit" /\ row.snap = req[p].snap
      /\ row.t = req[p].t /\ row.move = req[p].move
  BY RequestIs DEF RequestRow, InFlight
<1> HIDE DEF row
<1>3. req[p].pc \in InFlight /\ row.pc \in InFlight
  BY <1>1, <1>2 DEF InFlight
<1>4. \A l \in Lots : row.move[l] # 0 => row.snap[l] = stock[l] + row.move[l]
  BY <1>1, <1>2, RequestIs DEF RequestShape
<1> QED BY <1>1, <1>2, <1>3, <1>4, GoesOn

(* A task expects what its order has shipped so far.                       *)
LEMMA CreateKeeps ==
  ASSUME ReturnInv, NEW p \in Requests, NEW t \in Tasks, CreateInsert(p, t)
  PROVE  ReturnInv'
<1>1. /\ req[p].pc = "create" /\ task[t] = NoTask /\ req' = [req EXCEPT ![p] = Idle]
      /\ task' = [task EXCEPT ![t] = [st |-> "OPEN", o |-> req[p].o,
                                      expected |-> Expected(req[p].o), picked |-> Nothing]]
      /\ UNCHANGED <<stock, shipped, returned, snap>>
  BY DEF CreateInsert
<1>2. PICK o \in Orders : o = req[p].o
  BY <1>1, RequestIs DEF RequestShape
<1> DEFINE row == [st |-> "OPEN", o |-> o, expected |-> shipped[o], picked |-> Nothing]
<1>3. task' = [task EXCEPT ![t] = row]
  BY <1>1, <1>2 DEF Expected
<1>4. shipped[o] \in [Lots -> Nat]
  BY DEF ReturnInv, Tables
<1>5. /\ row \in TaskRow /\ row.st = "OPEN" /\ row.o = o
      /\ row.expected = shipped[o] /\ row.picked = Nothing
  BY <1>4, RowsAre DEF TaskRow
<1> HIDE DEF row
<1>6. \A l \in Lots : row.expected[l] <= shipped[row.o][l] /\ row.picked[l] <= row.expected[l]
  BY <1>4, <1>5, RowsAre
<1>7. task[t].st = "NONE"
  BY <1>1 DEF NoTask
<1>8. /\ req' \in [Requests -> RequestRow] /\ req'[p] = Idle
      /\ \A q \in Requests \ {p} : req'[q] = req[q]
  BY <1>1, RowsAre DEF ReturnInv, Tables
<1>9. ASSUME NEW q \in Requests PROVE req'[q].t # t
  <2>1. CASE q = p
    BY <1>8, <2>1, RowsAre, ReturnAssumption
  <2>2. CASE q # p
    BY <1>7, <1>8, <2>2, RequestIs, ReturnAssumption DEF RequestShape, RequestRow
  <2> QED BY <2>1, <2>2
<1>10. \A q \in Requests : req'[q] = req[q] \/ req'[q] = Idle
  BY <1>8
<1>11. UNCHANGED <<stock, shipped, returned, snap>> /\ row.o \in Orders
  BY <1>1, <1>5
<1> QED BY <1>3, <1>5, <1>6, <1>7, <1>8, <1>9, <1>10, <1>11, TaskChanges

(* A receipt, or its correction, is within what the task expects.          *)
LEMMA ReceiveKeeps ==
  ASSUME ReturnInv, NEW t \in Tasks, NEW l \in Lots, NEW qty \in {-1, 1}, Receive(t, l, qty)
  PROVE  ReturnInv'
<1> DEFINE got == [task[t].picked EXCEPT ![l] = task[t].picked[l] + qty]
           row == [task[t] EXCEPT !.picked = got]
<1>1. /\ TaskFree(t) /\ task[t].st = "OPEN"
      /\ task[t].picked[l] + qty \in 0..task[t].expected[l]
      /\ UNCHANGED <<stock, shipped, returned, snap, req>>
  BY DEF Receive, Receivable
<1>2. task' = [task EXCEPT ![t] = row]
  BY DEF Receive
<1>3. task[t] \in TaskRow /\ TaskShape(t) /\ task[t].picked \in [Lots -> Nat]
      /\ task[t].expected \in [Lots -> Nat]
  BY TaskIs DEF TaskRow
<1>4. task[t].picked[l] + qty \in Nat /\ task[t].picked[l] + qty <= task[t].expected[l]
  BY <1>1, <1>3
<1>5. got \in [Lots -> Nat] /\ \A k \in Lots : got[k] <= task[t].expected[k]
  BY <1>3, <1>4 DEF TaskShape
<1> HIDE DEF got
<1>6. /\ row \in TaskRow /\ row.st = "OPEN" /\ row.o = task[t].o
      /\ row.expected = task[t].expected /\ row.picked = got
  BY <1>1, <1>3, <1>5 DEF TaskRow
<1> HIDE DEF row
<1>7. row.o \in Orders
  BY <1>1, <1>3, <1>6 DEF TaskShape
<1>8. \A k \in Lots : row.expected[k] <= shipped[row.o][k] /\ row.picked[k] <= row.expected[k]
  BY <1>1, <1>3, <1>5, <1>6 DEF TaskShape
<1>9. req' \in [Requests -> RequestRow] /\ \A q \in Requests : req'[q] = req[q]
  BY <1>1 DEF ReturnInv, Tables
<1>10. \A q \in Requests : req'[q] = req[q] \/ req'[q] = Idle
  BY <1>9
<1>11. \A q \in Requests : req'[q].t # t
  BY <1>1, <1>9 DEF TaskFree
<1>12. UNCHANGED <<stock, shipped, returned, snap>> /\ task[t].st # "COMMITTED"
  BY <1>1
<1>13. row \in TaskRow /\ row.st = "OPEN"
  BY <1>6
<1>14. req' \in [Requests -> RequestRow]
  BY <1>9
<1> QED BY <1>2, <1>7, <1>8, <1>10, <1>11, <1>12, <1>13, <1>14, TaskChanges

-----------------------------------------------------------------------------
(* What the commit of a request writes.                                    *)
LEMMA CommitWrites ==
  ASSUME ReturnInv, NEW p \in Requests, Commit(p),
         NEW t, t = req[p].t, NEW o, o = task[t].o, NEW move, move = req[p].move
  PROVE  /\ t \in Tasks /\ o \in Orders /\ move \in [Lots -> Nat]
         /\ task[t].st = "OPEN" /\ move = task[t].picked
         /\ stock' \in [Lots -> Nat] /\ \A l \in Lots : stock'[l] = stock[l] + move[l]
         /\ returned' \in [Orders -> [Lots -> Nat]]
         /\ \A l \in Lots : returned'[o][l] = returned[o][l] + move[l]
         /\ \A x \in Orders \ {o} : returned'[x] = returned[x]
         /\ task' \in [Tasks -> TaskRow] /\ task'[t].st = "COMMITTED"
         /\ task'[t].o = o /\ task'[t].expected = task[t].expected
         /\ task'[t].picked = task[t].picked
         /\ \A x \in Tasks \ {t} : task'[x] = task[x]
         /\ req' \in [Requests -> RequestRow] /\ req'[p] = Idle
         /\ \A q \in Requests : req'[q] = Idle \/ req'[q] = req[q]
         /\ shipped' = shipped
         /\ snap' = (IF move # Nothing THEN req[p].snap ELSE snap)
<1>1. /\ req[p].pc = "commit" /\ shipped' = shipped /\ stock' = Balances(p)
      /\ returned' = [returned EXCEPT ![o] = Plus(@, move)]
      /\ task' = [task EXCEPT ![t] = [@ EXCEPT !.st = "COMMITTED"]]
      /\ snap' = (IF move # Nothing THEN req[p].snap ELSE snap)
      /\ req' = [q \in Requests |->
                   IF q = p \/ (move # Nothing /\ req[q].pc = "insert") THEN Idle ELSE req[q]]
  BY DEF Commit
<1>2. t \in Tasks /\ task[t].st = "OPEN" /\ move = task[t].picked /\ move \in [Lots -> Nat]
  BY <1>1, RequestIs DEF RequestShape, RequestRow, InFlight
<1>3. o \in Orders
  BY <1>2, TaskIs DEF TaskShape
<1>4. stock' \in [Lots -> Nat] /\ \A l \in Lots : stock'[l] = stock[l] + move[l]
  BY <1>1, <1>2 DEF ReturnInv, Tables, Balances, Seen, Plus
<1> DEFINE row == [task[t] EXCEPT !.st = "COMMITTED"]
           back == Plus(returned[o], move)
<1>5. /\ row \in TaskRow /\ row.st = "COMMITTED" /\ row.o = o
      /\ row.expected = task[t].expected /\ row.picked = task[t].picked
  BY <1>2, TaskIs DEF TaskRow
<1>6. back \in [Lots -> Nat] /\ \A l \in Lots : back[l] = returned[o][l] + move[l]
  BY <1>2, <1>3 DEF ReturnInv, Tables, Plus
<1>7. task' = [task EXCEPT ![t] = row] /\ returned' = [returned EXCEPT ![o] = back]
  BY <1>1
<1> HIDE DEF row, back
<1>8. /\ task' \in [Tasks -> TaskRow] /\ task'[t] = row
      /\ \A x \in Tasks \ {t} : task'[x] = task[x]
  BY <1>2, <1>5, <1>7 DEF ReturnInv, Tables
<1>9. /\ returned' \in [Orders -> [Lots -> Nat]] /\ returned'[o] = back
      /\ \A x \in Orders \ {o} : returned'[x] = returned[x]
  BY <1>3, <1>6, <1>7 DEF ReturnInv, Tables
<1>10. /\ req' \in [Requests -> RequestRow] /\ req'[p] = Idle
       /\ \A q \in Requests : req'[q] = Idle \/ req'[q] = req[q]
  BY <1>1, RowsAre DEF ReturnInv, Tables
<1> QED BY <1>1, <1>2, <1>3, <1>4, <1>5, <1>6, <1>8, <1>9, <1>10

(* The books after a task's pieces came back.                              *)
LEMMA CommitBooks ==
  ASSUME ReturnInv, Tables', NEW t \in Tasks, NEW o \in Orders, o = task[t].o,
         task[t].st = "OPEN",
         \A l \in Lots : /\ stock'[l] = stock[l] + task[t].picked[l]
                         /\ returned'[o][l] = returned[o][l] + task[t].picked[l],
         \A x \in Orders \ {o} : returned'[x] = returned[x],
         task'[t].st = "COMMITTED", task'[t].o = o, task'[t].picked = task[t].picked,
         \A x \in Tasks \ {t} : task'[x] = task[x],
         shipped' = shipped
  PROVE  Books'
<1>1. ASSUME NEW x \in Orders, NEW l \in Lots PROVE returned'[x][l] = BackFor(x, l)'
  <2> DEFINE R == ReturnedOf(x)
             q == [k \in Tasks |-> task[k].picked[l]]
             r == [k \in Tasks |-> task'[k].picked[l]]
  <2>1. R \subseteq Tasks /\ IsFiniteSet(R) /\ t \notin R
    BY ReturnAssumption, FS_Subset DEF ReturnedOf, TasksOf
  <2>2. ReturnedOf(x)' = IF x = o THEN R \cup {t} ELSE R
    BY DEF ReturnedOf, TasksOf
  <2>3. \A k \in R : q[k] = r[k]
    BY <2>1
  <2>4. \A k \in Tasks : r[k] \in Int
    BY DEF Tables, TaskRow
  <2>5. r[t] = task[t].picked[l] /\ r[t] \in Nat
    BY TaskIs
  <2>6. BackFor(x, l) = SumOf(q, R) /\ BackFor(x, l)' = SumOf(r, ReturnedOf(x)')
    BY DEF BackFor
  <2>7. returned[x][l] = BackFor(x, l) /\ returned[x][l] \in Nat
    BY DEF ReturnInv, Books, Tables
  <2> HIDE DEF R, q, r
  <2>8. CASE x = o
    <3> DEFINE U == R \cup {t}
    <3>1. U = R \cup {t} /\ \A k \in U : r[k] \in Int
      BY <2>1, <2>4
    <3> HIDE DEF U
    <3>4. SumOf(r, U) = SumOf(q, R) + r[t]
      <4>1. \A k \in U : r[k] \in Int
        BY <3>1
      <4>2. IsFiniteSet(U) /\ t \in U /\ U \ {t} = R
        BY <2>1, <3>1, FS_AddElement
      <4>3. SumOf(r, U) = r[t] + SumOf(r, U \ {t})
        <5>1. ASSUME NEW S, IsFiniteSet(S), t \in S, NEW f, \A k \in S : f[k] \in Int
              PROVE  SumOf(f, S) = f[t] + SumOf(f, S \ {t})
          BY <5>1, SumRemove
        <5> QED BY <4>1, <4>2, <5>1, Zenon
      <4>4. SumOf(q, R) = SumOf(r, R) /\ SumOf(r, R) \in Int
        BY <2>1, <2>3, <3>1, SumAgree, SumType
      <4>5. SumOf(r, U) = r[t] + SumOf(q, R)
        BY <4>2, <4>3, <4>4, Zenon
      <4> QED BY <2>5, <4>4, <4>5
    <3>2. ReturnedOf(x)' = R \cup {t}
      BY <2>2, <2>8
    <3>3. BackFor(x, l)' = SumOf(q, R) + r[t]
      BY <2>6, <3>1, <3>2, <3>4, Zenon
    <3> QED BY <2>5, <2>6, <2>7, <2>8, <3>3
  <2>9. CASE x # o
    <3>1. SumOf(q, R) = SumOf(r, R)
      BY <2>1, <2>3, SumAgree
    <3>2. ReturnedOf(x)' = R
      BY <2>2, <2>9
    <3>3. BackFor(x, l)' = SumOf(q, R)
      BY <2>6, <3>1, <3>2, Zenon
    <3> QED BY <2>6, <2>7, <2>9, <3>3
  <2> QED BY <2>8, <2>9
<1>2. ASSUME NEW l \in Lots PROVE stock'[l] = Stock0 + Moved(l)'
  <2>1. /\ task[t].picked[l] \in Nat /\ stock[l] \in Nat /\ Stock0 \in Nat
        /\ returned[o][l] \in Nat /\ shipped[o][l] \in Nat
    BY TaskIs, ReturnAssumption DEF ReturnInv, Tables
  <2>2. \A a, b, c \in Nat : (a + c) - b = (a - b) + c
    OBVIOUS
  <2>3. (returned[o][l] + task[t].picked[l]) - shipped[o][l]
          = (returned[o][l] - shipped[o][l]) + task[t].picked[l]
    BY <2>1, <2>2
  <2>4. returned'[o][l] - shipped'[o][l] = (returned[o][l] - shipped[o][l]) + task[t].picked[l]
    BY <2>3, Zenon
  <2>5. \A x \in Orders \ {o} : /\ returned'[x][l] = returned[x][l]
                                /\ shipped'[x][l] = shipped[x][l]
    OBVIOUS
  <2>6. task[t].picked[l] \in Int
    BY <2>1
  <2>7. Moved(l)' = Moved(l) + task[t].picked[l] /\ Moved(l) \in Int
    BY <2>4, <2>5, <2>6, MovedChanges
  <2>8. stock[l] = Stock0 + Moved(l)
    BY DEF ReturnInv, Books
  <2>9. stock'[l] = stock[l] + task[t].picked[l]
    OBVIOUS
  <2> QED BY <2>1, <2>7, <2>8, <2>9
<1> QED BY <1>1, <1>2 DEF Books

(* A commit returns its task's pieces; the others keep their tasks and     *)
(* lots, or fail.                                                          *)
LEMMA CommitKeeps ==
  ASSUME ReturnInv, NEW p \in Requests, Commit(p)
  PROVE  ReturnInv'
<1>1. PICK t : t = req[p].t
  OBVIOUS
<1>2. PICK o : o = task[t].o
  OBVIOUS
<1>3. PICK move : move = req[p].move
  OBVIOUS
<1>4. /\ t \in Tasks /\ o \in Orders /\ move \in [Lots -> Nat]
      /\ task[t].st = "OPEN" /\ move = task[t].picked
  BY <1>1, <1>2, <1>3, CommitWrites
<1>5. /\ stock' \in [Lots -> Nat] /\ \A l \in Lots : stock'[l] = stock[l] + move[l]
      /\ returned' \in [Orders -> [Lots -> Nat]]
      /\ \A l \in Lots : returned'[o][l] = returned[o][l] + move[l]
      /\ \A x \in Orders \ {o} : returned'[x] = returned[x]
      /\ shipped' = shipped
      /\ snap' = (IF move # Nothing THEN req[p].snap ELSE snap)
  BY <1>1, <1>2, <1>3, CommitWrites
<1>6. /\ task' \in [Tasks -> TaskRow] /\ task'[t].st = "COMMITTED"
      /\ task'[t].o = o /\ task'[t].expected = task[t].expected
      /\ task'[t].picked = task[t].picked
      /\ \A x \in Tasks \ {t} : task'[x] = task[x]
  BY <1>1, <1>2, <1>3, CommitWrites
<1>7. /\ req' \in [Requests -> RequestRow] /\ req'[p] = Idle
      /\ \A q \in Requests : req'[q] = Idle \/ req'[q] = req[q]
  BY <1>1, <1>2, <1>3, CommitWrites
<1>8. Tables'
  <2>1. req[p].snap \in [Lots -> Nat]
    BY RequestIs DEF RequestRow
  <2>2. snap' \in [Lots -> Nat \cup {-1}]
    BY <1>5, <2>1 DEF ReturnInv, Tables
  <2> QED BY <1>5, <1>6, <1>7, <2>2 DEF ReturnInv, Tables
<1>9. ASSUME NEW x \in Tasks PROVE TaskShape(x)'
  <2>1. CASE x = t
    <3>1. TaskShape(t) /\ task[t].st # "NONE"
      BY <1>4, TaskIs
    <3> QED BY <1>2, <1>4, <1>5, <1>6, <2>1, <3>1 DEF TaskShape
  <2>2. CASE x # t
    BY <1>5, <1>6, <2>2 DEF ReturnInv, TaskShape
  <2> QED BY <2>1, <2>2
<1>10. ASSUME NEW q \in Requests PROVE RequestShape(q)'
  <2>1. CASE req'[q] = Idle
    BY <2>1, RowsAre DEF RequestShape, InFlight
  <2>2. CASE req'[q] # Idle
    <3>1. q # p /\ req'[q] = req[q]
      BY <1>7, <2>2
    <3>2. req[q].t # t /\ \A l \in Lots : move[l] = 0 \/ req[q].move[l] = 0
      <4>1. req[p].t = t /\ t # None /\ q \in Requests \ {p}
        BY <1>1, <1>4, <3>1, ReturnAssumption
      <4>2. req[q].t # t
        BY <4>1 DEF ReturnInv, OwnTask
      <4>3. \A l \in Lots : req[p].move[l] = 0 \/ req[q].move[l] = 0
        BY <4>1 DEF ReturnInv, OwnLots
      <4> QED BY <1>3, <4>2, <4>3
    <3>3. \A l \in Lots : req[q].move[l] # 0 => stock'[l] = stock[l]
      BY <1>5, <3>2 DEF ReturnInv, Tables
    <3>4. RequestShape(q) /\ req[q] \in RequestRow
      BY RequestIs
    <3>5. req[q].t \in Tasks => task'[req[q].t] = task[req[q].t]
      BY <1>6, <3>2
    <3> QED BY <3>1, <3>3, <3>4, <3>5 DEF RequestShape
  <2> QED BY <2>1, <2>2
<1>11. OwnTask'
  BY <1>7, RowsAre DEF ReturnInv, OwnTask
<1>12. OwnLots'
  BY <1>7, RowsAre DEF ReturnInv, OwnLots
<1>13. Books'
  <2>1. \A l \in Lots : /\ stock'[l] = stock[l] + task[t].picked[l]
                        /\ returned'[o][l] = returned[o][l] + task[t].picked[l]
    BY <1>4, <1>5
  <2> QED BY <1>2, <1>4, <1>5, <1>6, <1>8, <2>1, CommitBooks
<1> QED BY <1>8, <1>9, <1>10, <1>11, <1>12, <1>13 DEF ReturnInv

-----------------------------------------------------------------------------
(* At first nothing was shipped, and nothing came back.                    *)
LEMMA InitInv == Init => ReturnInv
<1> SUFFICES ASSUME Init PROVE ReturnInv
  OBVIOUS
<1>1. NoTask \in TaskRow /\ NoTask.st = "NONE" /\ NoTask.picked = Nothing
      /\ NoTask.expected = Nothing
  BY RowsAre DEF NoTask, TaskRow
<1>2. /\ \A l \in Lots : stock[l] = Stock0
      /\ \A o \in Orders, l \in Lots : shipped[o][l] = 0 /\ returned[o][l] = 0
      /\ \A t \in Tasks : task[t] = NoTask
      /\ \A p \in Requests : req[p] = Idle
  BY RowsAre DEF Init
<1>3. Tables
  <2>1. stock \in [Lots -> Nat] /\ snap \in [Lots -> Nat \cup {-1}]
    BY ReturnAssumption DEF Init
  <2>2. shipped \in [Orders -> [Lots -> Nat]] /\ returned \in [Orders -> [Lots -> Nat]]
    BY RowsAre DEF Init
  <2>3. task \in [Tasks -> TaskRow] /\ req \in [Requests -> RequestRow]
    BY <1>1, RowsAre DEF Init
  <2> QED BY <2>1, <2>2, <2>3 DEF Tables
<1>4. \A t \in Tasks : TaskShape(t)
  BY <1>1, <1>2, RowsAre DEF TaskShape
<1>5. \A p \in Requests : RequestShape(p)
  BY <1>2, RowsAre DEF RequestShape, InFlight
<1>6. OwnTask /\ OwnLots
  BY <1>2, RowsAre DEF OwnTask, OwnLots
<1>7. Books
  <2>1. ASSUME NEW o \in Orders, NEW l \in Lots PROVE returned[o][l] = BackFor(o, l)
    <3>1. ReturnedOf(o) = {}
      BY <1>1, <1>2 DEF ReturnedOf, TasksOf
    <3>2. BackFor(o, l) = 0
      BY <3>1, SumEmpty DEF BackFor
    <3> QED BY <1>2, <3>2
  <2>2. ASSUME NEW l \in Lots PROVE stock[l] = Stock0 + Moved(l)
    <3> DEFINE q == [o \in Orders |-> returned[o][l] - shipped[o][l]]
    <3>1. \A o \in Orders : q[o] = 0
      BY <1>2
    <3>2. Moved(l) = SumOf(q, Orders)
      BY DEF Moved
    <3> HIDE DEF q
    <3>3. SumOf(q, Orders) = 0
      BY <3>1, ReturnAssumption, SumZero
    <3> QED BY <1>2, <3>2, <3>3, ReturnAssumption
  <2> QED BY <2>1, <2>2 DEF Books
<1> QED BY <1>3, <1>4, <1>5, <1>6, <1>7 DEF ReturnInv

(* Every step of the system keeps the invariant.                           *)
LEMMA StepInv == ReturnInv /\ [Next]_vars => ReturnInv'
<1> SUFFICES ASSUME ReturnInv, [Next]_vars PROVE ReturnInv'
  OBVIOUS
<1>1. CASE UNCHANGED vars
  BY <1>1 DEF vars, ReturnInv, Tables, TaskShape, RequestShape, OwnTask, OwnLots,
              Books, BackFor, Moved, ReturnedOf, TasksOf
<1>2. CASE \E o \in Orders, l \in Lots : Ship(o, l)
  BY <1>2, ShipKeeps
<1>3. CASE \E p \in Requests, o \in Orders : CreateLook(p, o)
  BY <1>3, CreateLookKeeps
<1>4. CASE \E p \in Requests, t \in Tasks : CreateInsert(p, t) \/ Move(p, t)
  BY <1>4, CreateKeeps, MoveKeeps
<1>5. CASE \E t \in Tasks, l \in Lots, qty \in {-1, 1} : Receive(t, l, qty)
  BY <1>5, ReceiveKeeps
<1>6. ASSUME NEW p \in Requests,
             \/ SnapshotDelete(p) \/ SnapshotInsert(p) \/ Verify(p)
             \/ Commit(p) \/ Fail(p)
      PROVE  ReturnInv'
  BY <1>6, DeleteKeeps, InsertKeeps, VerifyKeeps, CommitKeeps, FailKeeps
<1> QED BY <1>1, <1>2, <1>3, <1>4, <1>5, <1>6 DEF Next

LEMMA ReturnInvHolds == Spec => []ReturnInv
<1> QED BY InitInv, StepInv, PTL DEF Spec

-----------------------------------------------------------------------------
(* A task of any number of tasks is returned to stock once, with what it   *)
(* received last, whoever commits it, whatever fails in between, and stock *)
(* is what was there, less what was shipped, plus what came back.          *)
THEOREM ReturnsAreOnce == Spec => []ReturnedOnce
<1>1. ASSUME ReturnInv PROVE ReturnedOnce
  <2>1. TypeOK
    <3>1. ASSUME NEW t \in Tasks
          PROVE  /\ task[t].st \in {"NONE", "OPEN", "COMMITTED"}
                 /\ \A l \in Lots : task[t].picked[l] \in 0..task[t].expected[l]
      BY <1>1, TaskIs DEF TaskShape, TaskRow
    <3>2. ASSUME NEW p \in Requests
          PROVE  req[p].pc \in {"idle", "create", "delete", "insert", "verify", "commit"}
      BY <1>1, RequestIs DEF RequestRow, InFlight
    <3> QED BY <1>1, <3>1, <3>2 DEF ReturnInv, Tables, TypeOK
  <2>2. \A o \in Orders, l \in Lots :
          returned[o][l] = SumOf([t \in Tasks |-> task[t].picked[l]], ReturnedOf(o))
    BY <1>1 DEF ReturnInv, Books, BackFor
  <2>3. \A l \in Lots :
          stock[l] = Stock0 + SumOf([o \in Orders |-> returned[o][l] - shipped[o][l]], Orders)
    BY <1>1 DEF ReturnInv, Books, Moved
  <2> QED BY <2>1, <2>2, <2>3 DEF ReturnedOnce
<1> QED BY <1>1, ReturnInvHolds, PTL

(* An order with one task does not get back more of a lot than it shipped, *)
(* whatever it ships, and whatever is corrected, while the task is open.   *)
THEOREM NotMoreThanShipped == Spec => []NoOverReturn
<1>1. ASSUME ReturnInv PROVE NoOverReturn
  <2> SUFFICES ASSUME NEW o \in Orders, Cardinality(TasksOf(o)) <= 1, NEW l \in Lots
               PROVE  returned[o][l] <= shipped[o][l]
    BY DEF NoOverReturn
  <2> DEFINE q == [t \in Tasks |-> task[t].picked[l]]
  <2>1. returned[o][l] = SumOf(q, ReturnedOf(o)) /\ shipped[o][l] \in Nat
    BY <1>1 DEF ReturnInv, Books, BackFor, Tables
  <2>2. \A t \in Tasks : q[t] = task[t].picked[l] /\ q[t] \in Nat
    BY <1>1, TaskIs
  <2> HIDE DEF q
  <2>3. CASE ReturnedOf(o) = {}
    BY <2>1, <2>3, SumEmpty
  <2>4. ASSUME NEW t \in ReturnedOf(o) PROVE returned[o][l] <= shipped[o][l]
    <3>1. t \in TasksOf(o) /\ t \in Tasks /\ task[t].o = o /\ task[t].st = "COMMITTED"
      BY DEF ReturnedOf, TasksOf
    <3>2. IsFiniteSet(TasksOf(o))
      BY ReturnAssumption, FS_Subset DEF TasksOf
    <3>3. Cardinality(TasksOf(o)) = 1
      BY <3>1, <3>2, FS_CardinalityType, FS_EmptySet
    <3>4. TasksOf(o) = {t}
      BY <3>1, <3>2, <3>3, FS_Singleton
    <3>5. ReturnedOf(o) = {t} /\ IsFiniteSet({t})
      BY <3>2, <3>4 DEF ReturnedOf
    <3>6. PICK S : S = {t}
      OBVIOUS
    <3>7. IsFiniteSet(S) /\ t \in S /\ S \ {t} = {} /\ \A x \in S : q[x] \in Int
      BY <2>2, <3>1, <3>5, <3>6
    <3>8. SumOf(q, S) = q[t] + SumOf(q, S \ {t})
      BY <3>7, SumRemove
    <3>9. SumOf(q, S \ {t}) = 0
      BY <3>7, SumEmpty
    <3>10. returned[o][l] = task[t].picked[l]
      BY <2>1, <2>2, <3>1, <3>5, <3>6, <3>8, <3>9
    <3>11. /\ task[t].picked[l] <= task[t].expected[l]
           /\ task[t].expected[l] <= shipped[o][l]
           /\ task[t].picked[l] \in Nat /\ task[t].expected[l] \in Nat
      BY <1>1, <3>1, TaskIs DEF TaskShape, TaskRow
    <3> QED BY <2>1, <3>10, <3>11
  <2> QED BY <2>3, <2>4
<1> QED BY <1>1, ReturnInvHolds, PTL

(* The snapshot a committed return leaves is exact for the lots it moved,  *)
(* however many other rebuilds and shipments run meanwhile.                *)
THEOREM SnapshotIsExact == Spec => OwnLotsExact
<1> DEFINE exact == \A p \in Requests :
             req[p].pc = "commit" /\ req'[p] = Idle /\ returned' # returned =>
               \A l \in Lots : req[p].move[l] # 0 => snap'[l] = stock'[l]
<1>1. ASSUME ReturnInv, Next PROVE exact
  <2>1. CASE \E p \in Requests : Commit(p)
    <3>1. PICK c \in Requests : Commit(c)
      BY <2>1
    <3>2. ASSUME NEW p \in Requests, req[p].pc = "commit", req'[p] = Idle,
                 NEW l \in Lots, req[p].move[l] # 0
          PROVE  snap'[l] = stock'[l]
      <4>1. p = c
        BY <3>1, <3>2, RowsAre DEF Commit
      <4>2. RequestShape(p) /\ req[p].move \in [Lots -> Nat]
        BY <1>1, RequestIs DEF RequestRow
      <4>3. req[p].move # Nothing /\ req[p].snap[l] = stock[l] + req[p].move[l]
        BY <3>2, <4>2, RowsAre DEF RequestShape
      <4>4. snap' = req[p].snap
        BY <3>1, <4>1, <4>3 DEF Commit
      <4>5. stock'[l] = stock[l] + req[p].move[l]
        BY <3>1, <4>1 DEF Commit, Balances, Seen, Plus
      <4> QED BY <4>3, <4>4, <4>5
    <3> QED BY <3>2
  <2>2. CASE ~\E p \in Requests : Commit(p)
    <3>1. returned' = returned
      BY <1>1, <2>2 DEF Next, Ship, CreateLook, CreateInsert, Move, Receive,
                        SnapshotDelete, SnapshotInsert, Verify, Fail
    <3> QED BY <3>1
  <2> QED BY <2>1, <2>2
<1>2. ReturnInv /\ [Next]_vars => [exact]_vars
  BY <1>1
<1> QED BY <1>2, ReturnInvHolds, PTL DEF Spec, OwnLotsExact
=============================================================================
