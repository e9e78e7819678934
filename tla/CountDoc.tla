------------------------------ MODULE CountDoc ------------------------------
(***************************************************************************)
(* Count documents of one warehouse and the freeze guard.                  *)
(*                                                                         *)
(* A count document is created (DRAFT), frozen (its lines are a snapshot   *)
(* of the stock), counted line by line (COUNTED once no line is left) and  *)
(* posted (the differences become stock movements), or voided.  While one  *)
(* is FROZEN every other request that moves stock must be refused:         *)
(* ensure_warehouse_not_frozen.                                            *)
(*                                                                         *)
(* A request reads the document's status without a lock and acts on it in  *)
(* later statements (READ COMMITTED: each statement sees what is committed *)
(* by then).  The statements that change a document's header take its row  *)
(* lock and hold it to the commit, so from there on a request is one step. *)
(***************************************************************************)
EXTENDS Sums

CONSTANTS Docs,         \* count documents of the warehouse
          Requests,     \* HTTP requests that can be in flight together
          Items,
          Lots,         \* lot ids (ordered: integers)
          ItemOf,       \* [Lots -> Items]
          MaxQty,       \* bound on a lot's quantity and on a counted quantity
          MaxPosts,     \* bound on COUNT events per document
          MaxLines      \* bound on the stock in the lines of all documents

None == -1              \* SQL NULL

ASSUME CountAssumption ==
  /\ Lots \subseteq Nat /\ IsFiniteSet(Lots)
  /\ ItemOf \in [Lots -> Items]
  /\ Docs \cap Requests = {}
  /\ MaxQty \in Nat /\ MaxPosts \in Nat /\ MaxLines \in Nat

VARIABLES doc,      \* the committed count_docs with their lines
          stock,    \* the committed stocks_lot
          req,      \* the requests in flight
          quiet,    \* documents, and freezes in flight, since whose
                    \* snapshot no stock was moved (history)
          clash     \* documents whose creation overlapped with another, or
                    \* a freeze with another freeze or a void (history)

vars == <<doc, stock, req, quiet, clash>>

-----------------------------------------------------------------------------
Statuses == {"NONE", "DRAFT", "FROZEN", "COUNTED", "POSTED", "VOIDED"}
ActiveStatuses == {"DRAFT", "FROZEN", "COUNTED"}

(* A document: status; per item the snapshot of its line (0: no line) and  *)
(* the counted quantity; per lot the lot snapshot; COUNT events written.   *)
Doc == [st : Statuses, line : [Items -> Nat], lot : [Lots -> 0..MaxQty],
        counted : [Items -> {None} \cup 0..MaxQty], posts : Nat]

NewDoc(st) == [st |-> st, line |-> [i \in Items |-> 0],
               lot |-> [l \in Lots |-> 0],
               counted |-> [i \in Items |-> None], posts |-> 0]

(* A request: what it does, to which document, how far it is, and what the *)
(* freeze has inserted so far.                                             *)
At(op, d) == [op |-> op, d |-> d, line |-> [i \in Items |-> 0],
              lot |-> [l \in Lots |-> 0]]

Idle == At("idle", None)

LotsOf(i) == {l \in Lots : ItemOf[l] = i}

OnHand(q, i) == SumOf(q, LotsOf(i))

Lines(r) == {i \in Items : r.line[i] > 0}

Init ==
  /\ doc = [d \in Docs |-> NewDoc("NONE")]
  /\ stock \in [Lots -> 0..MaxQty]
  /\ req = [p \in Requests |-> Idle]
  /\ quiet = {}
  /\ clash = {}

(* Request p was at op, or enters at op.                                   *)
End(p, op) ==
  /\ req[p].op = op
  /\ req' = [req EXCEPT ![p] = Idle]

Enter(p, op, d) ==
  /\ req[p] = Idle
  /\ req' = [req EXCEPT ![p] = At(op, d)]

(* The documents that requests at one of the ops work on.                  *)
Busy(ops) == {req[q].d : q \in {r \in Requests : req[r].op \in ops}}

(* An exception, a rejected statement or a crash: nothing is committed.    *)
Fail(p) ==
  /\ req[p] # Idle
  /\ req' = [req EXCEPT ![p] = Idle]
  /\ quiet' = quiet \ {p}
  /\ UNCHANGED <<doc, stock, clash>>

-----------------------------------------------------------------------------
(* Fault: documents that are counted already are not looked for.           *)
NoActiveUncounted == \A e \in Docs : doc[e].st \notin {"DRAFT", "FROZEN"}

NoActive == \A e \in Docs : doc[e].st \notin ActiveStatuses

(* create_doc: no active document may exist; then insert one.              *)
CreateCheck(p, d) ==
  /\ NoActive
  /\ doc[d].st = "NONE"
  /\ d \notin Busy({"create"})
  /\ Enter(p, "create", d)
  /\ clash' = IF Busy({"create"}) = {} THEN clash
              ELSE clash \cup Busy({"create"}) \cup {d}
  /\ UNCHANGED <<doc, stock, quiet>>

CreateInsert(p) ==
  LET d == req[p].d IN
  /\ End(p, "create")
  /\ doc[d].st = "NONE"
  /\ doc' = [doc EXCEPT ![d] = NewDoc("DRAFT")]
  /\ UNCHANGED <<stock, quiet, clash>>

-----------------------------------------------------------------------------
(* freeze_doc: the status is read, the lines are inserted from the stock,  *)
(* the lot snapshots are inserted from the stock for those lines, and the  *)
(* header becomes FROZEN whatever it is by then.                           *)
FreezeCheck(p, d) ==
  /\ doc[d].st = "DRAFT"
  /\ Enter(p, "freeze", d)
  /\ clash' = clash \cup ({d} \cap Busy({"freeze", "snapshot", "mark", "void"}))
  /\ UNCHANGED <<doc, stock, quiet>>

(* From here to its commit a freeze holds the rows of the old and the new  *)
(* lines: a second freeze (unique doc_id, line_no) and an update wait.     *)
LinesFree(d) ==
  \A q \in Requests : req[q].d = d => req[q].op \notin {"snapshot", "mark"}

(* Stock in the lines of the documents D, which MaxLines bounds.           *)
InLines(D) == SumOf([e \in D |-> SumOf(doc[e].line, Items)], D)

FreezeLines(p) ==
  LET d == req[p].d IN
  /\ req[p].op = "freeze"
  /\ LinesFree(d)
  /\ InLines(Docs \ {d}) + SumOf(stock, Lots) <= MaxLines
  /\ req' = [req EXCEPT ![p] =
       [op |-> "snapshot", d |-> d,
        line |-> [i \in Items |-> OnHand(stock, i)], lot |-> @.lot]]
  /\ quiet' = quiet \cup {p}
  /\ UNCHANGED <<doc, stock, clash>>

FreezeLotSnapshots(p) ==
  /\ req[p].op = "snapshot"
  /\ req' = [req EXCEPT ![p] =
       [op |-> "mark", d |-> @.d, line |-> @.line,
        lot |-> [l \in Lots |-> IF ItemOf[l] \in Lines(req[p])
                                THEN stock[l] ELSE 0]]]
  /\ UNCHANGED <<doc, stock, quiet, clash>>

(* Fault: a document that was counted meanwhile stays COUNTED.             *)
FrozenUnlessCounted(st) == IF st = "COUNTED" THEN st ELSE "FROZEN"

Frozen(st) == "FROZEN"

(* The old lines are gone: an update in flight that names them fails.      *)
FreezeMark(p) ==
  LET d == req[p].d IN
  /\ req[p].op = "mark"
  /\ req' = [q \in Requests |->
               IF q = p \/ (req[q].op = "update" /\ req[q].d = d)
               THEN Idle ELSE req[q]]
  /\ doc' = [doc EXCEPT ![d] =
       [st |-> Frozen(@.st), line |-> req[p].line, lot |-> req[p].lot,
        counted |-> [i \in Items |-> None], posts |-> @.posts]]
  /\ quiet' = IF p \in quiet THEN (quiet \ {p}) \cup {d} ELSE quiet \ {d}
  /\ UNCHANGED <<stock, clash>>

-----------------------------------------------------------------------------
(* update_doc_lines: the status is read; later the counts are written and  *)
(* a FROZEN document without uncounted lines becomes COUNTED.              *)
UpdateCheck(p, d) ==
  /\ doc[d].st \in {"FROZEN", "COUNTED"}
  /\ Enter(p, "update", d)
  /\ UNCHANGED <<doc, stock, quiet, clash>>

AllCounted(r) == \A i \in Lines(r) : r.counted[i] # None

TryMarkCounted(r) ==
  IF r.st = "FROZEN" /\ Lines(r) # {} /\ AllCounted(r)
  THEN [r EXCEPT !.st = "COUNTED"] ELSE r

Written(r, I, n) ==
  [r EXCEPT !.counted = [i \in Items |-> IF i \in I THEN n[i] ELSE r.counted[i]]]

UpdateLines(p) ==
  LET d == req[p].d IN
  /\ End(p, "update")
  /\ LinesFree(d)
  /\ \E I \in (SUBSET Lines(doc[d])) \ {{}} : \E n \in [I -> 0..MaxQty] :
       doc' = [doc EXCEPT ![d] = TryMarkCounted(Written(@, I, n))]
  /\ UNCHANGED <<stock, quiet, clash>>

-----------------------------------------------------------------------------
(* _post_line_diff: the difference of a line goes to the first of its lot  *)
(* snapshots (largest first, then lowest id), or is taken from them in     *)
(* that order.                                                             *)
Snapshots(r, i) == {l \in LotsOf(i) : r.lot[l] > 0}

Precedes(r, l, m) == r.lot[l] > r.lot[m] \/ (r.lot[l] = r.lot[m] /\ l < m)

Before(r, l) == {m \in Snapshots(r, ItemOf[l]) : Precedes(r, m, l)}

Diff(r, i) == r.counted[i] - r.line[i]

Consume(r, l) ==
  LET left == -Diff(r, ItemOf[l]) - SumOf(r.lot, Before(r, l))
  IN Max({0, Min({left, r.lot[l]})})

Movement(r, l) ==
  LET i == ItemOf[l] IN
  IF i \notin Lines(r) \/ r.lot[l] = 0 THEN 0
  ELSE IF Diff(r, i) >= 0 THEN (IF Before(r, l) = {} THEN Diff(r, i) ELSE 0)
  ELSE -Consume(r, l)

(* Fault: the check of what is left over after the last lot is missing.    *)
AllocatableShort(r) == \A i \in Lines(r) : Snapshots(r, i) # {}

(* Every line has lot snapshots, and enough of them for its loss.          *)
Allocatable(r) ==
  \A i \in Lines(r) :
    /\ Snapshots(r, i) # {}
    /\ -Diff(r, i) <= SumOf(r.lot, Snapshots(r, i))

(* post_doc: the status is read; then the header row is locked, the lines  *)
(* are read again, the movements are made and the document is marked       *)
(* POSTED if it is still COUNTED (all rolled back if it is not, or if a    *)
(* movement is refused).                                                   *)
PostCheck(p, d) ==
  /\ doc[d].st = "COUNTED"
  /\ Enter(p, "post", d)
  /\ UNCHANGED <<doc, stock, quiet, clash>>

StillCounted(r) == r.st = "COUNTED"

NotOverdrawn(after) == \A l \in Lots : after[l] \in 0..MaxQty

PostApply(p) ==
  LET d == req[p].d
      r == doc[d]
      after == [l \in Lots |-> stock[l] + Movement(r, l)]
  IN /\ End(p, "post")
     /\ Lines(r) # {} /\ AllCounted(r) /\ Allocatable(r)
     /\ StillCounted(r)
     /\ NotOverdrawn(after)
     /\ r.posts < MaxPosts
     /\ stock' = after
     /\ doc' = [doc EXCEPT ![d] =
          [st |-> "POSTED", line |-> r.line, lot |-> r.lot,
           counted |-> r.counted, posts |-> r.posts + 1]]
     /\ quiet' = {}
     /\ UNCHANGED clash

-----------------------------------------------------------------------------
(* void_doc: refused once POSTED; the UPDATE asks for an active status, so *)
(* a document that is VOIDED already fails only there.                     *)
VoidCheck(p, d) ==
  /\ doc[d].st \notin {"NONE", "POSTED"}
  /\ Enter(p, "void", d)
  /\ clash' = clash \cup ({d} \cap Busy({"freeze", "snapshot", "mark"}))
  /\ UNCHANGED <<doc, stock, quiet>>

(* Fault: mark_doc_voided voids whatever the status is by then.            *)
VoidableAlways(r) == TRUE

Voidable(r) == r.st \in ActiveStatuses

VoidMark(p) ==
  LET d == req[p].d IN
  /\ End(p, "void")
  /\ Voidable(doc[d])
  /\ doc' = [doc EXCEPT ![d].st = "VOIDED"]
  /\ quiet' = quiet \ {d}
  /\ UNCHANGED <<stock, clash>>

-----------------------------------------------------------------------------
(* Every other request that moves stock asks the guard first and commits   *)
(* its movement later.                                                     *)
GuardCheck(p) ==
  /\ \A d \in Docs : doc[d].st # "FROZEN"
  /\ Enter(p, "move", None)
  /\ UNCHANGED <<doc, stock, quiet, clash>>

MoveStock(p) ==
  /\ End(p, "move")
  /\ \E l \in Lots : \E n \in {-1, 1} :
       /\ stock[l] + n \in 0..MaxQty
       /\ stock' = [stock EXCEPT ![l] = @ + n]
  /\ quiet' = {}
  /\ UNCHANGED <<doc, clash>>

-----------------------------------------------------------------------------
Next ==
  \E p \in Requests :
    \/ \E d \in Docs : \/ CreateCheck(p, d) \/ FreezeCheck(p, d)
                       \/ UpdateCheck(p, d) \/ PostCheck(p, d) \/ VoidCheck(p, d)
    \/ CreateInsert(p)
    \/ FreezeLines(p) \/ FreezeLotSnapshots(p) \/ FreezeMark(p)
    \/ UpdateLines(p) \/ PostApply(p) \/ VoidMark(p)
    \/ GuardCheck(p) \/ MoveStock(p)
    \/ Fail(p)

Spec == Init /\ [][Next]_vars

-----------------------------------------------------------------------------
TypeOK ==
  /\ doc \in [Docs -> Doc]
  /\ stock \in [Lots -> 0..MaxQty]
  /\ \A p \in Requests :
       /\ req[p].op \in {"idle", "create", "freeze", "snapshot", "mark",
                         "update", "post", "void", "move"}
       /\ req[p].d \in Docs \cup {None}
       /\ req[p].op \notin {"idle", "move"} => req[p].d \in Docs
  /\ quiet \subseteq Docs \cup Requests
  /\ clash \subseteq Docs

(* A document that counts as counted has a count on every line of its      *)
(* snapshot, whatever freezes and updates ran together (try_mark_doc_      *)
(* counted, post_doc), and no lot is overdrawn.                            *)
CountedIsComplete ==
  /\ TypeOK
  /\ \A d \in Docs : doc[d].st \in {"COUNTED", "POSTED"} =>
       Lines(doc[d]) # {} /\ AllCounted(doc[d])

(* Posting moves each counted item by exactly its difference, however it   *)
(* is spread over the lots (_post_line_diff) and whatever the stock is by  *)
(* then, and moves no other item.  If no stock was moved since the         *)
(* snapshot, the stock of an item is the counted quantity afterwards.      *)
PostMovesDiff ==
  [][\A d \in Docs : doc'[d].posts > doc[d].posts =>
       /\ \A i \in Items :
            OnHand(stock', i) - OnHand(stock, i) =
              IF i \in Lines(doc[d]) THEN Diff(doc[d], i) ELSE 0
       /\ d \in quiet => \A i \in Lines(doc[d]) :
            OnHand(stock', i) = doc[d].counted[i]]_vars

(* Documents whose creation and freezes did not clash.  The code takes no  *)
(* lock before it reads the status, so a clash breaks each of these.       *)
Alone == Docs \ clash

(* POSTED and VOIDED are final: the document neither becomes another       *)
(* status nor moves stock again, however many posts and voids are in       *)
(* flight, so it becomes COUNT movements once at most.                     *)
EndedIsFinal ==
  [][\A d \in Alone : doc[d].st \in {"POSTED", "VOIDED"} =>
       doc'[d].st = doc[d].st /\ doc'[d].posts = doc[d].posts]_vars

(* The warehouse has one active document (count_doc_active_exists): none   *)
(* is created next to it, and none that ended comes back beside it.        *)
OneActive ==
  \A d, e \in Docs :
    doc[d].st \in ActiveStatuses /\ doc[e].st \in ActiveStatuses /\ d # e
    => {d, e} \cap clash # {}

-----------------------------------------------------------------------------
(* What the guard's message says and the code breaks: no stock is moved in *)
(* a warehouse with a FROZEN document.                                     *)
FrozenStockStill ==
  [][(\E d \in Docs : doc[d].st = "FROZEN") => UNCHANGED stock]_vars
=============================================================================
