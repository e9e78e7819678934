--------------------------- MODULE CountDocProofs ---------------------------
(***************************************************************************)
(* The count documents for any warehouse: any documents, lots, items and   *)
(* number of requests in flight.  CountInv is inductive; it says what a    *)
(* freeze and a creation in flight may still rely on when they commit.     *)
(***************************************************************************)
EXTENDS CountDoc, SumProofs

USE CountAssumption

Ops == {"idle", "create", "freeze", "snapshot", "mark", "update", "post",
        "void", "move"}

Freezing == {"freeze", "snapshot", "mark"}

Req == [op : Ops, d : Docs \cup {None}, line : [Items -> Nat],
        lot : [Lots -> 0..MaxQty]]

(* The requests, with what they carry.                                     *)
ReqOK ==
  /\ req \in [Requests -> Req]
  /\ \A p \in Requests : req[p].op \notin {"idle", "move"} => req[p].d \in Docs

(* A document with a status that says so is counted to the end.            *)
Complete(r) == r.st \in {"COUNTED", "POSTED"} => Lines(r) # {} /\ AllCounted(r)

DocsOK == doc \in [Docs -> Doc] /\ \A d \in Docs : Complete(doc[d])

HistoryOK == quiet \subseteq Docs \cup Requests /\ clash \subseteq Docs

CountTypes == DocsOK /\ stock \in [Lots -> 0..MaxQty] /\ ReqOK /\ HistoryOK

-----------------------------------------------------------------------------
(* A lot snapshot or a line that a freeze takes is a quantity.             *)
LEMMA OnHandNat ==
  ASSUME NEW q \in [Lots -> 0..MaxQty], NEW i \in Items
  PROVE  OnHand(q, i) \in Nat
<1>1. IsFiniteSet(LotsOf(i)) /\ \A l \in LotsOf(i) : q[l] \in Nat
  BY FS_Subset DEF LotsOf
<1> QED BY <1>1, SumNat DEF OnHand

(* Idle and new records have their types.                                  *)
LEMMA IdleOK ==
  /\ Idle \in Req
  /\ \A op \in Ops, d \in Docs \cup {None} :
       At(op, d) \in Req /\ At(op, d).op = op /\ At(op, d).d = d
BY DEF Idle, At, Req, Ops

(* A new document is a document without lines.                             *)
LEMMA NewDocOK ==
  ASSUME NEW st \in {"NONE", "DRAFT"}
  PROVE  /\ NewDoc(st) \in Doc /\ Complete(NewDoc(st))
         /\ NewDoc(st).st = st
BY DEF NewDoc, Doc, Complete, Statuses, None

(* No document and no request at the start.                                *)
LEMMA InitCountTypes == Init => CountTypes
<1> SUFFICES ASSUME Init PROVE CountTypes
  OBVIOUS
<1>1. DocsOK
  BY NewDocOK DEF Init, DocsOK
<1>2. ReqOK
  BY IdleOK DEF Init, ReqOK, Idle, At
<1> QED BY <1>1, <1>2 DEF Init, CountTypes, HistoryOK

(* A request that enters is a request.                                     *)
LEMMA EnterOK ==
  ASSUME ReqOK, NEW p \in Requests, NEW op \in Ops, NEW d \in Docs \cup {None},
         op # "move" => d \in Docs, Enter(p, op, d)
  PROVE  /\ ReqOK' /\ req'[p].op = op /\ req'[p].d = d
         /\ \A q \in Requests \ {p} : req'[q] = req[q]
<1>1. At(op, d) \in Req /\ At(op, d).op = op /\ At(op, d).d = d
  BY IdleOK
<1> QED BY <1>1 DEF ReqOK, Enter

(* So are those that are left when one ends.                               *)
LEMMA LeaveOK ==
  ASSUME ReqOK, NEW p \in Requests, req' = [req EXCEPT ![p] = Idle]
  PROVE  /\ ReqOK' /\ req'[p].op = "idle"
         /\ \A q \in Requests \ {p} : req'[q] = req[q]
<1>1. Idle \in Req /\ Idle.op = "idle"
  BY IdleOK DEF Idle, At
<1> QED BY <1>1 DEF ReqOK

-----------------------------------------------------------------------------
(* The first statements of a request change no document.                   *)
LEMMA ChecksKeepTypes ==
  ASSUME CountTypes, NEW p \in Requests, NEW d \in Docs,
         \/ CreateCheck(p, d) \/ FreezeCheck(p, d) \/ UpdateCheck(p, d)
         \/ PostCheck(p, d) \/ VoidCheck(p, d)
  PROVE  CountTypes'
<1>1. UNCHANGED <<doc, stock, quiet>> /\ clash' \subseteq clash \cup Docs
  <2>1. Busy({"create"}) \subseteq Docs
    BY DEF Busy, CountTypes, ReqOK
  <2> QED
    BY <2>1 DEF CreateCheck, FreezeCheck, UpdateCheck, PostCheck, VoidCheck,
                CountTypes, HistoryOK
<1>2. ReqOK'
  BY EnterOK DEF CreateCheck, FreezeCheck, UpdateCheck, PostCheck, VoidCheck,
                 CountTypes, Ops
<1> QED BY <1>1, <1>2 DEF CountTypes, DocsOK, HistoryOK

(* Nor does the guard.                                                     *)
LEMMA GuardKeepsTypes ==
  ASSUME CountTypes, NEW p \in Requests, GuardCheck(p)
  PROVE  CountTypes'
<1>1. ReqOK'
  BY EnterOK DEF GuardCheck, CountTypes, Ops
<1> QED BY <1>1 DEF GuardCheck, CountTypes, DocsOK, HistoryOK

(* The insert of a new document.                                           *)
LEMMA CreateInsertKeepsTypes ==
  ASSUME CountTypes, NEW p \in Requests, CreateInsert(p)
  PROVE  CountTypes'
<1>1. ReqOK' /\ req[p].d \in Docs
  BY LeaveOK DEF CreateInsert, End, CountTypes, ReqOK
<1>2. DocsOK'
  BY <1>1, NewDocOK DEF CreateInsert, CountTypes, DocsOK
<1> QED BY <1>1, <1>2 DEF CreateInsert, CountTypes, HistoryOK

(* The statements of a freeze before its last.                             *)
LEMMA FreezeSnapshotsKeepTypes ==
  ASSUME CountTypes, NEW p \in Requests,
         FreezeLines(p) \/ FreezeLotSnapshots(p)
  PROVE  CountTypes'
<1>1. PICK op \in {"snapshot", "mark"}, ln \in [Items -> Nat],
           lt \in [Lots -> 0..MaxQty] :
        req' = [req EXCEPT ![p] = [op |-> op, d |-> req[p].d, line |-> ln, lot |-> lt]]
  <2>0. req[p] \in Req
    BY DEF CountTypes, ReqOK
  <2>1. CASE FreezeLines(p)
    <3>1. [i \in Items |-> OnHand(stock, i)] \in [Items -> Nat]
      BY OnHandNat DEF CountTypes
    <3> QED BY <2>0, <2>1, <3>1 DEF FreezeLines, Req
  <2>2. CASE FreezeLotSnapshots(p)
    <3>1. [l \in Lots |-> IF ItemOf[l] \in Lines(req[p]) THEN stock[l] ELSE 0]
            \in [Lots -> 0..MaxQty]
      BY DEF CountTypes
    <3> QED BY <2>0, <2>2, <3>1 DEF FreezeLotSnapshots, Req
  <2> QED BY <2>1, <2>2
<1>2. req[p].d \in Docs
  BY DEF FreezeLines, FreezeLotSnapshots, CountTypes, ReqOK
<1>3. ReqOK'
  BY <1>1, <1>2 DEF CountTypes, ReqOK, Req, Ops
<1>4. UNCHANGED <<doc, stock, clash>> /\ quiet' \subseteq quiet \cup {p}
  BY DEF FreezeLines, FreezeLotSnapshots
<1> QED BY <1>3, <1>4 DEF CountTypes, DocsOK, HistoryOK

(* The last statement of a freeze: the document loses its counts.          *)
LEMMA FreezeMarkKeepsTypes ==
  ASSUME CountTypes, NEW p \in Requests, FreezeMark(p)
  PROVE  CountTypes'
<1> DEFINE d == req[p].d
           new == [st |-> "FROZEN", line |-> req[p].line, lot |-> req[p].lot,
                   counted |-> [i \in Items |-> None], posts |-> doc[d].posts]
<1>1. d \in Docs /\ req[p] \in Req /\ doc[d] \in Doc
  BY DEF FreezeMark, CountTypes, ReqOK, DocsOK
<1>2. new \in Doc /\ Complete(new)
  BY <1>1 DEF Doc, Req, Statuses, Complete
<1>3. doc' = [doc EXCEPT ![d] = new]
  BY DEF FreezeMark, Frozen
<1>4. DocsOK'
  BY <1>1, <1>2, <1>3 DEF CountTypes, DocsOK
<1>5. ReqOK'
  BY IdleOK DEF FreezeMark, CountTypes, ReqOK, Idle, At
<1>6. HistoryOK' /\ stock' = stock
  BY <1>1 DEF FreezeMark, CountTypes, HistoryOK
<1> QED BY <1>4, <1>5, <1>6 DEF CountTypes

(* Written counts leave a document with the lines it has.                  *)
LEMMA WrittenOK ==
  ASSUME NEW r \in Doc, NEW I \in SUBSET Lines(r), NEW n \in [I -> 0..MaxQty],
         Complete(r), NEW w, w = TryMarkCounted(Written(r, I, n))
  PROVE  /\ w \in Doc /\ Complete(w)
         /\ w.line = r.line /\ w.lot = r.lot /\ w.posts = r.posts
         /\ w.st = r.st \/ (r.st = "FROZEN" /\ w.st = "COUNTED")
<1> DEFINE c == [i \in Items |-> IF i \in I THEN n[i] ELSE r.counted[i]]
           v == Written(r, I, n)
<1>1. c \in [Items -> {None} \cup 0..MaxQty]
  BY DEF Doc
<1>2. /\ v \in Doc /\ v.counted = c /\ v.st = r.st /\ v.line = r.line
      /\ v.lot = r.lot /\ v.posts = r.posts
  BY <1>1 DEF Written, Doc
<1>3. Complete(v)
  <2>1. Lines(v) = Lines(r)
    BY <1>2 DEF Lines
  <2>2. \A i \in Items : r.counted[i] # None => c[i] # None
    BY DEF None
  <2> QED BY <1>2, <2>1, <2>2 DEF Complete, AllCounted, Lines
<1>4. CASE v.st = "FROZEN" /\ Lines(v) # {} /\ AllCounted(v)
  <2>0. w = TryMarkCounted(v)
    OBVIOUS
  <2> HIDE DEF v
  <2>1. w = [v EXCEPT !.st = "COUNTED"]
    BY <1>4, <2>0 DEF TryMarkCounted
  <2>2. /\ w \in Doc /\ w.st = "COUNTED" /\ w.line = v.line /\ w.lot = v.lot
        /\ w.posts = v.posts /\ w.counted = v.counted
    BY <1>2, <2>1 DEF Doc, Statuses
  <2>3. Complete(w)
    BY <1>4, <2>2 DEF Complete, AllCounted, Lines
  <2> QED BY <1>2, <1>4, <2>2, <2>3
<1>5. CASE ~(v.st = "FROZEN" /\ Lines(v) # {} /\ AllCounted(v))
  <2>1. w = v
    BY <1>5 DEF TryMarkCounted
  <2> QED BY <1>2, <1>3, <2>1
<1> QED BY <1>4, <1>5

(* What an update does to its document.                                    *)
LEMMA UpdateLinesDoc ==
  ASSUME CountTypes, NEW p \in Requests, UpdateLines(p)
  PROVE  \E w \in Doc :
           /\ doc' = [doc EXCEPT ![req[p].d] = w] /\ req[p].d \in Docs
           /\ Complete(w)
           /\ w.line = doc[req[p].d].line /\ w.posts = doc[req[p].d].posts
           /\ \/ w.st = doc[req[p].d].st
              \/ doc[req[p].d].st = "FROZEN" /\ w.st = "COUNTED"
<1> DEFINE d == req[p].d
<1>1. d \in Docs /\ doc[d] \in Doc /\ Complete(doc[d])
  BY DEF UpdateLines, End, CountTypes, ReqOK, DocsOK
<1>2. PICK I \in SUBSET Lines(doc[d]) : \E n \in [I -> 0..MaxQty] :
        doc' = [doc EXCEPT ![d] = TryMarkCounted(Written(doc[d], I, n))]
  BY DEF UpdateLines
<1>3. PICK n \in [I -> 0..MaxQty] :
        doc' = [doc EXCEPT ![d] = TryMarkCounted(Written(doc[d], I, n))]
  BY <1>2
<1> DEFINE w == TryMarkCounted(Written(doc[d], I, n))
<1>4. /\ w \in Doc /\ Complete(w) /\ w.line = doc[d].line /\ w.posts = doc[d].posts
      /\ w.st = doc[d].st \/ (doc[d].st = "FROZEN" /\ w.st = "COUNTED")
  BY <1>1, WrittenOK
<1> HIDE DEF w
<1> QED BY <1>1, <1>3, <1>4 DEF w

(* The statements of an update.                                            *)
LEMMA UpdateLinesKeepsTypes ==
  ASSUME CountTypes, NEW p \in Requests, UpdateLines(p)
  PROVE  CountTypes'
<1>1. PICK w \in Doc :
        doc' = [doc EXCEPT ![req[p].d] = w] /\ req[p].d \in Docs /\ Complete(w)
  BY UpdateLinesDoc
<1>2. DocsOK'
  BY <1>1 DEF CountTypes, DocsOK
<1>3. ReqOK'
  BY LeaveOK DEF UpdateLines, End, CountTypes
<1> QED BY <1>2, <1>3 DEF UpdateLines, CountTypes, HistoryOK

(* What a post does to its document.                                       *)
LEMMA PostApplyDoc ==
  ASSUME CountTypes, NEW p \in Requests, PostApply(p), NEW d, d = req[p].d
  PROVE  /\ d \in Docs /\ doc[d].st = "COUNTED" /\ doc'[d] \in Doc
         /\ doc' = [doc EXCEPT ![d] = doc'[d]]
         /\ doc'[d].st = "POSTED" /\ doc'[d].line = doc[d].line
         /\ Complete(doc'[d]) /\ doc'[d].posts = doc[d].posts + 1
<1> DEFINE r == doc[d]
           new == [st |-> "POSTED", line |-> r.line, lot |-> r.lot,
                   counted |-> r.counted, posts |-> r.posts + 1]
<1>1. d \in Docs /\ r \in Doc
  BY DEF PostApply, End, CountTypes, ReqOK, DocsOK
<1>2. new \in Doc
  BY <1>1 DEF Doc, Statuses
<1>3. Complete(new)
  BY <1>1 DEF PostApply, Complete, Lines, AllCounted
<1>4. doc' = [doc EXCEPT ![d] = new] /\ doc'[d] = new /\ r.st = "COUNTED"
  BY <1>1 DEF PostApply, CountTypes, DocsOK, StillCounted
<1>5. new.st = "POSTED" /\ new.line = r.line /\ new.posts = r.posts + 1
  OBVIOUS
<1> HIDE DEF new
<1> QED BY <1>1, <1>2, <1>3, <1>4, <1>5

(* The statements of a post.                                               *)
LEMMA PostApplyKeepsTypes ==
  ASSUME CountTypes, NEW p \in Requests, PostApply(p)
  PROVE  CountTypes'
<1>1. DocsOK'
  BY PostApplyDoc DEF CountTypes, DocsOK
<1>2. ReqOK'
  BY LeaveOK DEF PostApply, End, CountTypes
<1>3. stock' \in [Lots -> 0..MaxQty]
  BY DEF PostApply, NotOverdrawn
<1> QED BY <1>1, <1>2, <1>3 DEF PostApply, CountTypes, HistoryOK

(* A void.                                                                 *)
LEMMA VoidMarkKeepsTypes ==
  ASSUME CountTypes, NEW p \in Requests, VoidMark(p)
  PROVE  CountTypes'
<1> DEFINE d == req[p].d
<1>1. d \in Docs /\ doc[d] \in Doc
  BY DEF VoidMark, End, CountTypes, ReqOK, DocsOK
<1>2. [doc[d] EXCEPT !.st = "VOIDED"] \in Doc
      /\ Complete([doc[d] EXCEPT !.st = "VOIDED"])
  BY <1>1 DEF Doc, Statuses, Complete
<1>3. doc' = [doc EXCEPT ![d] = [doc[d] EXCEPT !.st = "VOIDED"]]
  BY DEF VoidMark
<1>4. DocsOK'
  BY <1>1, <1>2, <1>3 DEF CountTypes, DocsOK
<1>5. ReqOK'
  BY LeaveOK DEF VoidMark, End, CountTypes
<1> QED BY <1>4, <1>5 DEF VoidMark, CountTypes, HistoryOK

(* Another request's movement, and a request that fails.                   *)
LEMMA MoveAndFailKeepTypes ==
  ASSUME CountTypes, NEW p \in Requests, MoveStock(p) \/ Fail(p)
  PROVE  CountTypes'
<1>1. ReqOK'
  BY LeaveOK DEF MoveStock, Fail, End, CountTypes
<1>2. stock' \in [Lots -> 0..MaxQty]
  BY DEF MoveStock, Fail, CountTypes
<1>3. UNCHANGED <<doc, clash>> /\ quiet' \subseteq quiet
  BY DEF MoveStock, Fail
<1> QED BY <1>1, <1>2, <1>3 DEF CountTypes, DocsOK, HistoryOK

(* Every step keeps the types, and counted documents complete.             *)
LEMMA StepTypes == CountTypes /\ [Next]_vars => CountTypes'
<1> SUFFICES ASSUME CountTypes, [Next]_vars PROVE CountTypes'
  OBVIOUS
<1>1. CASE UNCHANGED vars
  BY <1>1 DEF vars, CountTypes, DocsOK, ReqOK, HistoryOK
<1>2. ASSUME NEW p \in Requests, NEW d \in Docs,
             \/ CreateCheck(p, d) \/ FreezeCheck(p, d) \/ UpdateCheck(p, d)
             \/ PostCheck(p, d) \/ VoidCheck(p, d)
      PROVE  CountTypes'
  BY <1>2, ChecksKeepTypes
<1>3. ASSUME NEW p \in Requests, CreateInsert(p) PROVE CountTypes'
  BY <1>3, CreateInsertKeepsTypes
<1>4. ASSUME NEW p \in Requests, FreezeLines(p) \/ FreezeLotSnapshots(p)
      PROVE  CountTypes'
  BY <1>4, FreezeSnapshotsKeepTypes
<1>5. ASSUME NEW p \in Requests, FreezeMark(p) PROVE CountTypes'
  BY <1>5, FreezeMarkKeepsTypes
<1>6. ASSUME NEW p \in Requests, UpdateLines(p) PROVE CountTypes'
  BY <1>6, UpdateLinesKeepsTypes
<1>7. ASSUME NEW p \in Requests, PostApply(p) PROVE CountTypes'
  BY <1>7, PostApplyKeepsTypes
<1>8. ASSUME NEW p \in Requests, VoidMark(p) PROVE CountTypes'
  BY <1>8, VoidMarkKeepsTypes
<1>9. ASSUME NEW p \in Requests, GuardCheck(p) PROVE CountTypes'
  BY <1>9, GuardKeepsTypes
<1>10. ASSUME NEW p \in Requests, MoveStock(p) \/ Fail(p) PROVE CountTypes'
  BY <1>10, MoveAndFailKeepTypes
<1> QED BY <1>1, <1>2, <1>3, <1>4, <1>5, <1>6, <1>7, <1>8, <1>9, <1>10 DEF Next

(* A document that counts as counted has a count on every line, and no lot *)
(* is overdrawn, whatever freezes, updates and posts ran together.         *)
THEOREM CountedStaysComplete == Spec => []CountedIsComplete
<1>1. CountTypes => CountedIsComplete
  BY DEF CountTypes, CountedIsComplete, TypeOK, ReqOK, Req, Ops, DocsOK, Complete,
         HistoryOK
<1> QED BY <1>1, InitCountTypes, StepTypes, PTL DEF Spec

-----------------------------------------------------------------------------
(* A freeze in flight without a clash is the only one of its document, no  *)
(* void is in flight with it, and the document is still the DRAFT that it  *)
(* found.                                                                  *)
FreezesAlone ==
  \A p \in Requests :
    req[p].op \in Freezing /\ req[p].d \notin clash =>
      /\ doc[req[p].d].st = "DRAFT"
      /\ \A q \in Requests \ {p} :
           req[q].d = req[p].d => req[q].op \notin Freezing \cup {"void"}

(* A creation in flight without a clash is the only one, and still finds   *)
(* no active document that had none.                                       *)
CreatesAlone ==
  /\ \A p \in Requests : req[p].op = "create" /\ req[p].d \notin clash =>
       \A e \in Docs \ clash : doc[e].st \notin ActiveStatuses
  /\ \A p, q \in Requests :
       p # q /\ req[p].op = "create" /\ req[q].op = "create" => req[p].d \in clash

ClashInv == FreezesAlone /\ CreatesAlone /\ OneActive

(* Nothing clashes at the start.                                           *)
LEMMA InitClash == Init => ClashInv
<1> SUFFICES ASSUME Init PROVE ClashInv
  OBVIOUS
<1>1. \A p \in Requests : req[p].op = "idle"
  BY DEF Init, Idle, At
<1>2. \A d \in Docs : doc[d].st = "NONE"
  BY NewDocOK DEF Init
<1> QED BY <1>1, <1>2 DEF ClashInv, FreezesAlone, CreatesAlone, OneActive, Freezing,
                          ActiveStatuses

(* A step in which no document becomes active or stops being a DRAFT, and  *)
(* no freeze, void or creation begins.                                     *)
LEMMA PlainKeepsClash ==
  ASSUME CountTypes, CountTypes', ClashInv, clash' = clash,
         \A d \in Docs :
           /\ doc'[d].st \in ActiveStatuses => doc[d].st \in ActiveStatuses
           /\ doc[d].st = "DRAFT" => doc'[d].st = "DRAFT",
         \A p \in Requests :
           \/ req'[p].d = req[p].d /\ req'[p].op = req[p].op
           \/ req'[p].d = req[p].d /\ {req[p].op, req'[p].op} \subseteq Freezing
           \/ req'[p].op \in {"idle", "update", "post", "move"}
  PROVE  ClashInv'
<1>1. \A p \in Requests : req'[p].op \in Freezing \cup {"void", "create"} =>
        /\ req'[p].d = req[p].d
        /\ req[p].op \in Freezing <=> req'[p].op \in Freezing
        /\ req[p].op = "void" <=> req'[p].op = "void"
        /\ req[p].op = "create" <=> req'[p].op = "create"
  BY DEF Freezing
<1>2. \A p \in Requests : req'[p].op \in Freezing => req'[p].d \in Docs
  BY DEF CountTypes, ReqOK, Freezing
<1>3. FreezesAlone'
  BY <1>1, <1>2 DEF ClashInv, FreezesAlone
<1>4. CreatesAlone'
  BY <1>1 DEF ClashInv, CreatesAlone
<1>5. OneActive'
  BY DEF ClashInv, OneActive
<1> QED BY <1>3, <1>4, <1>5 DEF ClashInv

(* Most actions are such a step.                                           *)
LEMMA PlainActionsKeepClash ==
  ASSUME CountTypes, CountTypes', ClashInv, NEW p \in Requests,
         \/ \E d \in Docs : UpdateCheck(p, d) \/ PostCheck(p, d)
         \/ FreezeLines(p) \/ FreezeLotSnapshots(p) \/ UpdateLines(p)
         \/ PostApply(p) \/ GuardCheck(p) \/ MoveStock(p) \/ Fail(p)
  PROVE  ClashInv'
<1>1. ASSUME NEW d \in Docs, UpdateCheck(p, d) \/ PostCheck(p, d) PROVE ClashInv'
  <2>1. PICK op \in {"update", "post"} : Enter(p, op, d)
    BY <1>1 DEF UpdateCheck, PostCheck
  <2>2. req'[p].op = op /\ \A q \in Requests \ {p} : req'[q] = req[q]
    BY <2>1, EnterOK DEF CountTypes, Ops
  <2>3. UNCHANGED <<doc, clash>>
    BY <1>1 DEF UpdateCheck, PostCheck
  <2> QED BY <2>2, <2>3, PlainKeepsClash
<1>2. CASE GuardCheck(p)
  <2>1. req'[p].op = "move" /\ \A q \in Requests \ {p} : req'[q] = req[q]
    BY <1>2, EnterOK DEF GuardCheck, CountTypes, Ops
  <2>2. UNCHANGED <<doc, clash>>
    BY <1>2 DEF GuardCheck
  <2> QED BY <2>1, <2>2, PlainKeepsClash
<1>3. CASE FreezeLines(p) \/ FreezeLotSnapshots(p)
  <2>1. /\ req'[p].d = req[p].d /\ {req[p].op, req'[p].op} \subseteq Freezing
        /\ \A q \in Requests \ {p} : req'[q] = req[q]
    BY <1>3 DEF FreezeLines, FreezeLotSnapshots, CountTypes, ReqOK, Freezing
  <2>2. UNCHANGED <<doc, clash>>
    BY <1>3 DEF FreezeLines, FreezeLotSnapshots
  <2> QED BY <2>1, <2>2, PlainKeepsClash
<1>4. CASE MoveStock(p) \/ Fail(p)
  <2>1. req'[p].op = "idle" /\ \A q \in Requests \ {p} : req'[q] = req[q]
    BY <1>4, LeaveOK DEF MoveStock, Fail, End, CountTypes
  <2>2. UNCHANGED <<doc, clash>>
    BY <1>4 DEF MoveStock, Fail
  <2> QED BY <2>1, <2>2, PlainKeepsClash
<1>5. CASE UpdateLines(p)
  <2>1. req'[p].op = "idle" /\ \A q \in Requests \ {p} : req'[q] = req[q]
    BY <1>5, LeaveOK DEF UpdateLines, End, CountTypes
  <2>2. clash' = clash
    BY <1>5 DEF UpdateLines
  <2>3. \A d \in Docs :
          doc'[d].st = doc[d].st \/ (doc[d].st = "FROZEN" /\ doc'[d].st = "COUNTED")
    BY <1>5, UpdateLinesDoc DEF CountTypes, DocsOK
  <2>4. \A d \in Docs :
          /\ doc'[d].st \in ActiveStatuses => doc[d].st \in ActiveStatuses
          /\ doc[d].st = "DRAFT" => doc'[d].st = "DRAFT"
    BY <2>3 DEF ActiveStatuses
  <2> QED BY <2>1, <2>2, <2>4, PlainKeepsClash
<1>6. CASE PostApply(p)
  <2>1. req'[p].op = "idle" /\ \A q \in Requests \ {p} : req'[q] = req[q]
    BY <1>6, LeaveOK DEF PostApply, End, CountTypes
  <2>2. clash' = clash
    BY <1>6 DEF PostApply
  <2>3. \A d \in Docs :
          doc'[d].st = doc[d].st \/ (doc[d].st = "COUNTED" /\ doc'[d].st = "POSTED")
    BY <1>6, PostApplyDoc DEF CountTypes, DocsOK
  <2>4. \A d \in Docs :
          /\ doc'[d].st \in ActiveStatuses => doc[d].st \in ActiveStatuses
          /\ doc[d].st = "DRAFT" => doc'[d].st = "DRAFT"
    BY <2>3 DEF ActiveStatuses
  <2> QED BY <2>1, <2>2, <2>4, PlainKeepsClash
<1> QED BY <1>1, <1>2, <1>3, <1>4, <1>5, <1>6

(* The check of a creation finds no active document; it clashes with the   *)
(* creations that are in flight.                                           *)
LEMMA CreateCheckKeepsClash ==
  ASSUME CountTypes, ClashInv, NEW p \in Requests, NEW d \in Docs, CreateCheck(p, d)
  PROVE  ClashInv'
<1>1. /\ req'[p].op = "create" /\ req'[p].d = d
      /\ \A q \in Requests \ {p} : req'[q] = req[q]
  BY EnterOK DEF CreateCheck, CountTypes, Ops
<1>2. clash \subseteq clash' /\ doc' = doc /\ NoActive
  BY DEF CreateCheck
<1>3. req[p].op = "idle"
  BY DEF CreateCheck, Enter, Idle, At
<1>4. ASSUME NEW q \in Requests, q # p, req[q].op = "create"
      PROVE  d \in clash' /\ req[q].d \in clash'
  <2>1. req[q].d \in Busy({"create"})
    BY <1>4 DEF Busy
  <2> QED BY <2>1 DEF CreateCheck
<1>5. FreezesAlone'
  BY <1>1, <1>2 DEF ClashInv, FreezesAlone, Freezing
<1>6. CreatesAlone'
  BY <1>1, <1>2, <1>4 DEF ClashInv, CreatesAlone, NoActive
<1>7. OneActive'
  BY <1>2 DEF OneActive, NoActive
<1> QED BY <1>5, <1>6, <1>7 DEF ClashInv

(* So the document that is inserted is the only active one without clash.  *)
LEMMA CreateInsertKeepsClash ==
  ASSUME CountTypes, ClashInv, NEW p \in Requests, CreateInsert(p)
  PROVE  ClashInv'
<1> DEFINE d == req[p].d
<1>1. req'[p].op = "idle" /\ \A q \in Requests \ {p} : req'[q] = req[q]
  BY LeaveOK DEF CreateInsert, End, CountTypes
<1>2. /\ d \in Docs /\ doc[d].st = "NONE" /\ doc'[d].st = "DRAFT" /\ clash' = clash
      /\ \A e \in Docs \ {d} : doc'[e] = doc[e]
  BY NewDocOK DEF CreateInsert, End, CountTypes, ReqOK, DocsOK
<1>3. req[p].op = "create"
  BY DEF CreateInsert, End
<1>4. \A q \in Requests : req[q].op \in Freezing => req[q].d \in Docs
  BY DEF CountTypes, ReqOK, Freezing
<1>5. FreezesAlone'
  BY <1>1, <1>2, <1>4 DEF ClashInv, FreezesAlone, Freezing
<1>6. CreatesAlone'
  BY <1>1, <1>2, <1>3 DEF ClashInv, CreatesAlone
<1>7. OneActive'
  BY <1>2, <1>3 DEF ClashInv, CreatesAlone, OneActive
<1> QED BY <1>5, <1>6, <1>7 DEF ClashInv

(* The check of a freeze, or of a void, clashes with the freezes of its    *)
(* document in flight.                                                     *)
LEMMA FreezeAndVoidCheckKeepClash ==
  ASSUME CountTypes, ClashInv, NEW p \in Requests, NEW d \in Docs,
         FreezeCheck(p, d) \/ VoidCheck(p, d)
  PROVE  ClashInv'
<1>1. /\ req'[p].op \in {"freeze", "void"} /\ req'[p].d = d
      /\ req'[p].op = "freeze" => doc[d].st = "DRAFT"
      /\ \A q \in Requests \ {p} : req'[q] = req[q]
  <2>1. CASE FreezeCheck(p, d)
    BY <2>1, EnterOK DEF FreezeCheck, CountTypes, Ops
  <2>2. CASE VoidCheck(p, d)
    BY <2>2, EnterOK DEF VoidCheck, CountTypes, Ops
  <2> QED BY <2>1, <2>2
<1>2. clash \subseteq clash' /\ doc' = doc
  BY DEF FreezeCheck, VoidCheck
<1>3. ASSUME NEW q \in Requests, q # p, req[q].d = d,
             \/ req[q].op \in Freezing
             \/ req[q].op = "void" /\ req'[p].op = "freeze"
      PROVE  d \in clash'
  <2>1. CASE FreezeCheck(p, d)
    <3>1. d \in Busy({"freeze", "snapshot", "mark", "void"})
      BY <1>3 DEF Busy, Freezing
    <3> QED BY <2>1, <3>1 DEF FreezeCheck
  <2>2. CASE VoidCheck(p, d)
    <3>1. req'[p].op = "void"
      BY <2>2, EnterOK DEF VoidCheck, CountTypes, Ops
    <3>2. d \in Busy({"freeze", "snapshot", "mark"})
      BY <1>3, <3>1 DEF Busy, Freezing
    <3> QED BY <2>2, <3>2 DEF VoidCheck
  <2> QED BY <2>1, <2>2
<1>4. FreezesAlone'
  BY <1>1, <1>2, <1>3 DEF ClashInv, FreezesAlone, Freezing
<1>5. CreatesAlone'
  BY <1>1, <1>2 DEF ClashInv, CreatesAlone
<1>6. OneActive'
  BY <1>2 DEF ClashInv, OneActive
<1> QED BY <1>4, <1>5, <1>6 DEF ClashInv

(* The last statement of a freeze: without a clash it finds a DRAFT.       *)
LEMMA FreezeMarkKeepsClash ==
  ASSUME CountTypes, ClashInv, NEW p \in Requests, FreezeMark(p)
  PROVE  ClashInv'
<1> DEFINE d == req[p].d
<1>1. /\ req'[p].op = "idle"
      /\ \A q \in Requests \ {p} : req'[q] = req[q] \/ req'[q].op = "idle"
  BY DEF FreezeMark, Idle, At
<1>2. /\ d \in Docs /\ clash' = clash /\ doc'[d].st = "FROZEN"
      /\ \A e \in Docs \ {d} : doc'[e] = doc[e]
  BY DEF FreezeMark, Frozen, CountTypes, ReqOK, DocsOK
<1>3. /\ d \notin clash => doc[d].st = "DRAFT"
      /\ \A q \in Requests \ {p} :
           req[q].d = d /\ d \notin clash => req[q].op \notin Freezing
  BY DEF FreezeMark, ClashInv, FreezesAlone, Freezing
<1>4. \A q \in Requests : req[q].op \in Freezing => req[q].d \in Docs
  BY DEF CountTypes, ReqOK, Freezing
<1>5. FreezesAlone'
  BY <1>1, <1>2, <1>3, <1>4 DEF ClashInv, FreezesAlone, Freezing
<1>6. CreatesAlone'
  BY <1>1, <1>2, <1>3 DEF ClashInv, CreatesAlone, ActiveStatuses
<1>7. OneActive'
  BY <1>2, <1>3 DEF ClashInv, OneActive, ActiveStatuses
<1> QED BY <1>5, <1>6, <1>7 DEF ClashInv

(* A void meets no freeze without a clash.                                 *)
LEMMA VoidMarkKeepsClash ==
  ASSUME CountTypes, ClashInv, NEW p \in Requests, VoidMark(p)
  PROVE  ClashInv'
<1> DEFINE d == req[p].d
<1>1. /\ req'[p].op = "idle" /\ req[p].op = "void"
      /\ \A q \in Requests \ {p} : req'[q] = req[q]
  BY LeaveOK DEF VoidMark, End, CountTypes
<1>2. /\ d \in Docs /\ clash' = clash /\ doc'[d].st = "VOIDED"
      /\ \A e \in Docs \ {d} : doc'[e] = doc[e]
  BY DEF VoidMark, End, CountTypes, ReqOK, DocsOK, Doc
<1>3. \A q \in Requests : req[q].op \in Freezing => req[q].d \in Docs
  BY DEF CountTypes, ReqOK, Freezing
<1>4. \A q \in Requests \ {p} : req[q].d = d /\ d \notin clash => req[q].op \notin Freezing
  BY <1>1 DEF ClashInv, FreezesAlone
<1>5. FreezesAlone'
  BY <1>1, <1>2, <1>3, <1>4 DEF ClashInv, FreezesAlone, Freezing
<1>6. CreatesAlone'
  BY <1>1, <1>2 DEF ClashInv, CreatesAlone, ActiveStatuses
<1>7. OneActive'
  BY <1>2 DEF ClashInv, OneActive, ActiveStatuses
<1> QED BY <1>5, <1>6, <1>7 DEF ClashInv

(* Every step keeps it.                                                    *)
LEMMA StepClash == CountTypes /\ CountTypes' /\ ClashInv /\ [Next]_vars => ClashInv'
<1> SUFFICES ASSUME CountTypes, CountTypes', ClashInv, [Next]_vars PROVE ClashInv'
  OBVIOUS
<1>1. CASE UNCHANGED vars
  BY <1>1 DEF vars, ClashInv, FreezesAlone, CreatesAlone, OneActive
<1>2. ASSUME NEW p \in Requests, NEW d \in Docs,
             \/ CreateCheck(p, d) \/ FreezeCheck(p, d) \/ UpdateCheck(p, d)
             \/ PostCheck(p, d) \/ VoidCheck(p, d)
      PROVE  ClashInv'
  BY <1>2, CreateCheckKeepsClash, FreezeAndVoidCheckKeepClash, PlainActionsKeepClash
<1>3. ASSUME NEW p \in Requests, CreateInsert(p) PROVE ClashInv'
  BY <1>3, CreateInsertKeepsClash
<1>4. ASSUME NEW p \in Requests, FreezeMark(p) PROVE ClashInv'
  BY <1>4, FreezeMarkKeepsClash
<1>5. ASSUME NEW p \in Requests, VoidMark(p) PROVE ClashInv'
  BY <1>5, VoidMarkKeepsClash
<1>6. ASSUME NEW p \in Requests,
             \/ FreezeLines(p) \/ FreezeLotSnapshots(p) \/ UpdateLines(p)
             \/ PostApply(p) \/ GuardCheck(p) \/ MoveStock(p) \/ Fail(p)
      PROVE  ClashInv'
  BY <1>6, PlainActionsKeepClash
<1> QED BY <1>1, <1>2, <1>3, <1>4, <1>5, <1>6 DEF Next

(* The inductive invariant of the count documents.                         *)
CountInv == CountTypes /\ ClashInv

(* It holds at the start and every step keeps it.                          *)
LEMMA CountInvHolds == Spec => []CountInv
<1>1. Init => CountInv
  BY InitCountTypes, InitClash DEF CountInv
<1>2. CountInv /\ [Next]_vars => CountInv'
  BY StepTypes, StepClash DEF CountInv
<1> QED BY <1>1, <1>2, PTL DEF Spec

(* A warehouse never has two active documents, unless their creation or    *)
(* freezes clashed: count_doc_active_exists is enough then.                *)
THEOREM OneActiveDocument == Spec => []OneActive
<1>1. CountInv => OneActive
  BY DEF CountInv, ClashInv
<1> QED BY <1>1, CountInvHolds, PTL

(* What has ended stays so: the only statement that would bring it back is *)
(* the last one of a freeze, and that one clashed.                         *)
LEMMA StepEnded ==
  ASSUME CountInv, [Next]_vars, NEW d \in Docs, d \notin clash,
         doc[d].st \in {"POSTED", "VOIDED"}
  PROVE  doc'[d].st = doc[d].st /\ doc'[d].posts = doc[d].posts
<1>0. CountTypes /\ ClashInv
  BY DEF CountInv
<1> HIDE DEF CountInv
<1>1. CASE UNCHANGED vars
  BY <1>1 DEF vars
<1>2. ASSUME NEW p \in Requests, CreateInsert(p) PROVE doc'[d] = doc[d]
  BY <1>0, <1>2 DEF CreateInsert, CountTypes, DocsOK
<1>3. ASSUME NEW p \in Requests, FreezeMark(p) PROVE doc'[d] = doc[d]
  <2>1. req[p].d # d
    BY <1>0, <1>3 DEF FreezeMark, ClashInv, FreezesAlone, Freezing
  <2> QED BY <1>0, <1>3, <2>1 DEF FreezeMark, CountTypes, DocsOK
<1>4. ASSUME NEW p \in Requests, UpdateLines(p)
      PROVE  doc'[d].st = doc[d].st /\ doc'[d].posts = doc[d].posts
  BY <1>0, <1>4, UpdateLinesDoc DEF CountTypes, DocsOK
<1>5. ASSUME NEW p \in Requests, PostApply(p) PROVE doc'[d] = doc[d]
  BY <1>0, <1>5, PostApplyDoc DEF CountTypes, DocsOK
<1>6. ASSUME NEW p \in Requests, VoidMark(p) PROVE doc'[d] = doc[d]
  BY <1>0, <1>6 DEF VoidMark, Voidable, ActiveStatuses, CountTypes, DocsOK
<1>7. ASSUME NEW p \in Requests,
             \/ \E e \in Docs :
                  \/ CreateCheck(p, e) \/ FreezeCheck(p, e) \/ UpdateCheck(p, e)
                  \/ PostCheck(p, e) \/ VoidCheck(p, e)
             \/ FreezeLines(p) \/ FreezeLotSnapshots(p) \/ GuardCheck(p)
             \/ MoveStock(p) \/ Fail(p)
      PROVE  doc' = doc
  BY <1>7 DEF CreateCheck, FreezeCheck, UpdateCheck, PostCheck, VoidCheck,
       FreezeLines, FreezeLotSnapshots, GuardCheck, MoveStock, Fail
<1> QED BY <1>1, <1>2, <1>3, <1>4, <1>5, <1>6, <1>7 DEF Next

(* POSTED and VOIDED are final without a clash, so a document becomes      *)
(* COUNT movements at most once.                                           *)
THEOREM EndedStaysFinal == Spec => EndedIsFinal
<1>1. CountInv /\ [Next]_vars =>
        [\A d \in Alone : doc[d].st \in {"POSTED", "VOIDED"} =>
           doc'[d].st = doc[d].st /\ doc'[d].posts = doc[d].posts]_vars
  BY StepEnded DEF Alone
<1> QED BY <1>1, CountInvHolds, PTL DEF Spec, EndedIsFinal

-----------------------------------------------------------------------------
(* The larger and the smaller of two numbers.                              *)
LEMMA MaxMin ==
  ASSUME NEW a \in Int, NEW b \in Int
  PROVE  /\ Max({a, b}) = IF a >= b THEN a ELSE b
         /\ Min({a, b}) = IF a <= b THEN a ELSE b
<1>1. \E x \in {a, b} : \A y \in {a, b} : x >= y
  OBVIOUS
<1>2. \E x \in {a, b} : \A y \in {a, b} : x <= y
  OBVIOUS
<1>3. Max({a, b}) \in {a, b} /\ \A y \in {a, b} : Max({a, b}) >= y
  BY <1>1 DEF Max
<1>4. Min({a, b}) \in {a, b} /\ \A y \in {a, b} : Min({a, b}) <= y
  BY <1>2 DEF Min
<1> QED BY <1>3, <1>4

(* The lot snapshots of a line are finitely many quantities.               *)
LEMMA SnapshotsOK ==
  ASSUME NEW r \in Doc, NEW i \in Items
  PROVE  /\ Snapshots(r, i) \in SUBSET Lots /\ IsFiniteSet(Snapshots(r, i))
         /\ LotsOf(i) \in SUBSET Lots /\ IsFiniteSet(LotsOf(i))
         /\ Snapshots(r, i) \subseteq LotsOf(i)
         /\ \A l \in Lots : r.lot[l] \in Nat
         /\ Diff(r, i) \in Int
<1>1. r.counted[i] \in Int /\ r.line[i] \in Nat /\ \A l \in Lots : r.lot[l] \in Nat
  BY DEF Doc, None
<1>2. LotsOf(i) \in SUBSET Lots /\ Snapshots(r, i) \in SUBSET Lots
  BY DEF LotsOf, Snapshots
<1>3. Snapshots(r, i) \subseteq LotsOf(i)
  BY DEF Snapshots
<1>4. IsFiniteSet(LotsOf(i)) /\ IsFiniteSet(Snapshots(r, i))
  BY <1>2, CountAssumption, FS_Subset
<1>5. Diff(r, i) \in Int
  BY <1>1 DEF Diff
<1> QED BY <1>1, <1>2, <1>3, <1>4, <1>5

(* The lots are taken in a strict total order.                             *)
LEMMA PrecedesOrder ==
  ASSUME NEW r \in Doc, NEW l \in Lots, NEW m \in Lots, NEW n \in Lots
  PROVE  /\ ~Precedes(r, l, l)
         /\ Precedes(r, l, m) /\ Precedes(r, m, n) => Precedes(r, l, n)
         /\ l # m => Precedes(r, l, m) \/ Precedes(r, m, l)
<1>1. r.lot[l] \in Nat /\ r.lot[m] \in Nat /\ r.lot[n] \in Nat
  BY DEF Doc
<1>2. l \in Nat /\ m \in Nat /\ n \in Nat
  OBVIOUS
<1> QED BY <1>1, <1>2 DEF Precedes

(* One of several lot snapshots is taken first.                            *)
LEMMA FirstSnapshot ==
  ASSUME NEW r \in Doc, NEW i \in Items, Snapshots(r, i) # {}
  PROVE  \E l \in Snapshots(r, i) :
           /\ Before(r, l) = {}
           /\ \A m \in Snapshots(r, i) \ {l} : Before(r, m) # {}
<1> DEFINE P == Snapshots(r, i)
           R == {e \in P \X P : Precedes(r, e[1], e[2])}
<1>1. P \in SUBSET Lots /\ IsFiniteSet(P) /\ P # {} /\ \A l \in P : ItemOf[l] = i
  BY SnapshotsOK DEF Snapshots, LotsOf
<1>2. \A l \in P : Before(r, l) = {m \in P : Precedes(r, m, l)}
  BY <1>1 DEF Before
<1>3. \A x, y \in P : <<x, y>> \in R <=> Precedes(r, x, y)
  OBVIOUS
<1>4. PICK l \in P : \A m \in P : <<m, l>> \notin R
  <2>1. /\ \A x \in P : <<x, x>> \notin R
        /\ \A x, y, z \in P : <<x, y>> \in R /\ <<y, z>> \in R => <<x, z>> \in R
    BY <1>1, <1>3, PrecedesOrder
  <2> HIDE DEF R, P
  <2> QED BY <1>1, <2>1, FirstInOrder
<1>5. Before(r, l) = {}
  <2>1. \A m \in P : ~Precedes(r, m, l)
    BY <1>3, <1>4
  <2>2. Before(r, l) = {m \in P : Precedes(r, m, l)}
    BY <1>2
  <2> HIDE DEF R, P
  <2> QED BY <2>1, <2>2
<1>6. ASSUME NEW m \in P, m # l PROVE Before(r, m) # {}
  <2>1. Precedes(r, l, m)
    BY <1>1, <1>3, <1>4, <1>6, PrecedesOrder
  <2> QED BY <1>2, <2>1
<1> QED BY <1>5, <1>6

(* One of several lot snapshots is taken last.                             *)
LEMMA LastSnapshot ==
  ASSUME NEW r \in Doc, NEW P \in SUBSET Lots, P # {}
  PROVE  \E l \in P : \A m \in P \ {l} : Precedes(r, m, l)
<1> DEFINE R == {e \in P \X P : Precedes(r, e[2], e[1])}
<1>1. IsFiniteSet(P)
  BY FS_Subset
<1>2. \A x, y \in P : <<x, y>> \in R <=> Precedes(r, y, x)
  OBVIOUS
<1>3. /\ \A x \in P : <<x, x>> \notin R
      /\ \A x, y, z \in P : <<x, y>> \in R /\ <<y, z>> \in R => <<x, z>> \in R
  BY <1>2, PrecedesOrder
<1>4. PICK l \in P : \A m \in P : <<m, l>> \notin R
  <2> HIDE DEF R
  <2> QED BY <1>1, <1>3, FirstInOrder
<1> QED BY <1>2, <1>4, PrecedesOrder

(* What is taken from a lot.                                               *)
LEMMA ConsumeIs ==
  ASSUME NEW r \in Doc, NEW i \in Items, NEW l \in Snapshots(r, i),
         NEW before, before = SumOf(r.lot, Before(r, l))
  PROVE  /\ before \in Nat /\ r.lot[l] \in Nat
         /\ Consume(r, l) = IF -Diff(r, i) <= before THEN 0
                            ELSE IF -Diff(r, i) - before <= r.lot[l]
                            THEN -Diff(r, i) - before ELSE r.lot[l]
<1>1. ItemOf[l] = i /\ l \in Lots
  BY DEF Snapshots, LotsOf
<1>2. Before(r, l) \in SUBSET Snapshots(r, i)
  BY <1>1 DEF Before
<1>3. IsFiniteSet(Before(r, l)) /\ \A m \in Before(r, l) : r.lot[m] \in Nat
  BY <1>2, SnapshotsOK, FS_Subset
<1>4. before \in Nat
  BY <1>3, SumNat
<1>5. r.lot[l] \in Nat /\ Diff(r, i) \in Int
  BY <1>1, SnapshotsOK
<1> DEFINE left == -Diff(r, i) - before
<1>6. left \in Int
  BY <1>4, <1>5
<1>7. Consume(r, l) = Max({0, Min({left, r.lot[l]})})
  BY <1>1 DEF Consume
<1>8. Min({left, r.lot[l]}) = IF left <= r.lot[l] THEN left ELSE r.lot[l]
  <2> HIDE DEF left
  <2>1. r.lot[l] \in Int
    BY <1>5
  <2> QED BY <1>6, <2>1, MaxMin, Zenon
<1>9. Min({left, r.lot[l]}) \in Int
  BY <1>5, <1>6, <1>8
<1>10. Consume(r, l) = IF 0 >= Min({left, r.lot[l]}) THEN 0 ELSE Min({left, r.lot[l]})
  <2> HIDE DEF left
  <2>1. 0 \in Int
    OBVIOUS
  <2> QED BY <1>7, <1>9, <2>1, MaxMin, Zenon
<1> QED BY <1>4, <1>5, <1>8, <1>10

(* From the lots that come first is taken what they hold, or the whole     *)
(* loss if that is less.                                                   *)
LEMMA ConsumeSum ==
  ASSUME NEW r \in Doc, NEW i \in Items, Diff(r, i) < 0,
         NEW c, \A l \in Snapshots(r, i) : c[l] = Consume(r, l),
         NEW P \in SUBSET Snapshots(r, i),
         \A l \in P : Before(r, l) \subseteq P
  PROVE  SumOf(c, P) = IF -Diff(r, i) <= SumOf(r.lot, P) THEN -Diff(r, i)
                       ELSE SumOf(r.lot, P)
<1> DEFINE Snap == Snapshots(r, i)
           need == -Diff(r, i)
           Prefix(T) == \A l \in T : Before(r, l) \subseteq T
           G == {T \in SUBSET Snap : Prefix(T) =>
                   SumOf(c, T) = IF need <= SumOf(r.lot, T) THEN need
                                 ELSE SumOf(r.lot, T)}
<1>1. Snap \in SUBSET Lots /\ IsFiniteSet(Snap) /\ need \in Nat /\ need > 0
  BY SnapshotsOK
<1>2. \A l \in Snap : r.lot[l] \in Nat /\ c[l] \in Nat
  <2> SUFFICES ASSUME NEW l \in Snap PROVE r.lot[l] \in Nat /\ c[l] \in Nat
    OBVIOUS
  <2> DEFINE b == SumOf(r.lot, Before(r, l))
  <2>1. /\ b \in Nat /\ r.lot[l] \in Nat
        /\ Consume(r, l) = IF -Diff(r, i) <= b THEN 0
                           ELSE IF -Diff(r, i) - b <= r.lot[l]
                           THEN -Diff(r, i) - b ELSE r.lot[l]
    BY ConsumeIs
  <2>2. Diff(r, i) \in Int
    BY SnapshotsOK
  <2> HIDE DEF b
  <2> QED BY <2>1, <2>2
<1>3. ASSUME NEW T \in SUBSET Snap, \A U \in SUBSET T : U # T => U \in G, Prefix(T)
      PROVE  SumOf(c, T) = IF need <= SumOf(r.lot, T) THEN need ELSE SumOf(r.lot, T)
  <2>1. CASE T = {}
    BY <1>1, <2>1, SumEmpty
  <2>2. CASE T # {}
    <3>1. T \in SUBSET Lots /\ IsFiniteSet(T)
      BY <1>1, FS_Subset
    <3>2. PICK z \in T : \A m \in T \ {z} : Precedes(r, m, z)
      BY <2>2, <3>1, LastSnapshot
    <3> DEFINE U == T \ {z}
    <3>3. ItemOf[z] = i /\ \A l \in T : ItemOf[l] = i
      BY DEF Snapshots, LotsOf
    <3>4. Before(r, z) = U
      <4>1. Before(r, z) \subseteq T
        BY <1>3
      <4>2. z \notin Before(r, z)
        BY <3>1, PrecedesOrder DEF Before
      <4>3. U \subseteq Before(r, z)
        BY <3>2, <3>3 DEF Before
      <4> QED BY <4>1, <4>2, <4>3
    <3>5. Prefix(U)
      <4> SUFFICES ASSUME NEW l \in U, NEW m \in Before(r, l) PROVE m \in U
        OBVIOUS
      <4>1. m \in T /\ Precedes(r, m, l) /\ Precedes(r, l, z)
        BY <1>3, <3>2 DEF Before
      <4>2. m # z
        BY <3>1, <4>1, PrecedesOrder
      <4> QED BY <4>1, <4>2
    <3>6. U \in G
      BY <1>3
    <3>7. SumOf(c, U) = IF need <= SumOf(r.lot, U) THEN need ELSE SumOf(r.lot, U)
      BY <3>5, <3>6
    <3>8. SumOf(c, T) = c[z] + SumOf(c, U)
      <4>1. \A x \in T : c[x] \in Int
        BY <1>2
      <4> QED BY <3>1, <4>1, SumRemove, Zenon
    <3>9. SumOf(r.lot, T) = r.lot[z] + SumOf(r.lot, U)
      <4>1. \A x \in T : r.lot[x] \in Int
        BY <1>2
      <4> QED BY <3>1, <4>1, SumRemove, Zenon
    <3>10. SumOf(r.lot, U) \in Nat
      <4>1. IsFiniteSet(U) /\ \A l \in U : r.lot[l] \in Nat
        BY <1>2, <3>1, FS_Subset
      <4> QED BY <4>1, SumNat
    <3>11. /\ r.lot[z] \in Nat
           /\ c[z] = IF need <= SumOf(r.lot, U) THEN 0
                     ELSE IF need - SumOf(r.lot, U) <= r.lot[z]
                     THEN need - SumOf(r.lot, U) ELSE r.lot[z]
      <4>1. SumOf(r.lot, U) = SumOf(r.lot, Before(r, z))
        BY <3>4, Zenon
      <4> HIDE DEF U
      <4> QED BY <1>2, <4>1, ConsumeIs
    <3> HIDE DEF U, need, Prefix
    <3> QED BY <1>1, <3>7, <3>8, <3>9, <3>10, <3>11
  <2> QED BY <2>1, <2>2
<1>4. SUBSET Snap \subseteq G
  <2>1. \A T \in SUBSET Snap : (\A U \in SUBSET T : U # T => U \in G) => T \in G
    BY <1>3
  <2> HIDE DEF G
  <2> QED BY <1>1, <2>1, SubsetInduction
<1>5. P \in G /\ Prefix(P)
  BY <1>4
<1> QED BY <1>5

(* Over the lots of an item, the movements of a post are the difference of *)
(* its line, or nothing without a line.                                    *)
LEMMA MovementSum ==
  ASSUME NEW r \in Doc, Allocatable(r), NEW i \in Items,
         NEW mv, mv = [l \in Lots |-> Movement(r, l)]
  PROVE  /\ SumOf(mv, LotsOf(i)) = IF i \in Lines(r) THEN Diff(r, i) ELSE 0
         /\ \A l \in LotsOf(i) : mv[l] \in Int
<1> DEFINE Snap == Snapshots(r, i)
           L == LotsOf(i)
<1>1. /\ Snap \in SUBSET Lots /\ IsFiniteSet(Snap) /\ L \in SUBSET Lots
      /\ IsFiniteSet(L) /\ Snap \subseteq L /\ Diff(r, i) \in Int
      /\ \A l \in Lots : r.lot[l] \in Nat
  BY SnapshotsOK
<1>2. \A l \in L : ItemOf[l] = i /\ mv[l] = Movement(r, l)
  BY <1>1 DEF LotsOf
<1>3. ASSUME NEW l \in L, l \notin Snap PROVE r.lot[l] = 0
  <2>1. r.lot[l] \in Nat /\ ~(r.lot[l] > 0)
    BY <1>1, <1>3 DEF Snapshots
  <2> QED BY <2>1
<1>4. \A l \in Snap : r.lot[l] # 0
  BY <1>1 DEF Snapshots
<1>5. CASE i \notin Lines(r)
  <2>1. \A l \in L : mv[l] = 0
    BY <1>2, <1>5 DEF Movement
  <2>2. SumOf(mv, L) = 0
    BY <1>1, <2>1, SumZero, Zenon
  <2> QED BY <1>5, <2>1, <2>2
<1>6. CASE i \in Lines(r) /\ Diff(r, i) >= 0
  <2>1. Snap # {}
    BY <1>6 DEF Allocatable
  <2>2. PICK z \in Snap : Before(r, z) = {} /\ \A m \in Snap \ {z} : Before(r, m) # {}
    BY <2>1, FirstSnapshot
  <2>3. z \in L /\ mv[z] = Diff(r, i)
    BY <1>1, <1>2, <1>4, <1>6, <2>2 DEF Movement
  <2>4. \A l \in L \ {z} : mv[l] = 0
    BY <1>2, <1>3, <1>6, <2>2 DEF Movement
  <2>5. \A l \in L : mv[l] \in Int
    BY <1>1, <2>3, <2>4
  <2>6. SumOf(mv, L) = mv[z] + SumOf(mv, L \ {z})
    BY <1>1, <2>3, <2>5, SumRemove, Zenon
  <2>7. IsFiniteSet(L \ {z})
    BY <1>1, FS_RemoveElement
  <2>8. SumOf(mv, L \ {z}) = 0
    BY <2>4, <2>7, SumZero, Zenon
  <2> QED BY <1>1, <1>6, <2>3, <2>5, <2>6, <2>8
<1>7. CASE i \in Lines(r) /\ Diff(r, i) < 0
  <2> DEFINE c == [l \in Lots |-> Consume(r, l)]
             R == L \ Snap
  <2>1. ASSUME NEW l \in Snap PROVE c[l] = Consume(r, l) /\ mv[l] = -c[l]
    <3>1. l \in Lots /\ ItemOf[l] = i /\ mv[l] = Movement(r, l) /\ r.lot[l] # 0
      BY <1>1, <1>2, <1>4
    <3>2. ~(Diff(r, i) >= 0)
      BY <1>1, <1>7
    <3>3. Movement(r, l) = -Consume(r, l)
      BY <1>7, <3>1, <3>2 DEF Movement
    <3> QED BY <3>1, <3>3
  <2>2. \A l \in Snap : c[l] \in Int
    <3> SUFFICES ASSUME NEW l \in Snap PROVE c[l] \in Int
      OBVIOUS
    <3> DEFINE b == SumOf(r.lot, Before(r, l))
    <3>1. /\ b \in Nat /\ r.lot[l] \in Nat
          /\ Consume(r, l) = IF -Diff(r, i) <= b THEN 0
                             ELSE IF -Diff(r, i) - b <= r.lot[l]
                             THEN -Diff(r, i) - b ELSE r.lot[l]
      BY ConsumeIs
    <3> HIDE DEF b
    <3>2. Consume(r, l) \in Int
      BY <1>1, <3>1
    <3> QED BY <2>1, <3>2
  <2>3. \A l \in R : mv[l] = 0
    BY <1>2, <1>3 DEF Movement
  <2>4. ASSUME NEW l \in L PROVE mv[l] \in Int
    <3>1. CASE l \in Snap
      <4>1. c[l] \in Int /\ mv[l] = -c[l]
        BY <2>1, <2>2, <3>1
      <4> HIDE DEF c
      <4> QED BY <4>1
    <3>2. CASE l \in R
      BY <2>3, <3>2
    <3> QED BY <3>1, <3>2
  <2>5. SumOf(c, Snap) = -Diff(r, i)
    <3>1. \A l \in Snap : Before(r, l) \subseteq Snap
      BY <1>1, <1>2 DEF Before
    <3>2. -Diff(r, i) <= SumOf(r.lot, Snap)
      BY <1>7 DEF Allocatable
    <3>3. \A l \in Snapshots(r, i) : c[l] = Consume(r, l)
      BY <2>1
    <3>4. Snapshots(r, i) \in SUBSET Snapshots(r, i)
      OBVIOUS
    <3>5. Diff(r, i) < 0
      BY <1>7
    <3> HIDE DEF c
    <3>6. SumOf(c, Snapshots(r, i)) =
            IF -Diff(r, i) <= SumOf(r.lot, Snapshots(r, i)) THEN -Diff(r, i)
            ELSE SumOf(r.lot, Snapshots(r, i))
      <4> HIDE DEF Snap
      <4> QED BY <3>1, <3>3, <3>4, <3>5, ConsumeSum DEF Snap
    <3> QED BY <3>2, <3>6
  <2>6. SumOf(mv, Snap) = Diff(r, i)
    <3> DEFINE zero == [l \in Lots |-> 0]
    <3>1. \A l \in Snap : mv[l] \in Int /\ c[l] \in Int /\ zero[l] = mv[l] + c[l]
      BY <1>1, <2>1, <2>2
    <3>2. \A l \in Snap : zero[l] = 0
      BY <1>1
    <3> HIDE DEF zero, c, Snap
    <3>3. SumOf(zero, Snap) = 0
      BY <1>1, <3>2, SumZero, Zenon
    <3>4. SumOf(zero, Snap) = SumOf(mv, Snap) + SumOf(c, Snap)
      BY <1>1, <3>1, SumPlus
    <3>5. SumOf(mv, Snap) \in Int
      BY <1>1, <3>1, SumType
    <3> QED BY <1>1, <2>5, <3>3, <3>4, <3>5
  <2>7. IsFiniteSet(R) /\ Snap \cap R = {} /\ Snap \cup R = L
    BY <1>1, FS_Difference
  <2>8. SumOf(mv, R) = 0
    BY <2>3, <2>7, SumZero, Zenon
  <2>9. SumOf(mv, Snap \cup R) = SumOf(mv, Snap) + SumOf(mv, R)
    <3>1. \A l \in Snap \cup R : mv[l] \in Int
      BY <2>4, <2>7
    <3> HIDE DEF Snap, R
    <3> QED BY <1>1, <2>7, <3>1, SumUnion
  <2>10. SumOf(mv, L) = SumOf(mv, Snap \cup R)
    BY <2>7, Zenon
  <2> QED BY <1>1, <1>7, <2>4, <2>6, <2>8, <2>9, <2>10
<1> QED BY <1>1, <1>5, <1>6, <1>7

(* Since the snapshot of a document, or of a freeze in flight, whose stock *)
(* was left alone, the lines are what is on hand.                          *)
QuietInv ==
  /\ \A d \in Docs \cap quiet :
       doc[d].st # "NONE" /\ \A i \in Items : doc[d].line[i] = OnHand(stock, i)
  /\ \A p \in Requests \cap quiet :
       /\ req[p].op \in {"snapshot", "mark"}
       /\ \A i \in Items : req[p].line[i] = OnHand(stock, i)

(* A step that moves no stock, writes no lines and lets no request of the  *)
(* history go.                                                             *)
LEMMA PlainKeepsQuiet ==
  ASSUME QuietInv, stock' = stock, quiet' \subseteq quiet,
         \A d \in Docs \cap quiet' : doc'[d].line = doc[d].line /\ doc'[d].st # "NONE",
         \A p \in Requests \cap quiet' :
           /\ req'[p].line = req[p].line /\ req'[p].op \in {"snapshot", "mark"}
  PROVE  QuietInv'
BY DEF QuietInv, OnHand, LotsOf

(* Nothing is quiet before the first snapshot.                             *)
LEMMA InitQuiet == Init => QuietInv
BY DEF Init, QuietInv

(* Every step keeps it.                                                    *)
LEMMA StepQuiet == CountTypes /\ QuietInv /\ [Next]_vars => QuietInv'
<1> SUFFICES ASSUME CountTypes, QuietInv, [Next]_vars PROVE QuietInv'
  OBVIOUS
<1>0. \A q \in Requests \cap quiet : req[q].op \in {"snapshot", "mark"}
  BY DEF QuietInv
<1>00. \A d \in Docs \cap quiet : doc[d].st # "NONE"
  BY DEF QuietInv
<1>1. CASE UNCHANGED vars
  BY <1>1 DEF vars, QuietInv, OnHand, LotsOf
<1>2. ASSUME NEW p \in Requests, NEW d \in Docs \cup {None}, NEW op \in Ops \ {"idle"},
             op # "move" => d \in Docs, Enter(p, op, d), UNCHANGED <<doc, stock, quiet>>
      PROVE  QuietInv'
  <2>1. p \notin quiet
    BY <1>0, <1>2 DEF Enter, Idle, At
  <2>2. \A q \in Requests \ {p} : req'[q] = req[q]
    BY <1>2, EnterOK DEF CountTypes
  <2> QED BY <1>0, <1>00, <1>2, <2>1, <2>2, PlainKeepsQuiet
<1>3. ASSUME NEW p \in Requests, NEW d \in Docs,
             \/ CreateCheck(p, d) \/ FreezeCheck(p, d) \/ UpdateCheck(p, d)
             \/ PostCheck(p, d) \/ VoidCheck(p, d)
      PROVE  QuietInv'
  <2>1. PICK op \in Ops \ {"idle", "move"} : Enter(p, op, d)
    BY <1>3 DEF CreateCheck, FreezeCheck, UpdateCheck, PostCheck, VoidCheck, Ops
  <2>2. UNCHANGED <<doc, stock, quiet>>
    BY <1>3 DEF CreateCheck, FreezeCheck, UpdateCheck, PostCheck, VoidCheck
  <2> QED BY <1>2, <2>1, <2>2
<1>4. ASSUME NEW p \in Requests, GuardCheck(p) PROVE QuietInv'
  <2>1. "move" \in Ops \ {"idle"} /\ None \in Docs \cup {None}
    BY DEF Ops
  <2>2. Enter(p, "move", None) /\ UNCHANGED <<doc, stock, quiet>>
    BY <1>4 DEF GuardCheck
  <2> QED BY <1>2, <2>1, <2>2
<1>5. ASSUME NEW p \in Requests, CreateInsert(p) PROVE QuietInv'
  <2>1. /\ p \notin quiet /\ req[p].d \in Docs /\ req[p].d \notin quiet
        /\ UNCHANGED <<stock, quiet>>
    BY <1>0, <1>00, <1>5 DEF CreateInsert, End, CountTypes, ReqOK
  <2>2. \A q \in Requests \ {p} : req'[q] = req[q]
    BY <1>5, LeaveOK DEF CreateInsert, End, CountTypes
  <2>3. \A d \in Docs \ {req[p].d} : doc'[d] = doc[d]
    BY <1>5 DEF CreateInsert, CountTypes, DocsOK
  <2> QED BY <1>0, <1>00, <2>1, <2>2, <2>3, PlainKeepsQuiet
<1>6. ASSUME NEW p \in Requests, FreezeLines(p) PROVE QuietInv'
  <2>1. UNCHANGED <<doc, stock>> /\ quiet' = quiet \cup {p} /\ p \notin Docs
    BY <1>6 DEF FreezeLines
  <2>2. /\ req'[p].op = "snapshot"
        /\ \A i \in Items : req'[p].line[i] = OnHand(stock, i)
        /\ \A q \in Requests \ {p} : req'[q] = req[q]
    BY <1>6 DEF FreezeLines, CountTypes, ReqOK
  <2> QED BY <2>1, <2>2 DEF QuietInv, OnHand, LotsOf
<1>7. ASSUME NEW p \in Requests, FreezeLotSnapshots(p) PROVE QuietInv'
  <2>1. UNCHANGED <<doc, stock, quiet>>
    BY <1>7 DEF FreezeLotSnapshots
  <2>2. /\ req'[p].op = "mark" /\ req'[p].line = req[p].line
        /\ \A q \in Requests \ {p} : req'[q] = req[q]
    BY <1>7 DEF FreezeLotSnapshots, CountTypes, ReqOK
  <2> QED BY <1>0, <1>00, <2>1, <2>2, PlainKeepsQuiet
<1>8. ASSUME NEW p \in Requests, FreezeMark(p) PROVE QuietInv'
  <2> DEFINE d == req[p].d
  <2>1. /\ d \in Docs /\ d \notin Requests /\ p \notin Docs /\ stock' = stock
        /\ quiet' = IF p \in quiet THEN (quiet \ {p}) \cup {d} ELSE quiet \ {d}
    BY <1>8 DEF FreezeMark, CountTypes, ReqOK
  <2>2. /\ doc'[d].st = "FROZEN" /\ doc'[d].line = req[p].line
        /\ \A e \in Docs \ {d} : doc'[e] = doc[e]
    BY <1>8, <2>1 DEF FreezeMark, Frozen, CountTypes, DocsOK
  <2>3. \A q \in Requests \ {p} : req[q].op # "update" => req'[q] = req[q]
    BY <1>8 DEF FreezeMark
  <2>4. p \notin quiet'
    BY <2>1, <1>8
  <2>5. \A q \in Requests \cap quiet' : q \in quiet /\ req'[q] = req[q]
    BY <1>0, <2>1, <2>3, <2>4
  <2>6. \A e \in Docs \cap quiet' : (e \in quiet /\ e # d) \/ (e = d /\ p \in quiet)
    BY <2>1
  <2> QED BY <2>1, <2>2, <2>5, <2>6 DEF QuietInv, OnHand, LotsOf
<1>9. ASSUME NEW p \in Requests, UpdateLines(p) PROVE QuietInv'
  <2>1. p \notin quiet /\ UNCHANGED <<stock, quiet>>
    BY <1>0, <1>9 DEF UpdateLines, End
  <2>2. \A q \in Requests \ {p} : req'[q] = req[q]
    BY <1>9, LeaveOK DEF UpdateLines, End, CountTypes
  <2>3. PICK w \in Doc :
          /\ doc' = [doc EXCEPT ![req[p].d] = w] /\ w.line = doc[req[p].d].line
          /\ w.st = doc[req[p].d].st \/ w.st = "COUNTED"
    BY <1>9, UpdateLinesDoc
  <2>4. \A d \in Docs \cap quiet' : doc'[d].line = doc[d].line /\ doc'[d].st # "NONE"
    BY <1>00, <2>1, <2>3 DEF CountTypes, DocsOK
  <2> QED BY <1>0, <2>1, <2>2, <2>4, PlainKeepsQuiet
<1>10. ASSUME NEW p \in Requests, PostApply(p) \/ MoveStock(p) PROVE QuietInv'
  BY <1>10 DEF PostApply, MoveStock, QuietInv
<1>11. ASSUME NEW p \in Requests, VoidMark(p) PROVE QuietInv'
  <2>1. p \notin quiet /\ stock' = stock /\ quiet' = quiet \ {req[p].d}
    BY <1>0, <1>11 DEF VoidMark, End
  <2>2. \A q \in Requests \ {p} : req'[q] = req[q]
    BY <1>11, LeaveOK DEF VoidMark, End, CountTypes
  <2>3. \A d \in Docs \ {req[p].d} : doc'[d] = doc[d]
    BY <1>11 DEF VoidMark, CountTypes, DocsOK
  <2> QED BY <1>0, <1>00, <2>1, <2>2, <2>3, PlainKeepsQuiet
<1>12. ASSUME NEW p \in Requests, Fail(p) PROVE QuietInv'
  <2>1. UNCHANGED <<doc, stock>> /\ quiet' = quiet \ {p}
    BY <1>12 DEF Fail
  <2>2. \A q \in Requests \ {p} : req'[q] = req[q]
    BY <1>12, LeaveOK DEF Fail, CountTypes
  <2> QED BY <1>0, <1>00, <2>1, <2>2, PlainKeepsQuiet
<1> QED BY <1>1, <1>3, <1>4, <1>5, <1>6, <1>7, <1>8, <1>9, <1>10, <1>11, <1>12 DEF Next

(* A post adds the movements of its document to the stock.                 *)
LEMMA PostAdds ==
  ASSUME CountTypes, NEW p \in Requests, PostApply(p), NEW i \in Items,
         NEW r, r = doc[req[p].d]
  PROVE  /\ OnHand(stock', i) = OnHand(stock, i) + (IF i \in Lines(r) THEN Diff(r, i) ELSE 0)
         /\ OnHand(stock, i) \in Int /\ Diff(r, i) \in Int
<1> DEFINE mv == [l \in Lots |-> Movement(r, l)]
           L == LotsOf(i)
<1>1. r \in Doc /\ Allocatable(r)
  BY DEF PostApply, End, CountTypes, ReqOK, DocsOK
<1>2. IsFiniteSet(L) /\ L \in SUBSET Lots /\ Diff(r, i) \in Int
  BY <1>1, SnapshotsOK
<1>3. /\ SumOf(mv, L) = IF i \in Lines(r) THEN Diff(r, i) ELSE 0
      /\ \A l \in L : mv[l] \in Int
  <2> HIDE DEF mv
  <2> QED BY <1>1, MovementSum DEF mv
<1>4. \A l \in L : stock[l] \in Int /\ mv[l] \in Int /\ stock'[l] = stock[l] + mv[l]
  <2>1. stock' = [l \in Lots |-> stock[l] + Movement(r, l)]
    BY DEF PostApply
  <2>2. \A l \in L : stock[l] \in Int
    <3>1. \A l \in Lots : stock[l] \in Int
      BY DEF CountTypes
    <3> QED BY <1>2, <3>1
  <2> QED BY <1>2, <1>3, <2>1, <2>2
<1> HIDE DEF mv, L
<1>5. SumOf(stock', L) = SumOf(stock, L) + SumOf(mv, L)
  BY <1>2, <1>4, SumPlus
<1>6. SumOf(stock, L) \in Int
  BY <1>2, <1>4, SumType
<1> QED BY <1>2, <1>3, <1>5, <1>6 DEF OnHand, L

(* Only a post writes COUNT movements, and they are its differences.       *)
LEMMA StepPosts ==
  ASSUME CountTypes, QuietInv, [Next]_vars, NEW d \in Docs,
         doc'[d].posts > doc[d].posts
  PROVE  /\ \A i \in Items :
              OnHand(stock', i) - OnHand(stock, i) =
                IF i \in Lines(doc[d]) THEN Diff(doc[d], i) ELSE 0
         /\ d \in quiet => \A i \in Lines(doc[d]) :
              OnHand(stock', i) = doc[d].counted[i]
<1>0. doc \in [Docs -> Doc] /\ doc[d].posts \in Nat
  BY DEF CountTypes, DocsOK, Doc
<1>1. ASSUME doc'[d].posts = doc[d].posts PROVE FALSE
  BY <1>0, <1>1
<1>2. ASSUME NEW p \in Requests, CreateInsert(p) PROVE FALSE
  <2>1. doc'[d] = doc[d] \/ doc'[d].posts = 0
    BY <1>0, <1>2 DEF CreateInsert, NewDoc
  <2> QED BY <1>0, <2>1
<1>3. ASSUME NEW p \in Requests, FreezeMark(p) PROVE FALSE
  <2>1. doc'[d].posts = doc[d].posts
    BY <1>0, <1>3 DEF FreezeMark
  <2> QED BY <1>1, <2>1
<1>4. ASSUME NEW p \in Requests, UpdateLines(p) PROVE FALSE
  <2>1. doc'[d].posts = doc[d].posts
    BY <1>0, <1>4, UpdateLinesDoc
  <2> QED BY <1>1, <2>1
<1>5. ASSUME NEW p \in Requests, VoidMark(p) PROVE FALSE
  <2>1. doc'[d].posts = doc[d].posts
    BY <1>0, <1>5 DEF VoidMark, Doc
  <2> QED BY <1>1, <2>1
<1>6. ASSUME NEW p \in Requests,
             \/ \E e \in Docs :
                  \/ CreateCheck(p, e) \/ FreezeCheck(p, e) \/ UpdateCheck(p, e)
                  \/ PostCheck(p, e) \/ VoidCheck(p, e)
             \/ FreezeLines(p) \/ FreezeLotSnapshots(p) \/ GuardCheck(p)
             \/ MoveStock(p) \/ Fail(p)
      PROVE  FALSE
  <2>1. doc' = doc
    BY <1>6 DEF CreateCheck, FreezeCheck, UpdateCheck, PostCheck, VoidCheck,
         FreezeLines, FreezeLotSnapshots, GuardCheck, MoveStock, Fail
  <2> QED BY <1>1, <2>1
<1>7. PICK p \in Requests : PostApply(p)
  BY <1>1, <1>2, <1>3, <1>4, <1>5, <1>6 DEF Next, vars
<1>8. d = req[p].d
  <2>1. d # req[p].d => doc'[d] = doc[d]
    BY <1>0, <1>7, PostApplyDoc
  <2> QED BY <1>1, <2>1
<1>9. ASSUME NEW i \in Items
      PROVE  OnHand(stock', i) - OnHand(stock, i) =
               IF i \in Lines(doc[d]) THEN Diff(doc[d], i) ELSE 0
  BY <1>7, <1>8, PostAdds
<1>10. ASSUME d \in quiet, NEW i \in Lines(doc[d])
       PROVE  OnHand(stock', i) = doc[d].counted[i]
  <2>1. i \in Items
    BY DEF Lines
  <2>2. /\ OnHand(stock', i) = OnHand(stock, i) + Diff(doc[d], i)
        /\ OnHand(stock, i) \in Int
    BY <1>7, <1>8, <2>1, PostAdds
  <2>3. doc[d].line[i] = OnHand(stock, i)
    BY <1>10, <2>1 DEF QuietInv
  <2>4. doc[d].counted[i] \in Int /\ doc[d].line[i] \in Int
    BY <1>0, <2>1 DEF Doc, None
  <2> QED BY <2>2, <2>3, <2>4 DEF Diff
<1> QED BY <1>9, <1>10

(* Posting moves every counted item by exactly its difference, however the *)
(* difference is spread over the lots, and after it the stock is what was  *)
(* counted if none was moved since the snapshot.                           *)
THEOREM PostMovesTheDifference == Spec => PostMovesDiff
<1>1. Init => CountTypes /\ QuietInv
  BY InitCountTypes, InitQuiet
<1>2. CountTypes /\ QuietInv /\ [Next]_vars => (CountTypes /\ QuietInv)'
  BY StepTypes, StepQuiet
<1>3. CountTypes /\ QuietInv /\ [Next]_vars =>
        [\A d \in Docs : doc'[d].posts > doc[d].posts =>
           /\ \A i \in Items :
                OnHand(stock', i) - OnHand(stock, i) =
                  IF i \in Lines(doc[d]) THEN Diff(doc[d], i) ELSE 0
           /\ d \in quiet => \A i \in Lines(doc[d]) :
                OnHand(stock', i) = doc[d].counted[i]]_vars
  BY StepPosts
<1> QED BY <1>1, <1>2, <1>3, PTL DEF Spec, PostMovesDiff
=============================================================================
