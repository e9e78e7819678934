------------------------- MODULE InboundFlowProofs --------------------------
(***************************************************************************)
(* The inbound flow for any receipts, source documents, lots, payloads,    *)
(* page size and number of requests in flight.                             *)
(***************************************************************************)
EXTENDS InboundFlow, SumProofs

EventRow == [r : Receipts, pay : Payloads, kind : {"COMMIT", "REVERSAL"},
             target : Nat, st : {"COMMITTED", "SUPERSEDED"}, late : BOOLEAN]

ReceiptRow == [st : {"NONE", "DRAFT", "RELEASED", "COMPLETED"}, src : Orders \cup {None}]

Ops == {"idle", "create", "submit", "reverse"}

RequestRow == [op : Ops, r : Receipts \cup {None}, src : Orders \cup {None},
               pay : Payloads \cup {<< >>}, target : Nat, id : Nat, done : BOOLEAN]

Opened(r) == receipt[r].st \in {"RELEASED", "COMPLETED"}

(* What a request in flight holds: a reversal carries its event; an id it  *)
(* has taken is not used yet.                                              *)
RequestShape(p) ==
  LET q == req[p] IN
  /\ q.op = "idle" => q.r = None
  /\ q.op # "idle" => q.r \in Receipts
  /\ IF q.op = "create" THEN q.src \in Orders ELSE q.src = None
  /\ q.op \in {"submit", "reverse"} => q.pay \in Payloads /\ Opened(q.r)
  /\ q.op # "reverse" => q.target = 0
  /\ q.op = "reverse" =>
       /\ q.target \in DOMAIN events /\ events[q.target].kind = "COMMIT"
       /\ events[q.target].r = q.r /\ events[q.target].pay = q.pay
  /\ q.id # 0 => q.id \in 1..lastId /\ q.id \notin DOMAIN events

EventShape(n) ==
  /\ events[n] \in EventRow
  /\ events[n].target \in (DOMAIN events \cup {0}) \ {n}
  /\ Opened(events[n].r)

Shapes ==
  /\ receipt \in [Receipts -> ReceiptRow]
  /\ \A r \in Receipts : receipt[r].st = "NONE" => receipt[r].src = None
  /\ lastId \in Nat /\ DOMAIN events \subseteq 1..lastId
  /\ \A n \in DOMAIN events : EventShape(n)
  /\ req \in [Requests -> RequestRow]
  /\ \A p \in Requests : RequestShape(p)
  /\ \A p \in Requests : \A q \in Requests \ {p} : req[p].id # 0 => req[q].id # req[p].id
  /\ clash \subseteq Receipts \cup Orders

StockInv ==
  /\ stock \in [Lots -> Nat]
  /\ \A l \in Lots : stock[l] + LotTotal(events, OfKind("REVERSAL"), l)
                       = Stock0[l] + LotTotal(events, OfKind("COMMIT"), l)

(* The receipt and the source document a request works on.                 *)
Names(p) == {req[p].r, req[p].src} \ {None}

(* Two requests in flight on a name make it a clash.                       *)
OneAtATime ==
  \A p \in Requests : \A q \in Requests \ {p} : Names(p) \cap Names(q) \subseteq clash

(* What a request has read still holds, if it has the name to itself.      *)
StillReversible ==
  \A p \in Requests : req[p].op = "reverse" /\ req[p].r \notin clash =>
    ReversalsOf(req[p].target) = {}

StillUnreceived ==
  \A p \in Requests : req[p].op = "create" /\ req[p].src \notin clash =>
    NotYetReceived(req[p].src)

StillFits ==
  \A p \in Requests : req[p].op = "submit" /\ req[p].r \notin clash =>
    Fits(req[p].r, req[p].pay)

(* An operation that is to complete its receipt does, in any case; one     *)
(* that has the receipt to itself and is not to complete it does not.      *)
DoneIsRight ==
  \A p \in Requests : req[p].op = "submit" =>
    /\ req[p].done => Completes(req[p].r, req[p].pay)
    /\ req[p].r \notin clash /\ Completes(req[p].r, req[p].pay) => req[p].done

Reads == OneAtATime /\ StillReversible /\ StillUnreceived /\ StillFits /\ DoneIsRight

(* The two halves of DoneOnce.                                             *)
SourceOnce ==
  \A r, q \in Receipts :
    receipt[r].src = receipt[q].src /\ receipt[r].src \in Alone => r = q

ReversedOnce ==
  \A n \in DOMAIN events : events[n].r \in Alone => Cardinality(ReversalsOf(n)) <= 1

History == CompletedIffReceived /\ SourceOnce /\ ReversedOnce

(* The cursor stands on an event, so one that comes later with a smaller   *)
(* id is late.                                                             *)
CursorInv ==
  /\ cursor \in DOMAIN events \cup {0}
  /\ seen \subseteq DOMAIN events
  /\ NothingSkipped

-----------------------------------------------------------------------------
(* What clients submit can be added up.                                    *)
LEMMA PayloadAdds ==
  ASSUME NEW pay \in Payloads
  PROVE  Adding(pay) /\ LotsIn(pay) \subseteq Lots
<1>1. pay \in Seq(Part)
  BY InboundAssumption
<1>2. Len(pay) \in Nat /\ DOMAIN pay = 1..Len(pay) /\ \A n \in 1..Len(pay) : pay[n] \in Part
  BY <1>1
<1>3. IsFiniteSet(1..Len(pay))
  BY <1>2, FS_Interval
<1> QED BY <1>2, <1>3 DEF Adding, Part, LotsIn

(* The events are finitely many rows.                                      *)
LEMMA EventsAre ==
  ASSUME Shapes
  PROVE  /\ IsFiniteSet(DOMAIN events) /\ DOMAIN events \subseteq Nat \ {0}
         /\ \A n \in DOMAIN events : events[n] \in EventRow /\ Adding(events[n].pay)
<1>1. lastId \in Nat /\ DOMAIN events \subseteq 1..lastId
  BY DEF Shapes
<1>2. IsFiniteSet(DOMAIN events)
  <2>1. IsFiniteSet(1..lastId)
    BY <1>1, FS_Interval
  <2> QED BY <1>1, <2>1, FS_Subset
<1>3. \A n \in DOMAIN events : events[n] \in EventRow
  BY DEF Shapes, EventShape
<1>4. \A n \in DOMAIN events : Adding(events[n].pay)
  BY <1>3, PayloadAdds DEF EventRow
<1> QED BY <1>1, <1>2, <1>3, <1>4

(* What has been received is a natural number.                             *)
LEMMA ReceivedIs ==
  ASSUME Shapes, NEW r, NEW ln PROVE Received(r, ln) \in Nat
<1> DEFINE M == {n \in OfKind("COMMIT") : events[n].r = r}
<1>1. M \subseteq DOMAIN events
  BY DEF OfKind
<1>2. IsFiniteSet(M) /\ \A n \in M : Adding(events[n].pay)
  BY <1>1, EventsAre, FS_Subset
<1>3. Received(r, ln) = LineTotal(events, M, ln)
  BY DEF Received
<1> HIDE DEF M
<1> QED BY <1>2, <1>3, TotalsNat

(* The request rows, taken apart.                                          *)
LEMMA RequestIs ==
  ASSUME Shapes, NEW p \in Requests
  PROVE  /\ req[p] \in RequestRow /\ RequestShape(p)
         /\ req \in [Requests -> RequestRow]
BY DEF Shapes

-----------------------------------------------------------------------------
(* Events that are there stay, with their receipt, lines and kind; none is *)
(* COMMITTED again.                                                        *)
PastKept ==
  /\ DOMAIN events \subseteq DOMAIN events'
  /\ \A n \in DOMAIN events :
       /\ events'[n].r = events[n].r /\ events'[n].pay = events[n].pay
       /\ events'[n].kind = events[n].kind /\ events'[n].target = events[n].target
       /\ events'[n].late = events[n].late
       /\ events'[n].st = "COMMITTED" => events[n].st = "COMMITTED"

(* A step writes the event e with the id.                                  *)
Grown(id, e) ==
  /\ id \in Nat \ {0} /\ id \notin DOMAIN events /\ id <= lastId
  /\ DOMAIN events' = DOMAIN events \cup {id}
  /\ e \in EventRow /\ events'[id] = e
  /\ e.late = (\E n \in DOMAIN events : n > id)
  /\ \A n \in DOMAIN events : events'[n] \in EventRow
  /\ PastKept

(* What has been received grows by the lines of an operation's event.      *)
LEMMA LinesGrow ==
  ASSUME Shapes, NEW id, NEW e, Grown(id, e), NEW r, NEW ln
  PROVE  /\ e.r = r /\ e.kind = "COMMIT" =>
              Received(r, ln)' = Received(r, ln) + OfLine(e.pay, ln)
         /\ e.r # r \/ e.kind # "COMMIT" => Received(r, ln)' = Received(r, ln)
<1> DEFINE M == {n \in OfKind("COMMIT") : events[n].r = r}
           MM == {n \in OfKind("COMMIT")' : events'[n].r = r}
<1>1. M \subseteq DOMAIN events /\ id \notin M
  BY DEF OfKind, Grown
<1>2. IsFiniteSet(M) /\ \A n \in M : events[n].pay = events'[n].pay /\ Adding(events[n].pay)
  BY <1>1, EventsAre, FS_Subset DEF Grown, PastKept
<1>3. Adding(e.pay) /\ e.pay = events'[id].pay
  BY PayloadAdds DEF Grown, EventRow
<1>4. Received(r, ln) = LineTotal(events, M, ln) /\ Received(r, ln)' = LineTotal(events', MM, ln)
  BY DEF Received
<1>5. /\ e.r = r /\ e.kind = "COMMIT" => MM = M \cup {id}
      /\ e.r # r \/ e.kind # "COMMIT" => MM = M
  BY DEF Grown, PastKept, OfKind
<1> HIDE DEF M, MM
<1>6. LineTotal(events', M, ln) = LineTotal(events, M, ln)
  BY <1>2, TotalsAgree
<1>7. e.r = r /\ e.kind = "COMMIT" =>
        LineTotal(events', MM, ln) = LineTotal(events, M, ln) + OfLine(e.pay, ln)
  BY <1>1, <1>2, <1>3, <1>5, TotalsGrow
<1>8. e.r # r \/ e.kind # "COMMIT" => LineTotal(events', MM, ln) = LineTotal(events', M, ln)
  BY <1>5, Zenon
<1> QED BY <1>4, <1>6, <1>7, <1>8

(* What the events of a kind have moved on a lot grows by an event of it.  *)
LEMMA LotsGrow ==
  ASSUME Shapes, NEW id, NEW e, Grown(id, e), NEW kind, NEW l
  PROVE  /\ LotTotal(events, OfKind(kind), l) \in Nat
         /\ e.kind = kind => LotTotal(events, OfKind(kind), l)'
                              = LotTotal(events, OfKind(kind), l) + OfLot(e.pay, l)
         /\ e.kind # kind => LotTotal(events, OfKind(kind), l)'
                              = LotTotal(events, OfKind(kind), l)
<1> DEFINE N == OfKind(kind)
           NN == OfKind(kind)'
<1>1. N \subseteq DOMAIN events /\ id \notin N
  BY DEF OfKind, Grown
<1>2. IsFiniteSet(N) /\ \A n \in N : events[n].pay = events'[n].pay /\ Adding(events[n].pay)
  BY <1>1, EventsAre, FS_Subset DEF Grown, PastKept
<1>3. Adding(e.pay) /\ e.pay = events'[id].pay
  BY PayloadAdds DEF Grown, EventRow
<1>4. LotTotal(events, OfKind(kind), l)' = LotTotal(events', NN, l)
  OBVIOUS
<1>5. /\ e.kind = kind => NN = N \cup {id}
      /\ e.kind # kind => NN = N
  BY DEF Grown, PastKept, OfKind
<1> HIDE DEF N, NN
<1>6. LotTotal(events', N, l) = LotTotal(events, N, l) /\ LotTotal(events, N, l) \in Nat
  BY <1>2, TotalsAgree, TotalsNat
<1>7. e.kind = kind => LotTotal(events', NN, l) = LotTotal(events, N, l) + OfLot(e.pay, l)
  BY <1>1, <1>2, <1>3, <1>5, LotGrows
<1>8. e.kind # kind => LotTotal(events', NN, l) = LotTotal(events', N, l)
  BY <1>5, Zenon
<1> QED BY <1>4, <1>6, <1>7, <1>8 DEF N

(* What the event of a request in flight is.                               *)
LEMMA EventIs ==
  ASSUME Shapes, NEW p \in Requests, req[p].op \in {"submit", "reverse"}, req[p].id # 0,
         NEW kind \in {"COMMIT", "REVERSAL"}, NEW e, e = Event(req[p], kind)
  PROVE  /\ e \in EventRow /\ e.r = req[p].r /\ e.pay = req[p].pay /\ e.kind = kind
         /\ e.target = req[p].target /\ e.st = "COMMITTED"
         /\ e.late = (\E n \in DOMAIN events : n > req[p].id)
         /\ req[p].id \in Nat \ {0} /\ req[p].id \notin DOMAIN events
         /\ req[p].id <= lastId /\ req[p].r \in Receipts
<1>1. /\ req[p].r \in Receipts /\ req[p].pay \in Payloads /\ req[p].target \in Nat
      /\ req[p].id \in 1..lastId /\ req[p].id \notin DOMAIN events
  BY RequestIs DEF RequestShape, RequestRow
<1>2. lastId \in Nat
  BY DEF Shapes
<1> QED BY <1>1, <1>2 DEF Event, EventRow

(* An operation's event.                                                   *)
LEMMA CommitGrows ==
  ASSUME Shapes, NEW p \in Requests, SubmitCommit(p)
  PROVE  Grown(req[p].id, Event(req[p], "COMMIT"))
<1> DEFINE e == Event(req[p], "COMMIT")
           id == req[p].id
<1>1. events' = With(events, id, e) /\ req[p].op = "submit" /\ id # 0
  BY DEF SubmitCommit
<1>2. /\ e \in EventRow /\ id \in Nat \ {0} /\ id \notin DOMAIN events /\ id <= lastId
      /\ e.late = (\E n \in DOMAIN events : n > id)
  BY <1>1, EventIs
<1> HIDE DEF e, id
<1>3. /\ DOMAIN events' = DOMAIN events \cup {id} /\ events'[id] = e
      /\ \A n \in DOMAIN events : events'[n] = events[n]
  BY <1>1, <1>2 DEF With
<1>4. \A n \in DOMAIN events : events[n] \in EventRow
  BY EventsAre
<1>5. PastKept
  BY <1>3 DEF PastKept
<1>6. Grown(id, e)
  BY <1>2, <1>3, <1>4, <1>5 DEF Grown
<1> QED BY <1>6 DEF e, id

(* A reversal's event; the one it undoes is superseded.                    *)
LEMMA ReversalGrows ==
  ASSUME Shapes, NEW p \in Requests, ReverseCommit(p)
  PROVE  Grown(req[p].id, Event(req[p], "REVERSAL"))
<1> DEFINE e == Event(req[p], "REVERSAL")
           id == req[p].id
           t == req[p].target
           o == Superseded(events[t])
           mid == [events EXCEPT ![t] = o]
<1>1. events' = With(mid, id, e) /\ req[p].op = "reverse" /\ id # 0
  BY DEF ReverseCommit
<1>2. /\ e \in EventRow /\ id \in Nat \ {0} /\ id \notin DOMAIN events /\ id <= lastId
      /\ e.late = (\E n \in DOMAIN events : n > id)
  BY <1>1, EventIs
<1>3. t \in DOMAIN events /\ events[t] \in EventRow
  BY <1>1, RequestIs, EventsAre DEF RequestShape
<1>4. /\ o \in EventRow /\ o.r = events[t].r /\ o.pay = events[t].pay
      /\ o.kind = events[t].kind /\ o.target = events[t].target
      /\ o.late = events[t].late /\ o.st = "SUPERSEDED"
  BY <1>3 DEF Superseded, EventRow
<1> HIDE DEF e, id, o, t
<1>5. DOMAIN mid = DOMAIN events /\ \A n \in DOMAIN events :
        mid[n] = IF n = t THEN o ELSE events[n]
  OBVIOUS
<1> HIDE DEF mid
<1>6. /\ DOMAIN events' = DOMAIN events \cup {id} /\ events'[id] = e
      /\ \A n \in DOMAIN events : events'[n] = IF n = t THEN o ELSE events[n]
  BY <1>1, <1>2, <1>5 DEF With
<1>7. \A n \in DOMAIN events : events'[n] \in EventRow
  BY <1>4, <1>6, EventsAre
<1>8. PastKept
  BY <1>4, <1>6 DEF PastKept
<1>9. Grown(id, e)
  BY <1>2, <1>6, <1>7, <1>8 DEF Grown
<1> QED BY <1>9 DEF e, id

-----------------------------------------------------------------------------
(* No receipt is closed again.                                             *)
OpenKept == \A r \in Receipts : Opened(r) => Opened(r)'

(* A request the step leaves alone keeps its shape.                        *)
LEMMA OtherShape ==
  ASSUME Shapes, PastKept, OpenKept, lastId' \in Nat, lastId <= lastId',
         NEW q \in Requests, req'[q] = req[q],
         req[q].id # 0 => req[q].id \notin DOMAIN events'
  PROVE  RequestShape(q)'
<1>1. RequestShape(q) /\ lastId \in Nat
  BY DEF Shapes
<1>2. req[q].op \in {"submit", "reverse"} => Opened(req[q].r)'
  <2>1. PICK r : r = req[q].r
    OBVIOUS
  <2>2. req[q].op \in {"submit", "reverse"} => r \in Receipts /\ Opened(r)
    BY <1>1, <2>1 DEF RequestShape
  <2>3. req[q].op \in {"submit", "reverse"} => Opened(r)'
    BY <2>2 DEF OpenKept
  <2> QED BY <2>1, <2>3 DEF Opened
<1> QED BY <1>1, <1>2 DEF RequestShape, PastKept, Opened

(* Steps that write no event and take no id: some request changes, or      *)
(* none, and some receipt.                                                 *)
LEMMA StillShapes ==
  ASSUME Shapes, UNCHANGED <<events, lastId>>, OpenKept,
         receipt' \in [Receipts -> ReceiptRow],
         \A r \in Receipts : receipt'[r].st = "NONE" => receipt'[r].src = None,
         clash' \subseteq Receipts \cup Orders,
         req' \in [Requests -> RequestRow],
         \A q \in Requests : req'[q] = req[q] \/ (RequestShape(q)' /\ req'[q].id = 0)
  PROVE  Shapes'
<1>1. PastKept
  BY DEF PastKept
<1>2. \A q \in Requests : RequestShape(q)'
  <2> SUFFICES ASSUME NEW q \in Requests, req'[q] = req[q] PROVE RequestShape(q)'
    OBVIOUS
  <2>1. req[q].id # 0 => req[q].id \notin DOMAIN events'
    BY RequestIs DEF RequestShape
  <2>2. lastId' \in Nat /\ lastId <= lastId'
    BY DEF Shapes
  <2> QED BY <1>1, <2>1, <2>2, OtherShape
<1>3. \A p \in Requests : \A q \in Requests \ {p} : req'[p].id # 0 => req'[q].id # req'[p].id
  BY DEF Shapes
<1>4. \A n \in DOMAIN events' : EventShape(n)'
  <2> SUFFICES ASSUME NEW n \in DOMAIN events PROVE EventShape(n)'
    OBVIOUS
  <2>1. EventShape(n)
    BY DEF Shapes
  <2>2. PICK r : r = events[n].r
    OBVIOUS
  <2>3. r \in Receipts /\ Opened(r)
    BY <2>1, <2>2 DEF EventShape, EventRow
  <2>4. Opened(r)'
    BY <2>3 DEF OpenKept
  <2> QED BY <2>1, <2>2, <2>4 DEF EventShape, Opened
<1> QED BY <1>2, <1>3, <1>4 DEF Shapes

(* A request writes its event and ends.                                    *)
LEMMA GrownShapes ==
  ASSUME Shapes, NEW p \in Requests, req[p].op \in {"submit", "reverse"}, req[p].id # 0,
         NEW e, Grown(req[p].id, e), e.r = req[p].r, e.target = req[p].target,
         req' = [req EXCEPT ![p] = Idle], UNCHANGED <<lastId, clash>>, OpenKept,
         receipt' \in [Receipts -> ReceiptRow],
         \A r \in Receipts : receipt'[r].st = "NONE" => receipt'[r].src = None
  PROVE  Shapes'
<1>1. PICK id : id = req[p].id
  OBVIOUS
<1>2. /\ Grown(id, e) /\ PastKept /\ id # 0 /\ id <= lastId /\ lastId \in Nat /\ id \in Nat
      /\ DOMAIN events' = DOMAIN events \cup {id} /\ id \notin DOMAIN events
  BY <1>1 DEF Grown, Shapes
<1>3. /\ req' \in [Requests -> RequestRow] /\ req'[p] = Idle
      /\ \A q \in Requests \ {p} : req'[q] = req[q]
  BY DEF Shapes, Idle, RequestRow, Ops
<1>4. ASSUME NEW q \in Requests PROVE RequestShape(q)'
  <2>1. CASE q = p
    BY <1>3, <2>1 DEF RequestShape, Idle
  <2>2. CASE q # p
    <3>1. req[q].id # 0 => req[q].id \notin DOMAIN events'
      BY <1>1, <1>2, <2>2, RequestIs DEF RequestShape, Shapes
    <3>2. req'[q] = req[q] /\ lastId' \in Nat /\ lastId <= lastId'
      BY <1>2, <1>3, <2>2
    <3> QED BY <1>2, <3>1, <3>2, OtherShape
  <2> QED BY <2>1, <2>2
<1>5. \A o \in Requests : \A q \in Requests \ {o} : req'[o].id # 0 => req'[q].id # req'[o].id
  BY <1>3 DEF Shapes, Idle
<1>6. ASSUME NEW n \in DOMAIN events' PROVE EventShape(n)'
  <2>1. PICK r : r = events'[n].r
    OBVIOUS
  <2>2. CASE n = id
    <3>1. events'[n] = e /\ e \in EventRow
      BY <1>2, <2>2 DEF Grown
    <3>2. e.target \in DOMAIN events \cup {0}
      BY RequestIs DEF RequestShape
    <3>3. r \in Receipts /\ Opened(r)
      BY <2>1, <3>1, RequestIs DEF RequestShape
    <3>4. Opened(r)'
      BY <3>3 DEF OpenKept
    <3> QED BY <1>2, <2>1, <2>2, <3>1, <3>2, <3>4 DEF EventShape, Opened
  <2>3. CASE n # id
    <3>1. n \in DOMAIN events /\ EventShape(n) /\ events'[n] \in EventRow
      BY <1>2, <2>3 DEF Shapes, Grown
    <3>2. r \in Receipts /\ Opened(r) /\ events'[n].target = events[n].target
      BY <1>2, <2>1, <3>1 DEF PastKept, EventShape, EventRow
    <3>3. Opened(r)'
      BY <3>2 DEF OpenKept
    <3> QED BY <1>2, <2>1, <3>1, <3>2, <3>3 DEF EventShape, Opened
  <2> QED BY <2>2, <2>3
<1>7. DOMAIN events' \subseteq 1..lastId' /\ lastId' \in Nat
  BY <1>2 DEF Shapes
<1>8. clash' \subseteq Receipts \cup Orders
  BY DEF Shapes
<1> QED BY <1>3, <1>4, <1>5, <1>6, <1>7, <1>8 DEF Shapes

(* The rows of a step that enters or leaves.                               *)
LEMMA RowShapes ==
  ASSUME Shapes, UNCHANGED <<events, lastId>>, OpenKept,
         receipt' \in [Receipts -> ReceiptRow],
         \A r \in Receipts : receipt'[r].st = "NONE" => receipt'[r].src = None,
         clash' \subseteq Receipts \cup Orders,
         NEW p \in Requests, NEW row \in RequestRow, req' = [req EXCEPT ![p] = row],
         row.id = 0,
         row.op = "idle" => row.r = None,
         row.op # "idle" => row.r \in Receipts,
         row.op = "create" => row.src \in Orders,
         row.op # "create" => row.src = None,
         row.op \in {"submit", "reverse"} => row.pay \in Payloads /\ Opened(row.r),
         row.op # "reverse" => row.target = 0,
         row.op = "reverse" =>
           /\ row.target \in DOMAIN events /\ events[row.target].kind = "COMMIT"
           /\ events[row.target].r = row.r /\ events[row.target].pay = row.pay
  PROVE  Shapes'
<1>1. /\ req' \in [Requests -> RequestRow] /\ req'[p] = row
      /\ \A q \in Requests \ {p} : req'[q] = req[q]
  BY DEF Shapes
<1>2. row.op \in {"submit", "reverse"} => Opened(row.r)'
  BY DEF OpenKept
<1>3. RequestShape(p)' /\ req'[p].id = 0
  BY <1>1, <1>2 DEF RequestShape, Opened
<1>4. \A q \in Requests : req'[q] = req[q] \/ (RequestShape(q)' /\ req'[q].id = 0)
  BY <1>1, <1>3
<1> QED BY <1>1, <1>4, StillShapes

(* A request starts on a receipt and, to create it, a source document.     *)
LEMMA StartClash ==
  ASSUME Shapes, NEW p \in Requests, NEW r \in Receipts, NEW src \in Orders \cup {None},
         Start(p, r, src)
  PROVE  clash \subseteq clash' /\ clash' \subseteq Receipts \cup Orders
BY DEF Start, Shapes

(* Steps that leave the receipts alone leave them open.                    *)
LEMMA SameOpen ==
  ASSUME Shapes, UNCHANGED receipt
  PROVE  /\ OpenKept /\ receipt' \in [Receipts -> ReceiptRow]
         /\ \A r \in Receipts : receipt'[r].st = "NONE" => receipt'[r].src = None
BY DEF Shapes, OpenKept, Opened

(* The statuses of a receipt go forward.                                   *)
LEMMA MovedOpen ==
  ASSUME Shapes, NEW r \in Receipts, NEW row \in ReceiptRow, row.st # "NONE",
         receipt' = [receipt EXCEPT ![r] = row],
         Opened(r) => row.st \in {"RELEASED", "COMPLETED"}
  PROVE  /\ OpenKept /\ receipt' \in [Receipts -> ReceiptRow]
         /\ \A x \in Receipts : receipt'[x].st = "NONE" => receipt'[x].src = None
BY DEF Shapes, OpenKept, Opened

(* The receipt a committing operation leaves.                              *)
LEMMA CommitReceipt ==
  ASSUME Shapes, NEW p \in Requests, SubmitCommit(p), NEW r, r = req[p].r
  PROVE  /\ r \in Receipts /\ Opened(r)
         /\ receipt' \in [Receipts -> ReceiptRow]
         /\ \A x \in Receipts \ {r} : receipt'[x] = receipt[x]
         /\ receipt'[r].src = receipt[r].src
         /\ req[p].done => receipt'[r].st = "COMPLETED"
         /\ ~req[p].done => receipt'[r].st = receipt[r].st
         /\ OpenKept
         /\ \A x \in Receipts : receipt'[x].st = "NONE" => receipt'[x].src = None
<1> DEFINE row == [st |-> IF req[p].done /\ receipt[r].st = "RELEASED" THEN "COMPLETED"
                          ELSE receipt[r].st,
                   src |-> receipt[r].src]
<1>1. r \in Receipts /\ Opened(r) /\ receipt[r] \in ReceiptRow
  BY RequestIs DEF SubmitCommit, RequestShape, Shapes
<1>2. receipt' = [receipt EXCEPT ![r] = row]
  BY DEF SubmitCommit
<1>3. /\ row \in ReceiptRow /\ row.st \in {"RELEASED", "COMPLETED"}
      /\ row.src = receipt[r].src
      /\ req[p].done => row.st = "COMPLETED"
      /\ ~req[p].done => row.st = receipt[r].st
  BY <1>1 DEF ReceiptRow, Opened
<1> HIDE DEF row
<1>4. /\ OpenKept /\ receipt' \in [Receipts -> ReceiptRow]
      /\ \A x \in Receipts : receipt'[x].st = "NONE" => receipt'[x].src = None
  BY <1>1, <1>2, <1>3, MovedOpen
<1>5. receipt'[r] = row /\ \A x \in Receipts \ {r} : receipt'[x] = receipt[x]
  BY <1>1, <1>2 DEF Shapes
<1> QED BY <1>1, <1>3, <1>4, <1>5

(* The receipt that is made or moved on.                                   *)
LEMMA SetStatusReceipt ==
  ASSUME Shapes, NEW r \in Receipts, NEW from, NEW to \in {"DRAFT", "RELEASED"},
         from \notin {"RELEASED", "COMPLETED"}, SetStatus(r, from, to)
  PROVE  /\ OpenKept /\ receipt' \in [Receipts -> ReceiptRow]
         /\ \A x \in Receipts : receipt'[x].st = "NONE" => receipt'[x].src = None
         /\ \A x \in Receipts \ {r} : receipt'[x] = receipt[x]
         /\ receipt'[r].src = receipt[r].src /\ receipt'[r].st = to
<1> DEFINE row == [st |-> to, src |-> receipt[r].src]
<1>1. receipt[r] \in ReceiptRow /\ receipt' = [receipt EXCEPT ![r] = row] /\ ~Opened(r)
  BY DEF SetStatus, Shapes, Opened
<1>2. row \in ReceiptRow /\ row.st = to /\ row.src = receipt[r].src
  BY <1>1 DEF ReceiptRow
<1> HIDE DEF row
<1>3. /\ OpenKept /\ receipt' \in [Receipts -> ReceiptRow]
      /\ \A x \in Receipts : receipt'[x].st = "NONE" => receipt'[x].src = None
  BY <1>1, <1>2, MovedOpen
<1>4. receipt'[r] = row /\ \A x \in Receipts \ {r} : receipt'[x] = receipt[x]
  BY <1>1 DEF Shapes
<1> QED BY <1>2, <1>3, <1>4

(* The receipt a creation inserts.                                         *)
LEMMA InsertReceipt ==
  ASSUME Shapes, NEW p \in Requests, CreateInsert(p), NEW r, r = req[p].r
  PROVE  /\ r \in Receipts /\ receipt[r].st = "NONE" /\ req[p].src \in Orders
         /\ OpenKept /\ receipt' \in [Receipts -> ReceiptRow]
         /\ \A x \in Receipts : receipt'[x].st = "NONE" => receipt'[x].src = None
         /\ \A x \in Receipts \ {r} : receipt'[x] = receipt[x]
         /\ receipt'[r].src = req[p].src /\ receipt'[r].st = "DRAFT"
<1> DEFINE row == [st |-> "DRAFT", src |-> req[p].src]
<1>1. /\ r \in Receipts /\ req[p].src \in Orders /\ receipt[r].st = "NONE" /\ ~Opened(r)
      /\ receipt' = [receipt EXCEPT ![r] = row]
  BY RequestIs DEF CreateInsert, RequestShape, Opened
<1>2. row \in ReceiptRow /\ row.st = "DRAFT" /\ row.src = req[p].src
  BY <1>1 DEF ReceiptRow
<1> HIDE DEF row
<1>3. /\ OpenKept /\ receipt' \in [Receipts -> ReceiptRow]
      /\ \A x \in Receipts : receipt'[x].st = "NONE" => receipt'[x].src = None
  BY <1>1, <1>2, MovedOpen
<1>4. receipt'[r] = row /\ \A x \in Receipts \ {r} : receipt'[x] = receipt[x]
  BY <1>1 DEF Shapes
<1> QED BY <1>1, <1>2, <1>3, <1>4

(* A request takes the next id of the sequence.                            *)
LEMMA InsertEventIs ==
  ASSUME Shapes, NEW p \in Requests, InsertEvent(p)
  PROVE  /\ lastId' = lastId + 1 /\ lastId' \in Nat /\ UNCHANGED events
         /\ req' \in [Requests -> RequestRow] /\ req'[p].id = lastId'
         /\ req'[p].op = req[p].op /\ req'[p].r = req[p].r /\ req'[p].src = req[p].src
         /\ req'[p].pay = req[p].pay /\ req'[p].target = req[p].target
         /\ req'[p].done = req[p].done
         /\ \A q \in Requests \ {p} : req'[q] = req[q]
         /\ UNCHANGED <<receipt, clash, stock, cursor, seen>>
<1> DEFINE row == [req[p] EXCEPT !.id = lastId']
<1>1. /\ lastId' = lastId + 1 /\ lastId' \in Nat /\ req' = [req EXCEPT ![p] = row]
      /\ UNCHANGED <<receipt, events, clash, stock, cursor, seen>>
  BY DEF InsertEvent, Shapes
<1>2. /\ row \in RequestRow /\ row.id = lastId' /\ row.op = req[p].op /\ row.r = req[p].r
      /\ row.src = req[p].src /\ row.pay = req[p].pay /\ row.target = req[p].target
      /\ row.done = req[p].done
  BY <1>1, RequestIs DEF RequestRow
<1> HIDE DEF row
<1>3. /\ req' \in [Requests -> RequestRow] /\ req'[p] = row
      /\ \A q \in Requests \ {p} : req'[q] = req[q]
  BY <1>1, <1>2 DEF Shapes
<1> QED BY <1>1, <1>2, <1>3

(* The id that is taken is new.                                            *)
LEMMA InsertEventShapes ==
  ASSUME Shapes, NEW p \in Requests, InsertEvent(p)
  PROVE  Shapes'
<1>1. /\ lastId' = lastId + 1 /\ lastId \in Nat /\ lastId' \in Nat /\ UNCHANGED events
      /\ req' \in [Requests -> RequestRow] /\ req'[p].id = lastId'
      /\ \A q \in Requests \ {p} : req'[q] = req[q]
      /\ UNCHANGED <<receipt, clash>>
  BY InsertEventIs DEF Shapes
<1>2. PastKept /\ OpenKept
  BY <1>1 DEF PastKept, OpenKept, Opened
<1>3. ASSUME NEW q \in Requests PROVE RequestShape(q)'
  <2>1. CASE q = p
    <3>1. RequestShape(p) /\ lastId' \notin DOMAIN events /\ req[p].op \in {"submit", "reverse"}
      BY <1>1, RequestIs DEF Shapes, InsertEvent
    <3> QED BY <1>1, <2>1, <3>1, InsertEventIs DEF RequestShape, Opened
  <2>2. CASE q # p
    <3>1. req[q].id # 0 => req[q].id \notin DOMAIN events'
      BY <1>1, RequestIs DEF RequestShape
    <3>2. req'[q] = req[q] /\ lastId <= lastId'
      BY <1>1, <2>2
    <3> QED BY <1>1, <1>2, <3>1, <3>2, OtherShape
  <2> QED BY <2>1, <2>2
<1>4. \A q \in Requests : req[q].id # lastId'
  <2>1. \A q \in Requests : req[q].id # 0 => req[q].id \in 1..lastId
    BY RequestIs DEF RequestShape
  <2> QED BY <1>1, <2>1
<1>5. \A o \in Requests : \A q \in Requests \ {o} : req'[o].id # 0 => req'[q].id # req'[o].id
  BY <1>1, <1>4 DEF Shapes
<1>6. \A n \in DOMAIN events' : EventShape(n)'
  BY <1>1 DEF Shapes, EventShape, Opened
<1>7. DOMAIN events' \subseteq 1..lastId'
  BY <1>1 DEF Shapes
<1> QED BY <1>1, <1>3, <1>5, <1>6, <1>7 DEF Shapes

(* The shapes are kept by every step.                                      *)
LEMMA StepShapes == ASSUME Shapes, [Next]_vars PROVE Shapes'
<1>1. ASSUME NEW r \in Receipts, CreateManual(r) \/ Release(r) PROVE Shapes'
  <2>1. PICK from \in {"NONE", "DRAFT"}, to \in {"DRAFT", "RELEASED"} : SetStatus(r, from, to)
    BY <1>1 DEF CreateManual, Release
  <2>2. /\ OpenKept /\ receipt' \in [Receipts -> ReceiptRow]
        /\ \A x \in Receipts : receipt'[x].st = "NONE" => receipt'[x].src = None
    BY <2>1, SetStatusReceipt
  <2>3. /\ UNCHANGED <<events, lastId, req>> /\ clash' \subseteq Receipts \cup Orders
        /\ req' \in [Requests -> RequestRow]
    BY <2>1 DEF SetStatus, Shapes
  <2> QED BY <2>2, <2>3, StillShapes
<1>2. ASSUME NEW p \in Requests, NEW r \in Receipts, NEW src \in Orders, CreateCheck(p, r, src)
      PROVE  Shapes'
  <2> DEFINE row == [op |-> "create", r |-> r, src |-> src, pay |-> << >>,
                     target |-> 0, id |-> 0, done |-> FALSE]
  <2>1. /\ row \in RequestRow /\ row.id = 0 /\ row.op = "create" /\ row.r = r
        /\ row.src = src /\ row.target = 0
    BY DEF RequestRow, Ops
  <2>2. /\ req' = [req EXCEPT ![p] = row] /\ UNCHANGED <<receipt, events, lastId>>
        /\ clash' \subseteq Receipts \cup Orders
    BY <1>2, StartClash DEF CreateCheck
  <2> HIDE DEF row
  <2> QED BY <2>1, <2>2, SameOpen, RowShapes
<1>3. ASSUME NEW p \in Requests, NEW r \in Receipts, NEW pay \in Payloads,
             SubmitCheck(p, r, pay)
      PROVE  Shapes'
  <2> DEFINE row == [op |-> "submit", r |-> r, src |-> None, pay |-> pay,
                     target |-> 0, id |-> 0, done |-> Completes(r, pay)]
  <2>1. /\ row \in RequestRow /\ row.id = 0 /\ row.op = "submit" /\ row.r = r
        /\ row.src = None /\ row.target = 0 /\ row.pay = pay
    BY DEF RequestRow, Ops, Completes
  <2>2. /\ req' = [req EXCEPT ![p] = row] /\ UNCHANGED <<receipt, events, lastId>>
        /\ clash' \subseteq Receipts \cup Orders /\ Opened(r)
    BY <1>3, StartClash DEF SubmitCheck, Opened
  <2> HIDE DEF row
  <2> QED BY <2>1, <2>2, SameOpen, RowShapes
<1>4. ASSUME NEW p \in Requests, NEW n \in DOMAIN events, ReverseCheck(p, n)
      PROVE  Shapes'
  <2> DEFINE row == [op |-> "reverse", r |-> events[n].r, src |-> None,
                     pay |-> events[n].pay, target |-> n, id |-> 0, done |-> FALSE]
  <2>1. events[n] \in EventRow /\ n \in Nat /\ Opened(events[n].r)
    BY EventsAre DEF Shapes, EventShape
  <2>2. /\ row \in RequestRow /\ row.id = 0 /\ row.op = "reverse" /\ row.r = events[n].r
        /\ row.src = None /\ row.target = n /\ row.pay = events[n].pay
        /\ row.r \in Receipts /\ row.pay \in Payloads /\ Opened(row.r)
    BY <2>1 DEF RequestRow, Ops, EventRow
  <2>3. /\ req' = [req EXCEPT ![p] = row] /\ UNCHANGED <<receipt, events, lastId>>
        /\ events[n].kind = "COMMIT" /\ Start(p, events[n].r, None)
    BY <1>4 DEF ReverseCheck, Reversible
  <2> HIDE DEF row
  <2>4. clash' \subseteq Receipts \cup Orders
    BY <2>2, <2>3, StartClash
  <2> QED BY <2>2, <2>3, <2>4, SameOpen, RowShapes
<1>5. /\ Idle \in RequestRow /\ Idle.op = "idle" /\ Idle.r = None /\ Idle.src = None
      /\ Idle.id = 0 /\ Idle.target = 0
  BY DEF Idle, RequestRow, Ops
<1>6. ASSUME NEW p \in Requests, Fail(p) PROVE Shapes'
  <2>1. /\ req' = [req EXCEPT ![p] = Idle] /\ UNCHANGED <<receipt, events, lastId>>
        /\ clash' \subseteq Receipts \cup Orders
    BY <1>6 DEF Fail, Shapes
  <2> QED BY <1>5, <2>1, SameOpen, RowShapes
<1>7. ASSUME NEW p \in Requests, CreateInsert(p) PROVE Shapes'
  <2>1. /\ req' = [req EXCEPT ![p] = Idle] /\ UNCHANGED <<events, lastId>>
        /\ clash' \subseteq Receipts \cup Orders
    BY <1>7 DEF CreateInsert, Shapes
  <2>2. /\ OpenKept /\ receipt' \in [Receipts -> ReceiptRow]
        /\ \A x \in Receipts : receipt'[x].st = "NONE" => receipt'[x].src = None
    BY <1>7, InsertReceipt
  <2> QED BY <1>5, <2>1, <2>2, RowShapes
<1>8. ASSUME NEW p \in Requests, SubmitCommit(p) PROVE Shapes'
  <2> DEFINE e == Event(req[p], "COMMIT")
  <2>1. /\ Grown(req[p].id, e) /\ e.r = req[p].r /\ e.target = req[p].target
        /\ req[p].op \in {"submit", "reverse"} /\ req[p].id # 0
        /\ req' = [req EXCEPT ![p] = Idle] /\ UNCHANGED <<lastId, clash>>
    BY <1>8, CommitGrows DEF SubmitCommit, Event
  <2>2. /\ OpenKept /\ receipt' \in [Receipts -> ReceiptRow]
        /\ \A x \in Receipts : receipt'[x].st = "NONE" => receipt'[x].src = None
    BY <1>8, CommitReceipt
  <2> HIDE DEF e
  <2> QED BY <2>1, <2>2, GrownShapes
<1>9. ASSUME NEW p \in Requests, ReverseCommit(p) PROVE Shapes'
  <2> DEFINE e == Event(req[p], "REVERSAL")
  <2>1. /\ Grown(req[p].id, e) /\ e.r = req[p].r /\ e.target = req[p].target
        /\ req[p].op \in {"submit", "reverse"} /\ req[p].id # 0
        /\ req' = [req EXCEPT ![p] = Idle] /\ UNCHANGED <<receipt, lastId, clash>>
    BY <1>9, ReversalGrows DEF ReverseCommit, Event
  <2> HIDE DEF e
  <2> QED BY <2>1, SameOpen, GrownShapes
<1>10. CASE Pull \/ UNCHANGED vars
  <2>1. UNCHANGED <<receipt, events, lastId, req, clash>>
    BY <1>10 DEF Pull, vars
  <2>2. clash' \subseteq Receipts \cup Orders /\ req' \in [Requests -> RequestRow]
    BY <2>1 DEF Shapes
  <2> QED BY <2>1, <2>2, SameOpen, StillShapes
<1> QED
  BY <1>1, <1>2, <1>3, <1>4, <1>6, <1>7, <1>8, <1>9, <1>10, InsertEventShapes DEF Next

(* At the start there is nothing.                                          *)
LEMMA InitShapes == Init => Shapes
<1> SUFFICES ASSUME Init PROVE Shapes
  OBVIOUS
<1>1. DOMAIN events = {}
  BY DEF Init
<1>2. receipt \in [Receipts -> ReceiptRow] /\ \A r \in Receipts : receipt[r].src = None
  BY DEF Init, ReceiptRow
<1>3. req \in [Requests -> RequestRow]
  BY DEF Init, Idle, RequestRow, Ops
<1>4. \A p \in Requests : RequestShape(p) /\ req[p].id = 0
  BY DEF Init, Idle, RequestShape
<1>5. clash \subseteq Receipts \cup Orders /\ lastId \in Nat
  BY DEF Init
<1> QED BY <1>1, <1>2, <1>3, <1>4, <1>5 DEF Shapes

-----------------------------------------------------------------------------
(* An operation lists quantities of its own lots alone.                    *)
LEMMA HeldIs ==
  ASSUME Shapes, NEW p \in Requests, req[p].op \in {"submit", "reverse"}
  PROVE  \A l : /\ OfLot(req[p].pay, l) \in Nat
                /\ l \notin LotsIn(req[p].pay) => OfLot(req[p].pay, l) = 0
<1>1. Adding(req[p].pay)
  BY RequestIs, PayloadAdds DEF RequestShape
<1> QED BY <1>1, OfLotNat, OfLotNone

(* What an operation brings is explained by its event.                     *)
LEMMA CommitStock ==
  ASSUME Shapes, StockInv, NEW p \in Requests, SubmitCommit(p)
  PROVE  StockInv'
<1> DEFINE e == Event(req[p], "COMMIT")
<1>1. Grown(req[p].id, e) /\ e.kind = "COMMIT" /\ e.pay = req[p].pay
  BY CommitGrows DEF Event
<1> HIDE DEF e
<1>2. stock' = [l \in Lots |-> stock[l] + OfLot(req[p].pay, l)] /\ req[p].op = "submit"
  BY DEF SubmitCommit
<1>3. \A l \in Lots : /\ stock[l] \in Nat /\ OfLot(req[p].pay, l) \in Nat
                      /\ stock'[l] = stock[l] + OfLot(req[p].pay, l)
  BY <1>2, HeldIs DEF StockInv
<1>4. ASSUME NEW l \in Lots
      PROVE  stock'[l] + LotTotal(events, OfKind("REVERSAL"), l)'
               = Stock0[l] + LotTotal(events, OfKind("COMMIT"), l)'
  <2>1. /\ LotTotal(events, OfKind("COMMIT"), l) \in Nat
        /\ LotTotal(events, OfKind("COMMIT"), l)'
             = LotTotal(events, OfKind("COMMIT"), l) + OfLot(req[p].pay, l)
    BY <1>1, LotsGrow
  <2>2. /\ LotTotal(events, OfKind("REVERSAL"), l) \in Nat
        /\ LotTotal(events, OfKind("REVERSAL"), l)' = LotTotal(events, OfKind("REVERSAL"), l)
    BY <1>1, LotsGrow
  <2>3. /\ stock[l] + LotTotal(events, OfKind("REVERSAL"), l)
             = Stock0[l] + LotTotal(events, OfKind("COMMIT"), l)
        /\ Stock0[l] \in Nat
    BY InboundAssumption DEF StockInv
  <2>4. /\ stock[l] \in Nat /\ OfLot(req[p].pay, l) \in Nat
        /\ stock'[l] = stock[l] + OfLot(req[p].pay, l)
    BY <1>3
  <2>5. \A s, o, v, z, c \in Nat : s + v = z + c => (s + o) + v = z + (c + o)
    OBVIOUS
  <2>6. (stock[l] + OfLot(req[p].pay, l)) + LotTotal(events, OfKind("REVERSAL"), l)
          = Stock0[l] + (LotTotal(events, OfKind("COMMIT"), l) + OfLot(req[p].pay, l))
    BY <2>1, <2>2, <2>3, <2>4, <2>5
  <2> QED BY <2>1, <2>2, <2>4, <2>6
<1> QED BY <1>2, <1>3, <1>4 DEF StockInv

(* What a reversal takes is there and explained by its event.              *)
LEMMA ReversalStock ==
  ASSUME Shapes, StockInv, NEW p \in Requests, ReverseCommit(p)
  PROVE  StockInv'
<1> DEFINE e == Event(req[p], "REVERSAL")
<1>1. Grown(req[p].id, e) /\ e.kind = "REVERSAL" /\ e.pay = req[p].pay
  BY ReversalGrows DEF Event
<1> HIDE DEF e
<1>2. /\ stock' = [l \in Lots |-> stock[l] - OfLot(req[p].pay, l)] /\ req[p].op = "reverse"
      /\ \A l \in LotsIn(req[p].pay) : OfLot(req[p].pay, l) <= stock[l]
  BY DEF ReverseCommit, Taken, Enough
<1>3. \A l \in Lots : /\ stock[l] \in Nat /\ OfLot(req[p].pay, l) \in Nat
                      /\ OfLot(req[p].pay, l) <= stock[l]
                      /\ stock'[l] = stock[l] - OfLot(req[p].pay, l)
  BY <1>2, HeldIs DEF StockInv
<1>4. ASSUME NEW l \in Lots
      PROVE  stock'[l] + LotTotal(events, OfKind("REVERSAL"), l)'
               = Stock0[l] + LotTotal(events, OfKind("COMMIT"), l)'
  <2>1. /\ LotTotal(events, OfKind("REVERSAL"), l) \in Nat
        /\ LotTotal(events, OfKind("REVERSAL"), l)'
             = LotTotal(events, OfKind("REVERSAL"), l) + OfLot(req[p].pay, l)
    BY <1>1, LotsGrow
  <2>2. /\ LotTotal(events, OfKind("COMMIT"), l) \in Nat
        /\ LotTotal(events, OfKind("COMMIT"), l)' = LotTotal(events, OfKind("COMMIT"), l)
    BY <1>1, LotsGrow
  <2>3. /\ stock[l] + LotTotal(events, OfKind("REVERSAL"), l)
             = Stock0[l] + LotTotal(events, OfKind("COMMIT"), l)
        /\ Stock0[l] \in Nat
    BY InboundAssumption DEF StockInv
  <2>4. /\ stock[l] \in Nat /\ OfLot(req[p].pay, l) \in Nat
        /\ stock'[l] = stock[l] - OfLot(req[p].pay, l)
    BY <1>3
  <2>5. \A s, o, v \in Nat : (s - o) + (v + o) = s + v
    OBVIOUS
  <2>6. stock'[l] + LotTotal(events, OfKind("REVERSAL"), l)'
          = stock[l] + LotTotal(events, OfKind("REVERSAL"), l)
    BY <2>1, <2>4, <2>5
  <2> QED BY <2>2, <2>3, <2>6
<1> QED BY <1>2, <1>3, <1>4 DEF StockInv

(* The stock is explained after every step.                                *)
LEMMA StepStock == ASSUME Shapes, StockInv, [Next]_vars PROVE StockInv'
<1>1. ASSUME UNCHANGED <<events, stock>> PROVE StockInv'
  BY <1>1 DEF StockInv, OfKind
<1>2. ASSUME NEW p \in Requests, NEW r, NEW src, CreateCheck(p, r, src) PROVE StockInv'
  BY <1>1, <1>2 DEF CreateCheck
<1>3. ASSUME NEW p \in Requests, NEW r, NEW pay, SubmitCheck(p, r, pay) PROVE StockInv'
  BY <1>1, <1>3 DEF SubmitCheck
<1>4. ASSUME NEW p \in Requests, NEW n, ReverseCheck(p, n) PROVE StockInv'
  BY <1>1, <1>4 DEF ReverseCheck
<1>5. ASSUME NEW p \in Requests, CreateInsert(p) \/ InsertEvent(p) \/ Fail(p) PROVE StockInv'
  BY <1>1, <1>5 DEF CreateInsert, InsertEvent, Fail
<1>6. ASSUME NEW r, CreateManual(r) \/ Release(r) PROVE StockInv'
  BY <1>1, <1>6 DEF CreateManual, Release, SetStatus
<1>7. CASE Pull \/ UNCHANGED vars
  BY <1>1, <1>7 DEF Pull, vars
<1> QED BY <1>2, <1>3, <1>4, <1>5, <1>6, <1>7, CommitStock, ReversalStock DEF Next

(* At the start the stock is what it is.                                   *)
LEMMA InitStock == Init => StockInv
<1> SUFFICES ASSUME Init PROVE StockInv
  OBVIOUS
<1>1. stock = Stock0 /\ Stock0 \in [Lots -> Nat]
  BY InboundAssumption DEF Init
<1>2. OfKind("COMMIT") = {} /\ OfKind("REVERSAL") = {}
  BY DEF Init, OfKind
<1>3. ASSUME NEW l \in Lots
      PROVE  /\ LotTotal(events, OfKind("COMMIT"), l) = 0
             /\ LotTotal(events, OfKind("REVERSAL"), l) = 0
  <2>1. LotTotal(events, {}, l) = 0
    BY SumEmpty DEF LotTotal
  <2> QED BY <1>2, <2>1, Zenon
<1> QED BY <1>1, <1>3 DEF StockInv

-----------------------------------------------------------------------------
(* The page of a pull takes the new events in the order of their ids.      *)
LEMMA PageIs ==
  ASSUME Shapes, NEW new, new \subseteq DOMAIN events,
         NEW page, page = {n \in new : Cardinality({m \in new : m < n}) < PageLimit},
         page # {}
  PROVE  /\ Max(page) \in page
         /\ \A n \in new : n <= Max(page) => n \in page
<1>1. IsFiniteSet(new) /\ new \subseteq Nat /\ page \subseteq new
  BY EventsAre, FS_Subset
<1>2. Max(page) \in page /\ \A n \in page : Max(page) >= n
  <2>1. page \in SUBSET Nat /\ IsFiniteSet(page)
    BY <1>1, FS_Subset
  <2> QED BY <2>1, MaxIs
<1>3. ASSUME NEW n \in new, n <= Max(page) PROVE n \in page
  <2> DEFINE x == Max(page)
             A == {m \in new : m < n}
             B == {m \in new : m < x}
  <2>1. x \in page /\ x \in new /\ Cardinality(B) < PageLimit
    BY <1>1, <1>2
  <2>2. x \in Nat /\ n \in Nat /\ n <= x
    BY <1>1, <1>3, <2>1
  <2> HIDE DEF x
  <2>3. A \subseteq B /\ B \subseteq new
    BY <1>1, <2>2
  <2>4. IsFiniteSet(B)
    BY <1>1, <2>3, FS_Subset
  <2>5. IsFiniteSet(A) /\ Cardinality(A) <= Cardinality(B)
    BY <2>3, <2>4, FS_Subset
  <2>6. Cardinality(A) \in Nat /\ Cardinality(B) \in Nat
    BY <2>4, <2>5, FS_CardinalityType
  <2>7. Cardinality(A) < PageLimit
    BY <2>1, <2>5, <2>6, InboundAssumption
  <2> QED BY <2>7
<1> QED BY <1>2, <1>3

(* A pull passes no event it does not take.                                *)
LEMMA PullCursor == ASSUME Shapes, CursorInv, Pull PROVE CursorInv'
<1>1. PICK new, page :
        /\ new = {n \in DOMAIN events : n > cursor /\ Reportable(n)}
        /\ page = {n \in new : Cardinality({m \in new : m < n}) < PageLimit}
        /\ page # {} /\ seen' = seen \cup page /\ cursor' = Max(page)
  BY DEF Pull, NextAfter
<1>2. Max(page) \in page /\ \A n \in new : n <= Max(page) => n \in page
  BY <1>1, PageIs
<1>3. page \subseteq DOMAIN events /\ UNCHANGED <<events, receipt>>
  BY <1>1 DEF Pull
<1>4. \A n : Reportable(n)' <=> Reportable(n)
  BY <1>3 DEF Reportable
<1>5. cursor \in Nat /\ DOMAIN events \subseteq Nat
  BY EventsAre DEF CursorInv
<1>6. NothingSkipped'
  <2> SUFFICES ASSUME NEW n \in 1..cursor', Reportable(n), ~events[n].late
               PROVE  n \in seen'
    BY <1>3, <1>4 DEF NothingSkipped
  <2>1. n \in DOMAIN events
    BY DEF Reportable
  <2>2. CASE n <= cursor
    BY <1>1, <1>5, <2>2 DEF CursorInv, NothingSkipped
  <2>3. CASE n > cursor
    BY <1>1, <1>2, <2>1, <2>3
  <2> QED BY <1>5, <2>1, <2>2, <2>3
<1> QED BY <1>1, <1>2, <1>3, <1>6 DEF CursorInv

(* An event that is committed behind the cursor is late.                   *)
LEMMA GrownCursor ==
  ASSUME Shapes, CursorInv, NEW id, NEW e, Grown(id, e), UNCHANGED <<cursor, seen>>,
         \A r \in Receipts : receipt'[r].src = receipt[r].src
  PROVE  CursorInv'
<1>1. cursor \in DOMAIN events' \cup {0} /\ seen \subseteq DOMAIN events'
  BY DEF CursorInv, Grown
<1>2. DOMAIN events \subseteq Nat \ {0} /\ id \in Nat \ {0} /\ id \notin DOMAIN events
  BY EventsAre DEF Grown
<1>3. NothingSkipped'
  <2> SUFFICES ASSUME NEW n \in 1..cursor, Reportable(n)', ~events'[n].late
               PROVE  n \in seen
    BY DEF NothingSkipped
  <2>1. n \in DOMAIN events' /\ n \in Nat /\ n <= cursor
    BY <1>1, <1>2, EventsAre DEF Reportable, CursorInv
  <2>2. CASE n = id
    <3>1. e.late = (\E m \in DOMAIN events : m > id) /\ events'[n] = e
      BY <2>2 DEF Grown
    <3>2. cursor \in DOMAIN events
      BY <1>2, <2>1, <2>2 DEF CursorInv
    <3>3. cursor > id
      BY <1>2, <2>1, <2>2, <3>2
    <3> QED BY <3>1, <3>2, <3>3
  <2>3. CASE n # id
    <3>1. n \in DOMAIN events /\ EventShape(n)
      BY <2>1, <2>3 DEF Grown, Shapes
    <3>2. /\ events'[n].r = events[n].r /\ events'[n].kind = events[n].kind
          /\ events'[n].st = "COMMITTED" => events[n].st = "COMMITTED"
          /\ events'[n].late = events[n].late
      BY <3>1 DEF Grown, PastKept
    <3>3. receipt'[events[n].r].src = receipt[events[n].r].src
      BY <3>1 DEF EventShape, EventRow
    <3>4. Reportable(n)
      BY <3>1, <3>2, <3>3 DEF Reportable
    <3> QED BY <3>2, <3>4 DEF CursorInv, NothingSkipped
  <2> QED BY <2>2, <2>3
<1> QED BY <1>1, <1>3 DEF CursorInv

(* The source document of a receipt that has events is settled.            *)
LEMMA StillCursor ==
  ASSUME Shapes, CursorInv, UNCHANGED <<events, cursor, seen>>,
         \A r \in Receipts : Opened(r) => receipt'[r].src = receipt[r].src
  PROVE  CursorInv'
<1>1. ASSUME NEW n, Reportable(n)' PROVE Reportable(n)
  <2>1. n \in DOMAIN events /\ EventShape(n)
    BY <1>1 DEF Reportable, Shapes
  <2>2. receipt'[events[n].r].src = receipt[events[n].r].src
    BY <2>1 DEF EventShape, EventRow
  <2> QED BY <1>1, <2>1, <2>2 DEF Reportable
<1>2. NothingSkipped'
  BY <1>1 DEF CursorInv, NothingSkipped
<1> QED BY <1>2 DEF CursorInv

(* Each step keeps the cursor behind what was not given.                   *)
LEMMA StepCursor == ASSUME Shapes, CursorInv, [Next]_vars PROVE CursorInv'
<1>1. ASSUME UNCHANGED <<events, cursor, seen, receipt>> PROVE CursorInv'
  BY <1>1, StillCursor
<1>2. ASSUME NEW p \in Requests, NEW r, NEW src, CreateCheck(p, r, src) PROVE CursorInv'
  BY <1>1, <1>2 DEF CreateCheck
<1>3. ASSUME NEW p \in Requests, NEW r, NEW pay, SubmitCheck(p, r, pay) PROVE CursorInv'
  BY <1>1, <1>3 DEF SubmitCheck
<1>4. ASSUME NEW p \in Requests, NEW n, ReverseCheck(p, n) PROVE CursorInv'
  BY <1>1, <1>4 DEF ReverseCheck
<1>5. ASSUME NEW p \in Requests, InsertEvent(p) \/ Fail(p) PROVE CursorInv'
  BY <1>1, <1>5 DEF InsertEvent, Fail
<1>6. ASSUME NEW p \in Requests, CreateInsert(p) PROVE CursorInv'
  <2>1. PICK r : r = req[p].r
    OBVIOUS
  <2>2. /\ receipt[r].st = "NONE" /\ \A x \in Receipts \ {r} : receipt'[x] = receipt[x]
    BY <1>6, <2>1, InsertReceipt
  <2>3. \A x \in Receipts : Opened(x) => receipt'[x].src = receipt[x].src
    BY <2>2 DEF Opened
  <2> QED BY <1>6, <2>3, StillCursor DEF CreateInsert
<1>7. ASSUME NEW r \in Receipts, CreateManual(r) \/ Release(r) PROVE CursorInv'
  <2>1. PICK from \in {"NONE", "DRAFT"}, to \in {"DRAFT", "RELEASED"} : SetStatus(r, from, to)
    BY <1>7 DEF CreateManual, Release
  <2>2. /\ \A x \in Receipts \ {r} : receipt'[x] = receipt[x]
        /\ receipt'[r].src = receipt[r].src
    BY <2>1, SetStatusReceipt
  <2> QED BY <2>1, <2>2, StillCursor DEF SetStatus
<1>8. ASSUME NEW p \in Requests, SubmitCommit(p) PROVE CursorInv'
  <2>1. PICK r : r = req[p].r
    OBVIOUS
  <2>2. /\ \A x \in Receipts \ {r} : receipt'[x] = receipt[x]
        /\ receipt'[r].src = receipt[r].src
    BY <1>8, <2>1, CommitReceipt
  <2>3. UNCHANGED <<cursor, seen>> /\ \A x \in Receipts : receipt'[x].src = receipt[x].src
    BY <1>8, <2>2 DEF SubmitCommit
  <2> QED BY <1>8, <2>3, CommitGrows, GrownCursor
<1>9. ASSUME NEW p \in Requests, ReverseCommit(p) PROVE CursorInv'
  <2>1. UNCHANGED <<cursor, seen>> /\ \A x \in Receipts : receipt'[x].src = receipt[x].src
    BY <1>9 DEF ReverseCommit
  <2> QED BY <1>9, <2>1, ReversalGrows, GrownCursor
<1>10. CASE UNCHANGED vars
  BY <1>1, <1>10 DEF vars
<1> QED
  BY <1>2, <1>3, <1>4, <1>5, <1>6, <1>7, <1>8, <1>9, <1>10, PullCursor DEF Next

(* The events explain the stock, whichever requests are in flight on the   *)
(* same lots, and no lot is ever below zero                                *)
(* (submit_inbound_operation_repo, reverse_inbound_event).                 *)
THEOREM StockIsExplained == Spec => []EventsExplainStock
<1>1. Init => Shapes /\ StockInv /\ CursorInv
  <2>1. Init => CursorInv
    BY DEF Init, CursorInv, NothingSkipped, Reportable
  <2> QED BY <2>1, InitShapes, InitStock
<1>2. Shapes /\ StockInv /\ CursorInv /\ [Next]_vars => (Shapes /\ StockInv /\ CursorInv)'
  BY StepShapes, StepStock, StepCursor
<1>3. Shapes /\ StockInv /\ CursorInv => EventsExplainStock
  <2> SUFFICES ASSUME Shapes, StockInv, CursorInv PROVE EventsExplainStock
    OBVIOUS
  <2>1. \A n \in DOMAIN events : EventShape(n)
    BY DEF Shapes
  <2>2. \A p \in Requests : req[p].op \in {"idle", "create", "submit", "reverse"}
    BY DEF Shapes, RequestRow, Ops
  <2>3. cursor \in 0..lastId /\ seen \subseteq 1..lastId
    BY DEF Shapes, CursorInv
  <2>4. TypeOK
    BY <2>1, <2>2, <2>3 DEF TypeOK, Shapes, StockInv, EventShape, EventRow, ReceiptRow
  <2> QED BY <2>4 DEF EventsExplainStock, StockInv
<1> QED BY <1>1, <1>2, <1>3, PTL DEF Spec

(* Procurement's cursor has passed no event it was not given, unless it    *)
(* was committed after one with a larger id: a page takes the smallest new *)
(* ids, and the cursor stands on an event that is there.                   *)
THEOREM PullsSkipNothing == Spec => []NothingSkipped
<1>1. Init => Shapes /\ CursorInv
  <2>1. Init => CursorInv
    BY DEF Init, CursorInv, NothingSkipped, Reportable
  <2> QED BY <2>1, InitShapes
<1>2. Shapes /\ CursorInv /\ [Next]_vars => (Shapes /\ CursorInv)'
  BY StepShapes, StepCursor
<1>3. CursorInv => NothingSkipped
  BY DEF CursorInv
<1> QED BY <1>1, <1>2, <1>3, PTL DEF Spec

-----------------------------------------------------------------------------
(* The progress is a matter of the events.                                 *)
LEMMA SameProgress ==
  ASSUME UNCHANGED events
  PROVE  /\ \A r, ln : Received(r, ln)' = Received(r, ln)
         /\ \A n : ReversalsOf(n)' = ReversalsOf(n)
         /\ \A r, pay : Fits(r, pay)' = Fits(r, pay)
         /\ \A r, pay : Completes(r, pay)' = Completes(r, pay)
<1>1. \A r, ln : Received(r, ln)' = Received(r, ln)
  BY DEF Received, OfKind
<1>2. \A n : ReversalsOf(n)' = ReversalsOf(n)
  BY DEF ReversalsOf
<1>3. \A r, pay : Fits(r, pay)' = Fits(r, pay)
  BY <1>1 DEF Fits
<1>4. \A r, pay : Completes(r, pay)' = Completes(r, pay)
  BY <1>1 DEF Completes
<1> QED BY <1>1, <1>2, <1>3, <1>4

(* An order without a receipt is the source document of none.              *)
LEMMA Unreceived ==
  ASSUME Shapes, NEW s \in Orders, NotYetReceived(s), NEW x \in Receipts
  PROVE  receipt[x].src # s
BY InboundAssumption DEF Shapes, NotYetReceived

(* A request enters.                                                       *)
LEMMA EnterReads ==
  ASSUME Shapes, Reads, UNCHANGED <<events, receipt>>,
         NEW p \in Requests, NEW r \in Receipts, NEW src \in Orders \cup {None},
         Start(p, r, src),
         NEW row \in RequestRow, row.r = r, row.src = src, req' = [req EXCEPT ![p] = row],
         row.op \in {"create", "submit", "reverse"},
         row.op = "create" => NotYetReceived(src),
         row.op = "reverse" => ReversalsOf(row.target) = {},
         row.op = "submit" => Fits(r, row.pay) /\ row.done = Completes(r, row.pay)
  PROVE  Reads'
<1>1. /\ clash \subseteq clash'
      /\ \A x \in {r, src} \ {None} :
           (\E q \in Requests : x \in {req[q].r, req[q].src}) => x \in clash'
  BY DEF Start
<1>2. req'[p] = row /\ \A q \in Requests \ {p} : req'[q] = req[q]
  BY DEF Shapes
<1>3. OneAtATime'
  <2> SUFFICES ASSUME NEW o \in Requests, NEW q \in Requests \ {o}, NEW x,
                      x \in {req'[o].r, req'[o].src} \ {None},
                      x \in {req'[q].r, req'[q].src} \ {None}
               PROVE  x \in clash'
    BY DEF OneAtATime, Names
  <2>1. CASE o = p
    BY <1>1, <1>2, <2>1
  <2>2. CASE q = p
    BY <1>1, <1>2, <2>2
  <2>3. CASE o # p /\ q # p
    <3>1. x \in clash
      BY <1>2, <2>3 DEF Reads, OneAtATime, Names
    <3> QED BY <1>1, <3>1
  <2> QED BY <2>1, <2>2, <2>3
<1>4. StillReversible'
  BY <1>1, <1>2, SameProgress DEF Reads, StillReversible
<1>5. StillUnreceived'
  <2>1. \A s : NotYetReceived(s)' <=> NotYetReceived(s)
    BY DEF NotYetReceived
  <2> QED BY <1>1, <1>2, <2>1 DEF Reads, StillUnreceived
<1>6. StillFits'
  BY <1>1, <1>2, SameProgress DEF Reads, StillFits
<1>7. DoneIsRight'
  BY <1>1, <1>2, SameProgress DEF Reads, DoneIsRight
<1> QED BY <1>3, <1>4, <1>5, <1>6, <1>7 DEF Reads

(* What a request works on and has read stays as it is.                    *)
SameRequest(q) ==
  /\ req'[q].op = req[q].op /\ req'[q].r = req[q].r /\ req'[q].src = req[q].src
  /\ req'[q].pay = req[q].pay /\ req'[q].target = req[q].target
  /\ req'[q].done = req[q].done

(* Requests stay as they are or end, and what those that create a receipt  *)
(* have read stays true.                                                   *)
LEMMA StayReads ==
  ASSUME Shapes, Reads, UNCHANGED <<events, clash>>,
         \A q \in Requests : SameRequest(q) \/ req'[q] = Idle,
         \A q \in Requests, s \in Orders :
           /\ req[q].op = "create" /\ req'[q] # Idle /\ s = req[q].src /\ s \notin clash
           /\ NotYetReceived(s)
           => NotYetReceived(s)'
  PROVE  Reads'
<1>1. Idle.op = "idle" /\ Idle.r = None /\ Idle.src = None
  BY DEF Idle
<1>2. \A q \in Requests : req'[q].op # "idle" => SameRequest(q) /\ req'[q] # Idle
  BY <1>1
<1>3. OneAtATime'
  <2> SUFFICES ASSUME NEW o \in Requests, NEW q \in Requests \ {o}, NEW x,
                      x \in {req'[o].r, req'[o].src} \ {None},
                      x \in {req'[q].r, req'[q].src} \ {None}
               PROVE  x \in clash'
    BY DEF OneAtATime, Names
  <2>1. SameRequest(o) /\ SameRequest(q)
    BY <1>1
  <2> QED BY <2>1 DEF Reads, OneAtATime, Names, SameRequest
<1>4. StillReversible'
  BY <1>2, SameProgress DEF Reads, StillReversible, SameRequest
<1>5. StillUnreceived'
  <2> SUFFICES ASSUME NEW q \in Requests, req'[q].op = "create", req'[q].src \notin clash'
               PROVE  NotYetReceived(req[q].src)'
    BY DEF StillUnreceived
  <2>1. PICK s : s = req[q].src
    OBVIOUS
  <2>2. req[q].op = "create" /\ req'[q] # Idle /\ s = req'[q].src /\ s \notin clash
    BY <1>2, <2>1 DEF SameRequest
  <2>3. s \in Orders /\ NotYetReceived(s)
    BY <2>1, <2>2, RequestIs DEF RequestShape, Reads, StillUnreceived
  <2>4. NotYetReceived(s)'
    BY <2>1, <2>2, <2>3
  <2> QED BY <2>2, <2>4
<1>6. StillFits'
  BY <1>2, SameProgress DEF Reads, StillFits, SameRequest
<1>7. DoneIsRight'
  BY <1>2, SameProgress DEF Reads, DoneIsRight, SameRequest
<1> QED BY <1>3, <1>4, <1>5, <1>6, <1>7 DEF Reads

(* What has been received only grows, and only by the receipt's own.       *)
LEMMA ReceivedGrows ==
  ASSUME Shapes, NEW id, NEW e, Grown(id, e), NEW r, NEW ln
  PROVE  /\ Received(r, ln) \in Nat /\ Received(r, ln)' \in Nat
         /\ Received(r, ln)' >= Received(r, ln)
         /\ r # e.r => Received(r, ln)' = Received(r, ln)
<1>1. Received(r, ln) \in Nat /\ OfLine(e.pay, ln) \in Nat
  BY ReceivedIs, PayloadAdds, OfLineNat DEF Grown, EventRow
<1>2. \/ Received(r, ln)' = Received(r, ln) + OfLine(e.pay, ln)
      \/ Received(r, ln)' = Received(r, ln)
  BY LinesGrow
<1>3. r # e.r => Received(r, ln)' = Received(r, ln)
  BY LinesGrow
<1> QED BY <1>1, <1>2, <1>3

(* The reversals of an event after one more event.                         *)
LEMMA ReversalsGrow ==
  ASSUME NEW id, NEW e, Grown(id, e), NEW n
  PROVE  /\ e.target = n => ReversalsOf(n)' = ReversalsOf(n) \cup {id}
         /\ e.target # n => ReversalsOf(n)' = ReversalsOf(n)
BY DEF ReversalsOf, Grown, PastKept

(* A request writes an event of its receipt and ends: nobody else who has  *)
(* a receipt to itself sees it.                                            *)
LEMMA GrownReads ==
  ASSUME Shapes, Reads, NEW p \in Requests, req[p].op \in {"submit", "reverse"},
         NEW id, NEW e, Grown(id, e), e.r = req[p].r,
         e.target = 0 \/ (req[p].op = "reverse" /\ e.target = req[p].target),
         req' = [req EXCEPT ![p] = Idle], UNCHANGED clash,
         \A x \in Receipts : receipt'[x].src = receipt[x].src
  PROVE  Reads'
<1>1. /\ \A q \in Requests : req'[q].op # "idle" =>
            q # p /\ req'[q] = req[q] /\ req[q].op # "idle"
      /\ \A q \in Requests : req'[q] = req[q] \/ req'[q] = Idle
      /\ Idle.op = "idle" /\ Idle.r = None /\ Idle.src = None
  BY DEF Shapes, Idle
<1>2. ASSUME NEW q \in Requests, req'[q].op # "idle", req'[q].r \notin clash
      PROVE  req[q].r # e.r
  <2>1. q # p /\ req'[q] = req[q] /\ req[q].r \in Receipts
    BY <1>1, <1>2, RequestIs DEF RequestShape
  <2> QED BY <1>2, <2>1, InboundAssumption DEF Reads, OneAtATime, Names
<1>3. OneAtATime'
  <2> SUFFICES ASSUME NEW o \in Requests, NEW q \in Requests \ {o}, NEW x,
                      x \in {req'[o].r, req'[o].src} \ {None},
                      x \in {req'[q].r, req'[q].src} \ {None}
               PROVE  x \in clash'
    BY DEF OneAtATime, Names
  <2>1. req'[o] = req[o] /\ req'[q] = req[q]
    BY <1>1
  <2> QED BY <2>1 DEF Reads, OneAtATime, Names
<1>4. StillReversible'
  <2> SUFFICES ASSUME NEW q \in Requests, req'[q].op = "reverse", req'[q].r \notin clash'
               PROVE  ReversalsOf(req[q].target)' = {}
    BY DEF StillReversible
  <2>1. PICK n : n = req[q].target
    OBVIOUS
  <2>2. req'[q] = req[q] /\ q # p /\ req[q].r # e.r /\ ReversalsOf(n) = {}
    BY <1>1, <1>2, <2>1 DEF Reads, StillReversible
  <2>3. n \in DOMAIN events /\ events[n].r = req[q].r /\ n # 0
    BY <2>1, <2>2, RequestIs, EventsAre DEF RequestShape
  <2>4. e.target # n
    BY <2>2, <2>3, RequestIs DEF RequestShape
  <2>5. ReversalsOf(n)' = {}
    BY <2>2, <2>4, ReversalsGrow
  <2> QED BY <2>1, <2>2, <2>5
<1>5. StillUnreceived'
  <2> SUFFICES ASSUME NEW q \in Requests, req'[q].op = "create", req'[q].src \notin clash'
               PROVE  NotYetReceived(req[q].src)'
    BY DEF StillUnreceived
  <2>1. PICK s : s = req[q].src
    OBVIOUS
  <2>2. req'[q] = req[q] /\ s \in Orders /\ NotYetReceived(s)
    BY <1>1, <2>1, RequestIs DEF RequestShape, Reads, StillUnreceived
  <2>3. \A x \in Receipts : receipt'[x].src # s
    BY <2>2, Unreceived
  <2>4. NotYetReceived(s)'
    BY <2>3 DEF NotYetReceived
  <2> QED BY <2>1, <2>2, <2>4
<1>6. ASSUME NEW q \in Requests, req'[q].op = "submit"
      PROVE  /\ req'[q] = req[q] /\ req[q].pay \in Payloads
             /\ req[q].r \notin clash => req[q].r # e.r
  BY <1>1, <1>2, <1>6, RequestIs DEF RequestShape
<1>7. StillFits'
  <2> SUFFICES ASSUME NEW q \in Requests, req'[q].op = "submit", req'[q].r \notin clash'
               PROVE  Fits(req[q].r, req[q].pay)'
    BY DEF StillFits
  <2>1. PICK r, pay : r = req[q].r /\ pay = req[q].pay
    OBVIOUS
  <2>2. Fits(r, pay) /\ r = req'[q].r /\ pay = req'[q].pay /\ r # e.r
    BY <1>6, <2>1 DEF Reads, StillFits
  <2>3. Fits(r, pay)'
    BY <2>2, ReceivedGrows DEF Fits
  <2> QED BY <2>2, <2>3
<1>8. DoneIsRight'
  <2> SUFFICES ASSUME NEW q \in Requests, req'[q].op = "submit"
               PROVE  /\ req'[q].done => Completes(req[q].r, req[q].pay)'
                      /\ req'[q].r \notin clash' /\ Completes(req[q].r, req[q].pay)'
                           => req'[q].done
    BY DEF DoneIsRight
  <2>1. PICK r, pay : r = req[q].r /\ pay = req[q].pay
    OBVIOUS
  <2>2. r = req'[q].r /\ pay = req'[q].pay /\ pay \in Payloads
    BY <1>6, <2>1
  <2>3. /\ req[q].done => Completes(r, pay)
        /\ r \notin clash /\ Completes(r, pay) => req[q].done
    BY <1>6, <2>1 DEF Reads, DoneIsRight
  <2>4. \A ln \in Lines : OfLine(pay, ln) \in Nat /\ Planned[ln] \in Nat
    BY <2>2, PayloadAdds, OfLineNat, InboundAssumption
  <2>5. Completes(r, pay) => Completes(r, pay)'
    BY <2>4, ReceivedGrows DEF Completes
  <2>6. r \notin clash => (Completes(r, pay)' => Completes(r, pay))
    BY <1>6, <2>1, ReceivedGrows DEF Completes
  <2>7. Completes(req[q].r, req[q].pay)' <=> Completes(r, pay)'
    BY <2>2
  <2> QED BY <1>6, <2>1, <2>3, <2>5, <2>6, <2>7
<1> QED BY <1>3, <1>4, <1>5, <1>7, <1>8 DEF Reads

-----------------------------------------------------------------------------
(* Steps that write no event complete no receipt.                          *)
LEMMA QuietHistory ==
  ASSUME CompletedIffReceived, ReversedOnce, UNCHANGED events, clash \subseteq clash',
         \A r \in Receipts : receipt'[r].st = "COMPLETED" <=> receipt[r].st = "COMPLETED"
  PROVE  CompletedIffReceived' /\ ReversedOnce'
<1>1. CompletedIffReceived'
  <2>1. \A r \in Receipts : \A ln \in Lines : Received(r, ln)' = Received(r, ln)
    BY SameProgress
  <2> SUFFICES ASSUME NEW r \in Receipts
               PROVE  /\ receipt'[r].st = "COMPLETED" =>
                           \A ln \in Lines : Received(r, ln)' >= Planned[ln]
                      /\ r \notin clash' =>
                           \A ln \in Lines : Received(r, ln)' <= Planned[ln]
                      /\ /\ r \notin clash'
                         /\ \A ln \in Lines : Received(r, ln)' >= Planned[ln]
                         => receipt'[r].st = "COMPLETED"
    BY DEF CompletedIffReceived, Alone
  <2> QED BY <2>1 DEF CompletedIffReceived, Alone
<1>2. ReversedOnce'
  BY SameProgress DEF ReversedOnce, Alone
<1> QED BY <1>1, <1>2

(* The receipts keep their source documents.                               *)
LEMMA SameSources ==
  ASSUME SourceOnce, clash \subseteq clash',
         \A r \in Receipts : receipt'[r].src = receipt[r].src
  PROVE  SourceOnce'
BY DEF SourceOnce, Alone

(* A receipt gets the source document that was found without one.          *)
LEMMA InsertSources ==
  ASSUME Shapes, StillUnreceived, SourceOnce, NEW p \in Requests, CreateInsert(p)
  PROVE  SourceOnce'
<1>1. PICK r, s : r = req[p].r /\ s = req[p].src
  OBVIOUS
<1>2. /\ r \in Receipts /\ s \in Orders /\ receipt'[r].src = s /\ UNCHANGED clash
      /\ \A x \in Receipts \ {r} : receipt'[x] = receipt[x]
  BY <1>1, InsertReceipt DEF CreateInsert
<1>3. s \notin clash => \A x \in Receipts : receipt[x].src # s
  BY <1>1, <1>2, Unreceived DEF StillUnreceived, CreateInsert
<1> QED BY <1>2, <1>3 DEF SourceOnce, Alone

(* An event by a request, an operation or the first reversal of its event. *)
LEMMA GrownReversedOnce ==
  ASSUME Shapes, ReversedOnce, UNCHANGED clash, NEW id, NEW e, Grown(id, e),
         \/ e.target = 0
         \/ /\ e.target \in DOMAIN events /\ events[e.target].r = e.r
            /\ e.r \notin clash => ReversalsOf(e.target) = {}
  PROVE  ReversedOnce'
<1>1. DOMAIN events' = DOMAIN events \cup {id} /\ id \notin DOMAIN events /\ id # 0
  BY DEF Grown
<1> SUFFICES ASSUME NEW n \in DOMAIN events', events'[n].r \in Alone'
             PROVE  Cardinality(ReversalsOf(n)') <= 1
  BY DEF ReversedOnce
<1>2. Alone' = Alone /\ \A x \in Receipts : x \in Alone <=> x \notin clash
  BY DEF Alone
<1>3. CASE n = id
  <2>1. ReversalsOf(n) = {} /\ e.target # n
    BY <1>1, <1>3 DEF ReversalsOf, Shapes, EventShape
  <2>2. ReversalsOf(n)' = {}
    BY <2>1, ReversalsGrow
  <2> QED BY <2>2, FS_EmptySet
<1>4. CASE n # id
  <2>1. n \in DOMAIN events /\ events[n].r \in Alone /\ events[n].r \in Receipts
    BY <1>1, <1>2, <1>4, EventsAre DEF Grown, PastKept, EventRow
  <2>2. CASE e.target # n
    <3>1. Cardinality(ReversalsOf(n)) <= 1
      BY <2>1 DEF ReversedOnce
    <3>2. ReversalsOf(n)' = ReversalsOf(n)
      BY <2>2, ReversalsGrow
    <3> QED BY <3>1, <3>2, Zenon
  <2>3. CASE e.target = n
    <3>1. ReversalsOf(n) = {}
      BY <1>1, <1>2, <2>1, <2>3, EventsAre
    <3>2. ReversalsOf(n)' = {id}
      BY <2>3, <3>1, ReversalsGrow
    <3>3. Cardinality({id}) = 1
      BY FS_Singleton
    <3>4. Cardinality(ReversalsOf(n)') = 1
      BY <3>2, <3>3, Zenon
    <3> QED BY <3>4
  <2> QED BY <2>2, <2>3
<1> QED BY <1>3, <1>4

(* An operation completes its receipt when it brings what is left, and     *)
(* only then.                                                              *)
LEMMA CommitCompleted ==
  ASSUME Shapes, StillFits, DoneIsRight, CompletedIffReceived,
         NEW p \in Requests, SubmitCommit(p)
  PROVE  CompletedIffReceived'
<1>1. PICK r, pay, id, e :
        r = req[p].r /\ pay = req[p].pay /\ id = req[p].id /\ e = Event(req[p], "COMMIT")
  OBVIOUS
<1>2. /\ Grown(id, e) /\ e.r = r /\ e.pay = pay /\ e.kind = "COMMIT"
      /\ req[p].op = "submit" /\ UNCHANGED clash
  BY <1>1, CommitGrows DEF SubmitCommit, Event
<1>3. /\ r \in Receipts
      /\ \A x \in Receipts \ {r} : receipt'[x] = receipt[x]
      /\ req[p].done => receipt'[r].st = "COMPLETED"
      /\ ~req[p].done => receipt'[r].st = receipt[r].st
  BY <1>1, CommitReceipt
<1>4. \A ln \in Lines : Planned[ln] \in Nat
  BY InboundAssumption
<1>5. \A x, ln : /\ Received(x, ln) \in Nat /\ Received(x, ln)' \in Nat
                 /\ Received(x, ln)' >= Received(x, ln)
                 /\ x # r => Received(x, ln)' = Received(x, ln)
  BY <1>2, ReceivedGrows
<1>6. \A ln : Received(r, ln)' = Received(r, ln) + OfLine(pay, ln)
  BY <1>2, LinesGrow
<1>7. /\ req[p].done => Completes(r, pay)
      /\ r \notin clash => Fits(r, pay) /\ (Completes(r, pay) => req[p].done)
  BY <1>1, <1>2 DEF DoneIsRight, StillFits
<1> SUFFICES ASSUME NEW x \in Receipts
             PROVE  /\ receipt'[x].st = "COMPLETED" =>
                         \A ln \in Lines : Received(x, ln)' >= Planned[ln]
                    /\ x \notin clash =>
                         \A ln \in Lines : Received(x, ln)' <= Planned[ln]
                    /\ /\ x \notin clash
                       /\ \A ln \in Lines : Received(x, ln)' >= Planned[ln]
                       => receipt'[x].st = "COMPLETED"
  BY <1>2 DEF CompletedIffReceived, Alone
<1>8. /\ receipt[x].st = "COMPLETED" => \A ln \in Lines : Received(x, ln) >= Planned[ln]
      /\ x \notin clash => \A ln \in Lines : Received(x, ln) <= Planned[ln]
      /\ x \notin clash /\ (\A ln \in Lines : Received(x, ln) >= Planned[ln])
           => receipt[x].st = "COMPLETED"
  BY DEF CompletedIffReceived, Alone
<1>9. CASE x # r
  BY <1>3, <1>5, <1>8, <1>9
<1>10. CASE x = r
  <2>1. x \notin clash => \A ln \in Lines : Received(x, ln)' <= Planned[ln]
    BY <1>6, <1>7, <1>10 DEF Fits
  <2>2. (\A ln \in Lines : Received(x, ln)' >= Planned[ln]) <=> Completes(r, pay)
    BY <1>6, <1>10 DEF Completes
  <2>3. CASE req[p].done
    BY <1>3, <1>7, <1>10, <2>1, <2>2, <2>3
  <2>4. CASE ~req[p].done
    <3>1. receipt'[x].st = "COMPLETED" => \A ln \in Lines : Received(x, ln)' >= Planned[ln]
      BY <1>3, <1>4, <1>5, <1>8, <1>10, <2>4
    <3> QED BY <1>7, <1>10, <2>1, <2>2, <2>4, <3>1
  <2> QED BY <2>3, <2>4
<1> QED BY <1>9, <1>10

(* A reversal takes back no progress.                                      *)
LEMMA ReversalCompleted ==
  ASSUME Shapes, CompletedIffReceived, NEW p \in Requests, ReverseCommit(p)
  PROVE  CompletedIffReceived'
<1>1. PICK id, e : id = req[p].id /\ e = Event(req[p], "REVERSAL")
  OBVIOUS
<1>2. Grown(id, e) /\ e.kind = "REVERSAL" /\ UNCHANGED <<receipt, clash>>
  BY <1>1, ReversalGrows DEF ReverseCommit, Event
<1>3. \A r, ln : Received(r, ln)' = Received(r, ln)
  BY <1>2, LinesGrow
<1> SUFFICES ASSUME NEW r \in Receipts
             PROVE  /\ receipt[r].st = "COMPLETED" =>
                         \A ln \in Lines : Received(r, ln)' >= Planned[ln]
                    /\ r \notin clash =>
                         \A ln \in Lines : Received(r, ln)' <= Planned[ln]
                    /\ /\ r \notin clash
                       /\ \A ln \in Lines : Received(r, ln)' >= Planned[ln]
                       => receipt[r].st = "COMPLETED"
  BY <1>2 DEF CompletedIffReceived, Alone
<1> QED BY <1>3 DEF CompletedIffReceived, Alone

(* An operation commits.                                                   *)
LEMMA CommitHistory ==
  ASSUME Shapes, Reads, History, NEW p \in Requests, SubmitCommit(p)
  PROVE  Reads' /\ History'
<1>1. PICK r, id, e : r = req[p].r /\ id = req[p].id /\ e = Event(req[p], "COMMIT")
  OBVIOUS
<1>2. /\ Grown(id, e) /\ e.r = r /\ e.target = req[p].target
      /\ req[p].op = "submit" /\ req' = [req EXCEPT ![p] = Idle] /\ UNCHANGED clash
  BY <1>1, CommitGrows DEF SubmitCommit, Event
<1>3. e.target = 0
  BY <1>2, RequestIs DEF RequestShape
<1>4. \A x \in Receipts : receipt'[x].src = receipt[x].src
  BY <1>1, CommitReceipt
<1>5. Reads'
  BY <1>1, <1>2, <1>3, <1>4, GrownReads
<1>6. CompletedIffReceived'
  BY CommitCompleted DEF Reads, History
<1>7. SourceOnce'
  BY <1>2, <1>4, SameSources DEF History
<1>8. ReversedOnce'
  BY <1>2, <1>3, GrownReversedOnce DEF History
<1> QED BY <1>5, <1>6, <1>7, <1>8 DEF History

(* A reversal commits.                                                     *)
LEMMA ReversalHistory ==
  ASSUME Shapes, Reads, History, NEW p \in Requests, ReverseCommit(p)
  PROVE  Reads' /\ History'
<1>1. PICK r, n, id, e : /\ r = req[p].r /\ n = req[p].target
                         /\ id = req[p].id /\ e = Event(req[p], "REVERSAL")
  OBVIOUS
<1>2. /\ Grown(id, e) /\ e.r = r /\ e.target = n
      /\ req[p].op = "reverse" /\ req' = [req EXCEPT ![p] = Idle]
      /\ UNCHANGED <<receipt, clash>>
  BY <1>1, ReversalGrows DEF ReverseCommit, Event
<1>3. n \in DOMAIN events /\ events[n].r = e.r
  BY <1>1, <1>2, RequestIs DEF RequestShape
<1>4. e.r \notin clash => ReversalsOf(n) = {}
  BY <1>1, <1>2 DEF Reads, StillReversible
<1>5. Reads'
  BY <1>1, <1>2, GrownReads
<1>6. CompletedIffReceived'
  BY ReversalCompleted DEF History
<1>7. SourceOnce'
  BY <1>2, SameSources DEF History
<1>8. ReversedOnce'
  BY <1>2, <1>3, <1>4, GrownReversedOnce DEF History
<1> QED BY <1>5, <1>6, <1>7, <1>8 DEF History

(* Each step keeps what the requests have read and the history.            *)
LEMMA StepHistory ==
  ASSUME Shapes, Reads, History, [Next]_vars
  PROVE  Reads' /\ History'
<1>1. ASSUME NEW r \in Receipts, CreateManual(r) \/ Release(r) PROVE Reads' /\ History'
  <2>1. PICK from \in {"NONE", "DRAFT"}, to \in {"DRAFT", "RELEASED"} : SetStatus(r, from, to)
    BY <1>1 DEF CreateManual, Release
  <2>2. /\ UNCHANGED <<events, req, clash>> /\ receipt[r].st = from
        /\ \A x \in Receipts \ {r} : receipt'[x] = receipt[x]
        /\ receipt'[r].src = receipt[r].src /\ receipt'[r].st = to
    BY <2>1, SetStatusReceipt DEF SetStatus
  <2>3. \A x \in Receipts : /\ receipt'[x].src = receipt[x].src
                            /\ receipt'[x].st = "COMPLETED" <=> receipt[x].st = "COMPLETED"
    BY <2>2
  <2>4. \A s \in Orders : NotYetReceived(s) => NotYetReceived(s)'
    <3> SUFFICES ASSUME NEW s \in Orders, NotYetReceived(s) PROVE NotYetReceived(s)'
      OBVIOUS
    <3>1. \A x \in Receipts : receipt'[x].src # s
      BY <2>3, Unreceived
    <3> QED BY <3>1 DEF NotYetReceived
  <2>5. \A q \in Requests : SameRequest(q)
    BY <2>2 DEF SameRequest
  <2>6. Reads'
    BY <2>2, <2>4, <2>5, StayReads
  <2> QED BY <2>2, <2>3, <2>6, QuietHistory, SameSources DEF History
<1>2. ASSUME UNCHANGED <<receipt, events>>, clash \subseteq clash' PROVE History'
  BY <1>2, QuietHistory, SameSources DEF History
<1>3. ASSUME NEW p \in Requests, NEW r \in Receipts, NEW src \in Orders, CreateCheck(p, r, src)
      PROVE  Reads' /\ History'
  <2> DEFINE row == [op |-> "create", r |-> r, src |-> src, pay |-> << >>,
                     target |-> 0, id |-> 0, done |-> FALSE]
  <2>1. row \in RequestRow /\ row.op = "create" /\ row.r = r /\ row.src = src
    BY DEF RequestRow, Ops
  <2>2. /\ req' = [req EXCEPT ![p] = row] /\ UNCHANGED <<receipt, events>>
        /\ Start(p, r, src) /\ NotYetReceived(src)
    BY <1>3 DEF CreateCheck
  <2> HIDE DEF row
  <2>3. Reads'
    BY <2>1, <2>2, EnterReads
  <2> QED BY <1>2, <2>2, <2>3 DEF Start
<1>4. ASSUME NEW p \in Requests, NEW r \in Receipts, NEW pay \in Payloads,
             SubmitCheck(p, r, pay)
      PROVE  Reads' /\ History'
  <2> DEFINE row == [op |-> "submit", r |-> r, src |-> None, pay |-> pay,
                     target |-> 0, id |-> 0, done |-> Completes(r, pay)]
  <2>1. /\ row \in RequestRow /\ row.op = "submit" /\ row.r = r /\ row.src = None
        /\ row.pay = pay /\ row.done = Completes(r, pay)
    BY DEF RequestRow, Ops, Completes
  <2>2. /\ req' = [req EXCEPT ![p] = row] /\ UNCHANGED <<receipt, events>>
        /\ Start(p, r, None) /\ Fits(r, pay)
    BY <1>4 DEF SubmitCheck
  <2> HIDE DEF row
  <2>3. Reads'
    BY <2>1, <2>2, EnterReads
  <2> QED BY <1>2, <2>2, <2>3 DEF Start
<1>5. ASSUME NEW p \in Requests, NEW n \in DOMAIN events, ReverseCheck(p, n)
      PROVE  Reads' /\ History'
  <2> DEFINE row == [op |-> "reverse", r |-> events[n].r, src |-> None,
                     pay |-> events[n].pay, target |-> n, id |-> 0, done |-> FALSE]
  <2>1. events[n] \in EventRow /\ n \in Nat
    BY EventsAre
  <2>2. /\ row \in RequestRow /\ row.op = "reverse" /\ row.r = events[n].r
        /\ row.src = None /\ row.target = n
    BY <2>1 DEF RequestRow, Ops, EventRow
  <2>3. /\ req' = [req EXCEPT ![p] = row] /\ UNCHANGED <<receipt, events>>
        /\ Start(p, events[n].r, None) /\ ReversalsOf(n) = {}
    BY <1>5 DEF ReverseCheck, Reversible
  <2> HIDE DEF row
  <2>4. PICK r \in Receipts : r = events[n].r
    BY <2>1 DEF EventRow
  <2>5. Reads'
    BY <2>2, <2>3, <2>4, EnterReads
  <2> QED BY <1>2, <2>3, <2>5 DEF Start
<1>6. ASSUME UNCHANGED <<receipt, events, clash>>,
             \A q \in Requests : SameRequest(q) \/ req'[q] = Idle
      PROVE  Reads' /\ History'
  <2>1. \A s \in Orders : NotYetReceived(s)' <=> NotYetReceived(s)
    BY <1>6 DEF NotYetReceived
  <2>2. Reads'
    BY <1>6, <2>1, StayReads
  <2> QED BY <1>2, <1>6, <2>2
<1>7. ASSUME NEW p \in Requests, InsertEvent(p) PROVE Reads' /\ History'
  <2>1. UNCHANGED <<receipt, events, clash>> /\ \A q \in Requests : SameRequest(q)
    BY <1>7, InsertEventIs DEF SameRequest
  <2> QED BY <1>6, <2>1
<1>8. ASSUME NEW p \in Requests, req' = [req EXCEPT ![p] = Idle]
      PROVE  \A q \in Requests : (SameRequest(q) /\ q # p) \/ req'[q] = Idle
  BY <1>8 DEF Shapes, SameRequest
<1>9. ASSUME NEW p \in Requests, Fail(p) PROVE Reads' /\ History'
  <2>1. UNCHANGED <<receipt, events, clash>> /\ req' = [req EXCEPT ![p] = Idle]
    BY <1>9 DEF Fail
  <2> QED BY <1>6, <1>8, <2>1
<1>10. ASSUME NEW p \in Requests, CreateInsert(p) PROVE Reads' /\ History'
  <2>1. PICK r, s : r = req[p].r /\ s = req[p].src
    OBVIOUS
  <2>2. /\ UNCHANGED <<events, clash>> /\ req' = [req EXCEPT ![p] = Idle]
        /\ req[p].op = "create" /\ req'[p] = Idle
        /\ r \in Receipts /\ receipt[r].st = "NONE" /\ s \in Orders
        /\ receipt'[r].src = s /\ receipt'[r].st = "DRAFT"
        /\ \A x \in Receipts \ {r} : receipt'[x] = receipt[x]
    BY <1>10, <2>1, InsertReceipt DEF CreateInsert, Shapes
  <2>3. ASSUME NEW q \in Requests, NEW o \in Orders, req[q].op = "create", req'[q] # Idle,
               o = req[q].src, o \notin clash, NotYetReceived(o)
        PROVE  NotYetReceived(o)'
    <3>1. q # p
      BY <2>2, <2>3
    <3>2. o # s
      BY <2>1, <2>3, <3>1, InboundAssumption DEF Reads, OneAtATime, Names
    <3>3. \A x \in Receipts : receipt[x].src # o
      BY <2>3, Unreceived
    <3>4. \A x \in Receipts : receipt'[x].src # o
      BY <2>2, <3>2, <3>3
    <3> QED BY <3>4 DEF NotYetReceived
  <2>4. \A q \in Requests : SameRequest(q) \/ req'[q] = Idle
    BY <1>8, <2>2
  <2>5. Reads'
    BY <2>2, <2>3, <2>4, StayReads
  <2>6. \A x \in Receipts : receipt'[x].st = "COMPLETED" <=> receipt[x].st = "COMPLETED"
    BY <2>2
  <2>7. SourceOnce'
    BY <1>10, InsertSources DEF Reads, History
  <2> QED BY <2>2, <2>5, <2>6, <2>7, QuietHistory DEF History
<1>11. CASE Pull \/ UNCHANGED vars
  <2>1. UNCHANGED <<receipt, events, req, clash>>
    BY <1>11 DEF Pull, vars
  <2>2. \A q \in Requests : SameRequest(q)
    BY <2>1 DEF SameRequest
  <2> QED BY <1>6, <2>1, <2>2
<1> QED
  BY <1>1, <1>3, <1>4, <1>5, <1>7, <1>9, <1>10, <1>11, CommitHistory, ReversalHistory
     DEF Next

(* At the start nothing has been read or received.                         *)
LEMMA InitHistory == Init => Reads /\ History
<1> SUFFICES ASSUME Init PROVE Reads /\ History
  OBVIOUS
<1>1. DOMAIN events = {} /\ \A r \in Receipts : receipt[r] = [st |-> "NONE", src |-> None]
  BY DEF Init
<1>2. \A p \in Requests : req[p].op = "idle" /\ req[p].r = None /\ req[p].src = None
  BY DEF Init, Idle
<1>3. Reads
  BY <1>2 DEF Reads, OneAtATime, Names, StillReversible, StillUnreceived, StillFits,
              DoneIsRight
<1>4. \A r, ln : Received(r, ln) = 0
  <2>1. \A r : {n \in OfKind("COMMIT") : events[n].r = r} = {}
    BY <1>1 DEF OfKind
  <2>2. \A ln : LineTotal(events, {}, ln) = 0
    BY SumEmpty DEF LineTotal
  <2> QED BY <2>1, <2>2 DEF Received
<1>5. PICK ln \in Lines : Planned[ln] \in Nat \ {0}
  BY InboundAssumption
<1>6. \A l \in Lines : Planned[l] \in Nat
  BY InboundAssumption
<1>7. CompletedIffReceived
  BY <1>1, <1>4, <1>5, <1>6 DEF CompletedIffReceived
<1>8. SourceOnce
  BY <1>1, InboundAssumption DEF SourceOnce, Alone
<1>9. ReversedOnce
  BY <1>1 DEF ReversedOnce
<1> QED BY <1>3, <1>7, <1>8, <1>9 DEF History

(* The shapes, the reads and the history hold together.                    *)
LEMMA HistoryHolds == Spec => [](Shapes /\ Reads /\ History)
<1>1. Init => Shapes /\ Reads /\ History
  BY InitShapes, InitHistory
<1>2. Shapes /\ Reads /\ History /\ [Next]_vars => (Shapes /\ Reads /\ History)'
  BY StepShapes, StepHistory
<1> QED BY <1>1, <1>2, PTL DEF Spec

(* A COMPLETED receipt was received in full, although completion is        *)
(* decided from a progress read before; a receipt whose requests never     *)
(* overlap gets no more than planned and is COMPLETED as soon as it has it *)
(* (submit_inbound_operation_repo).                                        *)
THEOREM CompletedWhenReceived == Spec => []CompletedIffReceived
<1>1. Shapes /\ Reads /\ History => CompletedIffReceived
  BY DEF History
<1> QED BY <1>1, HistoryHolds, PTL

(* A source document has one receipt and an event one reversal.            *)
THEOREM EachIsDoneOnce == Spec => []DoneOnce
<1>1. Shapes /\ Reads /\ History => DoneOnce
  BY DEF History, DoneOnce, SourceOnce, ReversedOnce
<1> QED BY <1>1, HistoryHolds, PTL
=============================================================================
