------------------------- MODULE OutboundFlowProofs -------------------------
(***************************************************************************)
(* The outbound flow for any documents, lots, payloads and number of       *)
(* requests in flight.                                                     *)
(***************************************************************************)
EXTENDS OutboundFlow, SumProofs, SequenceTheorems

EventRow == [d : Docs, pay : Payloads, kind : {"COMMIT", "REVERSAL"},
             target : Nat, st : {"COMMITTED", "SUPERSEDED"}]

Ops == {"idle", "write", "commit", "reverse"}

RequestRow == [op : Ops, d : Docs \cup {None}, pay : Payloads \cup {<< >>},
               target : Nat, done : BOOLEAN]

(* What a request in flight holds: a reversal carries its event.           *)
RequestShape(p) ==
  /\ req[p].op = "idle" => req[p].d = None
  /\ req[p].op # "idle" => req[p].d \in Docs /\ req[p].pay \in Payloads
  /\ req[p].op = "reverse" => LET n == req[p].target IN
       /\ n \in DOMAIN events /\ events[n].kind = "COMMIT"
       /\ events[n].d = req[p].d /\ events[n].pay = req[p].pay

Shapes ==
  /\ status \in [Docs -> {"OPEN", "NONE", "DRAFT", "RELEASED", "VOIDED", "COMPLETED"}]
  /\ events \in Seq(EventRow)
  /\ \A n \in DOMAIN events : events[n].target \in 0..(n - 1)
  /\ req \in [Requests -> RequestRow]
  /\ \A p \in Requests : RequestShape(p)
  /\ clash \subseteq Docs
  /\ Handoff!TypeOK

(* What a submit that has written holds is there, and is its own.          *)
Reserved ==
  \A p \in Requests : req[p].op = "commit" =>
    /\ \A l \in Lots : OfLot(req[p].pay, l) <= stock[l]
    /\ \A q \in Requests \ {p} : Held(q) \cap LotsIn(req[p].pay) = {}

Explained ==
  \A l \in Lots :
    stock[l] = Stock0[l] - LotTotal(events, OfKind("COMMIT"), l)
                         + LotTotal(events, OfKind("REVERSAL"), l)

StockInv == stock \in [Lots -> Nat] /\ Explained /\ Reserved

(* Two requests in flight on a document make it a clash.                   *)
OneAtATime ==
  \A p \in Requests : \A q \in Requests \ {p} :
    req[p].op # "idle" /\ req[q].d = req[p].d => req[p].d \in clash

(* What a request has read still holds, if it has the document to itself.  *)
StillReversible ==
  \A p \in Requests : req[p].op = "reverse" /\ req[p].d \notin clash =>
    ReversalsOf(req[p].target) = {}

Submits == {p \in Requests : req[p].op \in {"write", "commit"}}

StillFits ==
  \A p \in Submits : Kind[req[p].d] = "ORDER" /\ req[p].d \notin clash =>
    \A n \in DOMAIN req[p].pay : Fits(req[p].d, req[p].pay[n])

(* A submit that is to complete its document does, in any case; one that   *)
(* has the document to itself and is not to complete it does not.          *)
DoneIsRight ==
  \A p \in Submits :
    /\ req[p].done => Completes(req[p].d, req[p].pay)
    /\ /\ req[p].d \notin clash
       /\ Kind[req[p].d] = "ORDER" \/ req[p].op = "commit"
       /\ Completes(req[p].d, req[p].pay)
       => req[p].done

DocInv ==
  /\ OneAtATime /\ StillReversible /\ StillFits /\ DoneIsRight
  /\ ReversedOnce /\ NoOverSubmit /\ HandedOverIffShipped /\ HandoffIsCompletion

-----------------------------------------------------------------------------
(* What clients submit can be added up.                                    *)
LEMMA PayloadAdds ==
  ASSUME NEW pay \in Payloads
  PROVE  /\ Adding(pay) /\ DOMAIN pay # {}
         /\ \A n \in DOMAIN pay : pay[n] \in Part
         /\ LotsIn(pay) \subseteq Lots
<1>1. pay \in Seq(Part) /\ pay # << >>
  BY OutboundAssumption
<1>2. Len(pay) \in Nat /\ DOMAIN pay = 1..Len(pay) /\ pay \in [1..Len(pay) -> Part]
  BY <1>1, LenProperties
<1>3. Len(pay) # 0
  BY <1>1, EmptySeq
<1>4. IsFiniteSet(1..Len(pay))
  BY <1>2, FS_Interval
<1>5. \A n \in DOMAIN pay : pay[n] \in Part
  BY <1>2
<1> QED BY <1>2, <1>3, <1>4, <1>5 DEF Adding, Part, LotsIn

(* The events are rows with numbers from one up.                           *)
LEMMA EventsAre ==
  ASSUME events \in Seq(EventRow)
  PROVE  /\ Len(events) \in Nat /\ DOMAIN events = 1..Len(events)
         /\ IsFiniteSet(DOMAIN events)
         /\ \A n \in DOMAIN events : events[n] \in EventRow /\ Adding(events[n].pay)
<1>1. /\ Len(events) \in Nat /\ DOMAIN events = 1..Len(events)
      /\ events \in [1..Len(events) -> EventRow]
  BY LenProperties
<1>2. \A n \in DOMAIN events : events[n] \in EventRow
  BY <1>1
<1>3. \A n \in DOMAIN events : Adding(events[n].pay)
  BY <1>2, PayloadAdds DEF EventRow
<1>4. IsFiniteSet(1..Len(events))
  BY <1>1, FS_Interval
<1> QED BY <1>1, <1>2, <1>3, <1>4

(* What has been submitted and shipped are natural numbers, and what was   *)
(* shipped was submitted.                                                  *)
LEMMA TotalsAre ==
  ASSUME events \in Seq(EventRow), NEW d, NEW ln
  PROVE  /\ Submitted(d, ln) \in Nat /\ Shipped(d, ln) \in Nat
         /\ Shipped(d, ln) <= Submitted(d, ln)
<1> DEFINE N == {n \in DOMAIN events : events[n].d = d}
           M == {n \in OfKind("COMMIT") : events[n].d = d}
<1>1. /\ IsFiniteSet(DOMAIN events)
      /\ \A n \in DOMAIN events : Adding(events[n].pay)
  BY EventsAre
<1>2. M \in SUBSET N /\ N \in SUBSET (DOMAIN events)
  BY DEF OfKind
<1>3. IsFiniteSet(N) /\ IsFiniteSet(M)
  BY <1>1, <1>2, FS_Subset
<1>4. (\A n \in N : Adding(events[n].pay)) /\ (\A n \in M : Adding(events[n].pay))
  BY <1>1, <1>2
<1>5. Submitted(d, ln) = LineTotal(events, N, ln) /\ Shipped(d, ln) = LineTotal(events, M, ln)
  BY DEF Submitted, Shipped
<1> HIDE DEF N, M
<1>6. LineTotal(events, N, ln) \in Nat /\ LineTotal(events, M, ln) \in Nat
  BY <1>3, <1>4, TotalsNat
<1>7. LineTotal(events, M, ln) <= LineTotal(events, N, ln)
  BY <1>2, <1>3, <1>4, TotalsSubset
<1> QED BY <1>5, <1>6, <1>7

-----------------------------------------------------------------------------
(* A step writes the event e.                                              *)
Grown(e) ==
  /\ e \in EventRow
  /\ events' \in Seq(EventRow)
  /\ Len(events') = Len(events) + 1
  /\ \A n \in 1..Len(events) :
       /\ events'[n].d = events[n].d /\ events'[n].pay = events[n].pay
       /\ events'[n].kind = events[n].kind /\ events'[n].target = events[n].target
  /\ events'[Len(events) + 1] = e

(* What has been submitted grows by the lines of an event of the document, *)
(* what has been shipped by those of a submit.                             *)
LEMMA LinesGrow ==
  ASSUME events \in Seq(EventRow), NEW e, Grown(e), NEW d, NEW ln
  PROVE  /\ e.d = d => Submitted(d, ln)' = Submitted(d, ln) + OfLine(e.pay, ln)
         /\ e.d # d => Submitted(d, ln)' = Submitted(d, ln)
         /\ e.d = d /\ e.kind = "COMMIT" =>
              Shipped(d, ln)' = Shipped(d, ln) + OfLine(e.pay, ln)
         /\ e.d # d \/ e.kind # "COMMIT" => Shipped(d, ln)' = Shipped(d, ln)
<1> DEFINE k == Len(events) + 1
           N == {n \in DOMAIN events : events[n].d = d}
           M == {n \in OfKind("COMMIT") : events[n].d = d}
           NN == {n \in DOMAIN events' : events'[n].d = d}
           MM == {n \in OfKind("COMMIT")' : events'[n].d = d}
<1>1. /\ Len(events) \in Nat /\ DOMAIN events = 1..Len(events)
      /\ IsFiniteSet(DOMAIN events)
      /\ \A n \in DOMAIN events : Adding(events[n].pay)
  BY EventsAre
<1>2. DOMAIN events' = 1..k /\ k \notin DOMAIN events
  BY <1>1, LenProperties DEF Grown
<1>3. IsFiniteSet(N) /\ IsFiniteSet(M) /\ k \notin N /\ k \notin M
  BY <1>1, <1>2, FS_Subset DEF OfKind
<1>4. /\ \A n \in N : events[n].pay = events'[n].pay /\ Adding(events[n].pay)
      /\ \A n \in M : events[n].pay = events'[n].pay /\ Adding(events[n].pay)
  BY <1>1 DEF Grown, OfKind
<1>5. Adding(events'[k].pay) /\ events'[k].pay = e.pay
  BY PayloadAdds DEF Grown, EventRow
<1>6. /\ Submitted(d, ln) = LineTotal(events, N, ln)
      /\ Submitted(d, ln)' = LineTotal(events', NN, ln)
      /\ Shipped(d, ln) = LineTotal(events, M, ln)
      /\ Shipped(d, ln)' = LineTotal(events', MM, ln)
  BY DEF Submitted, Shipped
<1>7. /\ e.d = d => NN = N \cup {k}
      /\ e.d # d => NN = N
  BY <1>1, <1>2 DEF Grown
<1>8. /\ e.d = d /\ e.kind = "COMMIT" => MM = M \cup {k}
      /\ e.d # d \/ e.kind # "COMMIT" => MM = M
  BY <1>1, <1>2 DEF Grown, OfKind
<1> HIDE DEF N, M, NN, MM, k
<1>9. /\ LineTotal(events', N, ln) = LineTotal(events, N, ln)
      /\ LineTotal(events', M, ln) = LineTotal(events, M, ln)
  BY <1>3, <1>4, TotalsAgree
<1>10. e.d = d => LineTotal(events', NN, ln) = LineTotal(events, N, ln) + OfLine(e.pay, ln)
  BY <1>3, <1>4, <1>5, <1>7, TotalsGrow
<1>11. e.d # d => LineTotal(events', NN, ln) = LineTotal(events', N, ln)
  BY <1>7, Zenon
<1>12. e.d = d /\ e.kind = "COMMIT" =>
         LineTotal(events', MM, ln) = LineTotal(events, M, ln) + OfLine(e.pay, ln)
  BY <1>3, <1>4, <1>5, <1>8, TotalsGrow
<1>13. e.d # d \/ e.kind # "COMMIT" => LineTotal(events', MM, ln) = LineTotal(events', M, ln)
  BY <1>8, Zenon
<1> QED BY <1>6, <1>9, <1>10, <1>11, <1>12, <1>13

(* What the events of a kind have moved on a lot grows by an event of it.  *)
LEMMA LotsGrow ==
  ASSUME events \in Seq(EventRow), NEW e, Grown(e), NEW kind, NEW l
  PROVE  /\ LotTotal(events, OfKind(kind), l) \in Nat
         /\ e.kind = kind => LotTotal(events, OfKind(kind), l)'
                              = LotTotal(events, OfKind(kind), l) + OfLot(e.pay, l)
         /\ e.kind # kind => LotTotal(events, OfKind(kind), l)'
                              = LotTotal(events, OfKind(kind), l)
<1> DEFINE k == Len(events) + 1
           N == OfKind(kind)
           NN == OfKind(kind)'
<1>1. /\ Len(events) \in Nat /\ DOMAIN events = 1..Len(events)
      /\ IsFiniteSet(DOMAIN events)
      /\ \A n \in DOMAIN events : Adding(events[n].pay)
  BY EventsAre
<1>2. DOMAIN events' = 1..k /\ k \notin DOMAIN events
  BY <1>1, LenProperties DEF Grown
<1>3. IsFiniteSet(N) /\ k \notin N
  BY <1>1, <1>2, FS_Subset DEF OfKind
<1>4. \A n \in N : events[n].pay = events'[n].pay /\ Adding(events[n].pay)
  BY <1>1 DEF Grown, OfKind
<1>5. Adding(events'[k].pay) /\ events'[k].pay = e.pay
  BY PayloadAdds DEF Grown, EventRow
<1>6. LotTotal(events, OfKind(kind), l)' = LotTotal(events', NN, l)
  OBVIOUS
<1>7. /\ e.kind = kind => NN = N \cup {k}
      /\ e.kind # kind => NN = N
  BY <1>1, <1>2 DEF Grown, OfKind
<1> HIDE DEF N, NN, k
<1>8. LotTotal(events', N, l) = LotTotal(events, N, l) /\ LotTotal(events, N, l) \in Nat
  BY <1>3, <1>4, TotalsAgree, TotalsNat
<1>9. e.kind = kind => LotTotal(events', NN, l) = LotTotal(events, N, l) + OfLot(e.pay, l)
  BY <1>3, <1>4, <1>5, <1>7, LotGrows
<1>10. e.kind # kind => LotTotal(events', NN, l) = LotTotal(events', N, l)
  BY <1>7, Zenon
<1> QED BY <1>6, <1>8, <1>9, <1>10 DEF N

-----------------------------------------------------------------------------
(* Events that are there stay, with their document, lines and kind.        *)
PastKept ==
  /\ DOMAIN events \subseteq DOMAIN events'
  /\ \A n \in DOMAIN events :
       /\ events'[n].d = events[n].d /\ events'[n].pay = events[n].pay
       /\ events'[n].kind = events[n].kind /\ events'[n].target = events[n].target

(* A step that leaves the events alone keeps them.                         *)
LEMMA SameIsKept == ASSUME UNCHANGED events PROVE PastKept
BY DEF PastKept

(* A step that writes an event keeps those that are there.                 *)
LEMMA GrownIsKept ==
  ASSUME events \in Seq(EventRow), NEW e, Grown(e), e.target \in 0..Len(events),
         \A n \in DOMAIN events : events[n].target \in 0..(n - 1)
  PROVE  /\ PastKept /\ DOMAIN events' = 1..(Len(events) + 1)
         /\ \A n \in DOMAIN events' : events'[n].target \in 0..(n - 1)
<1>1. Len(events) \in Nat /\ DOMAIN events = 1..Len(events)
  BY EventsAre
<1>2. DOMAIN events' = 1..(Len(events) + 1)
  BY LenProperties DEF Grown
<1> QED BY <1>1, <1>2 DEF PastKept, Grown

(* A submit appends its event.                                             *)
LEMMA CommitGrows ==
  ASSUME Shapes, NEW p \in Requests, Commit(p)
  PROVE  Grown(Event(req[p].d, req[p].pay, "COMMIT", 0))
<1> DEFINE e == Event(req[p].d, req[p].pay, "COMMIT", 0)
<1>1. e \in EventRow
  BY DEF Shapes, RequestShape, Commit, Event, EventRow
<1>2. events' = Append(events, e) /\ events \in Seq(EventRow)
  BY DEF Commit, Shapes
<1> HIDE DEF e
<1>3. /\ events' \in Seq(EventRow) /\ Len(events') = Len(events) + 1
      /\ \A n \in 1..Len(events) : events'[n] = events[n]
      /\ events'[Len(events) + 1] = e
  BY <1>1, <1>2, AppendProperties
<1> QED BY <1>1, <1>3 DEF Grown, e

(* A reversal supersedes its event and appends its own.                    *)
LEMMA ReversalGrows ==
  ASSUME Shapes, NEW p \in Requests, ReverseCommit(p)
  PROVE  Grown(Event(req[p].d, req[p].pay, "REVERSAL", req[p].target))
<1> DEFINE e == Event(req[p].d, req[p].pay, "REVERSAL", req[p].target)
           n == req[p].target
           o == Superseded(events[n])
           mid == [events EXCEPT ![n] = o]
<1>1. /\ events \in Seq(EventRow) /\ n \in DOMAIN events /\ n \in Nat
      /\ req[p].d \in Docs /\ req[p].pay \in Payloads
  BY DEF Shapes, RequestShape, ReverseCommit, RequestRow
<1>2. e \in EventRow
  BY <1>1 DEF Event, EventRow
<1>3. n \in 1..Len(events) /\ events[n] \in EventRow
  BY <1>1, EventsAre
<1>4. /\ o \in EventRow /\ o.d = events[n].d /\ o.pay = events[n].pay
      /\ o.kind = events[n].kind /\ o.target = events[n].target
  BY <1>3 DEF Superseded, EventRow
<1>5. events' = Append(mid, e)
  BY DEF ReverseCommit
<1> HIDE DEF e, o, n
<1>6. /\ mid \in Seq(EventRow) /\ Len(mid) = Len(events)
      /\ \A j \in 1..Len(events) : mid[j] = IF j = n THEN o ELSE events[j]
  BY <1>1, <1>3, <1>4, ExceptSeq
<1> HIDE DEF mid
<1>7. /\ events' \in Seq(EventRow) /\ Len(events') = Len(mid) + 1
      /\ \A j \in 1..Len(mid) : events'[j] = mid[j]
      /\ events'[Len(mid) + 1] = e
  BY <1>2, <1>5, <1>6, AppendProperties
<1> QED BY <1>2, <1>4, <1>6, <1>7 DEF Grown, e

(* One request changes, into a row of the right shape.                     *)
LEMMA ShapeKept ==
  ASSUME Shapes, PastKept, NEW p \in Requests, NEW r \in RequestRow,
         req' = [req EXCEPT ![p] = r],
         r.op = "idle" => r.d = None,
         r.op # "idle" => r.d \in Docs /\ r.pay \in Payloads,
         r.op = "reverse" =>
           /\ r.target \in DOMAIN events /\ events[r.target].kind = "COMMIT"
           /\ events[r.target].d = r.d /\ events[r.target].pay = r.pay
  PROVE  /\ req' \in [Requests -> RequestRow]
         /\ \A q \in Requests : RequestShape(q)'
<1>1. req' \in [Requests -> RequestRow]
  BY DEF Shapes
<1>2. ASSUME NEW q \in Requests PROVE RequestShape(q)'
  <2>1. CASE q = p
    BY <2>1 DEF Shapes, PastKept, RequestShape
  <2>2. CASE q # p
    <3>1. req'[q] = req[q] /\ RequestShape(q)
      BY <2>2 DEF Shapes
    <3> QED BY <3>1 DEF PastKept, RequestShape
  <2> QED BY <2>1, <2>2
<1> QED BY <1>1, <1>2

(* A completing submit and a callback keep the rows of the handoff typed.  *)
LEMMA HandoffTyped ==
  ASSUME Handoff!TypeOK, NEW d \in Docs,
         Handoff!Callback(d) \/ \E ev \in Nat : Handoff!Upsert(d, ev)
  PROVE  Handoff!TypeOK'
<1>1. handoff[d] \in Handoff!Record
  BY DEF Handoff!TypeOK
<1>2. ASSUME NEW ev \in Nat, Handoff!Upsert(d, ev) PROVE Handoff!TypeOK'
  <2>1. Handoff!Upserted(handoff[d], ev) \in Handoff!Record
    BY <1>1 DEF Handoff!Upserted, Handoff!Record, Handoff!Imported
  <2> QED BY <1>2, <2>1 DEF Handoff!TypeOK, Handoff!Upsert
<1>3. ASSUME NEW id \in RequestIds, Handoff!ImportSuccess(d, id)
      PROVE  Handoff!TypeOK'
  <2> DEFINE r == [exp |-> "EXPORTED", log |-> "IMPORTED", id |-> id, ev |-> handoff[d].ev]
  <2>1. r \in Handoff!Record
    BY <1>1 DEF Handoff!Record, Handoff!Imported
  <2>2. handoff' = [handoff EXCEPT ![d] = r] /\ UNCHANGED parcels
    BY <1>3 DEF Handoff!ImportSuccess
  <2> HIDE DEF r
  <2> QED BY <2>1, <2>2 DEF Handoff!TypeOK
<1>4. ASSUME Handoff!ImportFailure(d) PROVE Handoff!TypeOK'
  <2> DEFINE r == [exp |-> "FAILED", log |-> "FAILED", id |-> None, ev |-> handoff[d].ev]
  <2>1. r \in Handoff!Record
    BY <1>1 DEF Handoff!Record, Handoff!Imported
  <2>2. handoff' = [handoff EXCEPT ![d] = r] /\ UNCHANGED parcels
    BY <1>4 DEF Handoff!ImportFailure
  <2> HIDE DEF r
  <2> QED BY <2>1, <2>2 DEF Handoff!TypeOK
<1>5. ASSUME NEW id \in RequestIds \cup {None}, NEW pkgs \in (SUBSET Packages) \ {{}},
             Handoff!ShippingResults(d, id, pkgs)
      PROVE  Handoff!TypeOK'
  <2> DEFINE r == [exp |-> handoff[d].exp, log |-> "COMPLETED",
                   id |-> Handoff!Coalesce(id, handoff[d].id), ev |-> handoff[d].ev]
             s == parcels[d] \cup pkgs
  <2>1. r \in Handoff!Record
    BY <1>1 DEF Handoff!Record, Handoff!Imported, Handoff!Coalesce
  <2>2. handoff' = [handoff EXCEPT ![d] = r] /\ parcels' = [parcels EXCEPT ![d] = s]
    BY <1>5 DEF Handoff!ShippingResults
  <2>3. parcels[d] \in SUBSET Packages /\ pkgs \in SUBSET Packages
    BY DEF Handoff!TypeOK
  <2>4. s \in SUBSET Packages
    BY <2>3
  <2> HIDE DEF r, s
  <2>5. handoff' \in [Docs -> Handoff!Record]
    BY <2>1, <2>2 DEF Handoff!TypeOK
  <2>6. parcels' \in [Docs -> SUBSET Packages]
    BY <2>2, <2>4 DEF Handoff!TypeOK
  <2> QED BY <2>5, <2>6 DEF Handoff!TypeOK
<1> QED BY <1>2, <1>3, <1>4, <1>5 DEF Handoff!Callback

-----------------------------------------------------------------------------
(* The documents, lots and requests at the start.                          *)
LEMMA InitShapes == Init => Shapes
<1> SUFFICES ASSUME Init PROVE Shapes
  OBVIOUS
<1>1. events \in Seq(EventRow) /\ DOMAIN events = {}
  <2>1. events = << >>
    BY DEF Init
  <2>2. events \in Seq(EventRow) /\ Len(events) = 0
    BY <2>1, EmptySeq
  <2>3. DOMAIN events = 1..0
    BY <2>2, EventsAre
  <2> QED BY <2>2, <2>3
<1>2. Idle \in RequestRow /\ Idle.op = "idle" /\ Idle.d = None
  BY DEF Idle, RequestRow, Ops
<1>3. req \in [Requests -> RequestRow] /\ \A p \in Requests : RequestShape(p)
  BY <1>2 DEF Init, RequestShape
<1>4. Handoff!TypeOK
  BY DEF Init, Handoff!Init, Handoff!TypeOK, Handoff!Record, Handoff!NoRecord
<1>5. status \in [Docs -> {"OPEN", "NONE", "DRAFT", "RELEASED", "VOIDED", "COMPLETED"}]
  BY DEF Init
<1>6. clash \subseteq Docs
  BY DEF Init
<1> QED BY <1>1, <1>3, <1>4, <1>5, <1>6 DEF Shapes

(* What an event or a request holds, taken apart.                          *)
LEMMA RequestIs ==
  ASSUME Shapes, NEW p \in Requests
  PROVE  /\ req[p] \in RequestRow /\ RequestShape(p)
         /\ req \in [Requests -> RequestRow]
BY DEF Shapes

(* Nothing but the requests and the clashes changes.                       *)
LEMMA QuietShapes ==
  ASSUME Shapes, Quiet, clash' \subseteq Docs,
         NEW p \in Requests, NEW r \in RequestRow, req' = [req EXCEPT ![p] = r],
         r.op = "idle" => r.d = None,
         r.op # "idle" => r.d \in Docs /\ r.pay \in Payloads,
         r.op = "reverse" =>
           /\ r.target \in DOMAIN events /\ events[r.target].kind = "COMMIT"
           /\ events[r.target].d = r.d /\ events[r.target].pay = r.pay
  PROVE  Shapes'
<1>1. UNCHANGED events /\ PastKept
  BY SameIsKept DEF Quiet
<1>2. req' \in [Requests -> RequestRow] /\ \A q \in Requests : RequestShape(q)'
  BY <1>1, ShapeKept
<1>3. Handoff!TypeOK'
  BY DEF Shapes, Quiet, Handoff!TypeOK
<1> QED BY <1>1, <1>2, <1>3 DEF Shapes, Quiet

(* The shapes are kept by every step.                                      *)
LEMMA StepShapes == ASSUME Shapes, [Next]_vars PROVE Shapes'
<1>1. ASSUME NEW d \in Docs, NEW from, NEW to \in {"DRAFT", "RELEASED", "VOIDED"},
             SetStatus(d, from, to)
      PROVE  Shapes'
  <2>1. status' \in [Docs -> {"OPEN", "NONE", "DRAFT", "RELEASED", "VOIDED", "COMPLETED"}]
    BY <1>1 DEF SetStatus, Shapes
  <2>2. Handoff!TypeOK'
    BY <1>1 DEF SetStatus, Shapes, Handoff!TypeOK
  <2>3. \A p \in Requests : RequestShape(p)'
    BY <1>1 DEF SetStatus, Shapes, RequestShape
  <2> QED BY <1>1, <2>1, <2>2, <2>3 DEF SetStatus, Shapes
<1>2. ASSUME NEW d \in Docs, Callback(d) PROVE Shapes'
  <2>1. Handoff!TypeOK'
    BY <1>2, HandoffTyped DEF Callback, Shapes
  <2>2. \A p \in Requests : RequestShape(p)'
    BY <1>2 DEF Callback, Shapes, RequestShape
  <2> QED BY <1>2, <2>1, <2>2 DEF Callback, Shapes
<1>3. ASSUME NEW p \in Requests, NEW d \in Docs, NEW pay \in Payloads,
             OrderCheck(p, d, pay) \/ ManualCheck(p, d, pay)
      PROVE  Shapes'
  <2>1. PICK done \in BOOLEAN :
          req' = [req EXCEPT ![p] = [op |-> "write", d |-> d, pay |-> pay, target |-> 0,
                                     done |-> done]]
    BY <1>3 DEF OrderCheck, ManualCheck, Completes
  <2> DEFINE r == [op |-> "write", d |-> d, pay |-> pay, target |-> 0, done |-> done]
  <2>2. /\ r \in RequestRow /\ r.op = "write" /\ r.d \in Docs /\ r.pay \in Payloads
        /\ req' = [req EXCEPT ![p] = r]
    BY <2>1 DEF RequestRow, Ops
  <2>3. Quiet /\ clash' \subseteq Docs
    BY <1>3 DEF OrderCheck, ManualCheck, Start, Shapes
  <2> HIDE DEF r
  <2> QED BY <2>2, <2>3, QuietShapes
<1>4. ASSUME NEW p \in Requests, NEW n \in DOMAIN events, ReverseCheck(p, n)
      PROVE  Shapes'
  <2> DEFINE r == [op |-> "reverse", d |-> events[n].d, pay |-> events[n].pay,
                   target |-> n, done |-> FALSE]
  <2>1. events[n] \in EventRow /\ n \in Nat
    BY EventsAre DEF Shapes
  <2>2. /\ r \in RequestRow /\ r.op = "reverse" /\ r.d = events[n].d
        /\ r.pay = events[n].pay /\ r.target = n
    BY <2>1 DEF RequestRow, Ops, EventRow
  <2>3. Quiet /\ clash' \subseteq Docs /\ events[n].kind = "COMMIT"
    BY <1>4, <2>1 DEF ReverseCheck, Start, Shapes, EventRow, Reversible
  <2>4. req' = [req EXCEPT ![p] = r] /\ r.d \in Docs /\ r.pay \in Payloads
    BY <1>4, <2>1 DEF ReverseCheck, EventRow
  <2> HIDE DEF r
  <2> QED BY <2>2, <2>3, <2>4, QuietShapes
<1>5. ASSUME NEW p \in Requests, Write(p) PROVE Shapes'
  <2>1. PICK done \in BOOLEAN :
          req' = [req EXCEPT ![p] = [op |-> "commit", d |-> req[p].d, pay |-> req[p].pay,
                                     target |-> 0, done |-> done]]
    BY <1>5, RequestIs DEF Write, Completes, RequestRow
  <2> DEFINE r == [op |-> "commit", d |-> req[p].d, pay |-> req[p].pay, target |-> 0,
                   done |-> done]
  <2>2. req[p].d \in Docs /\ req[p].pay \in Payloads
    BY <1>5, RequestIs DEF Write, RequestShape
  <2>3. /\ r \in RequestRow /\ r.op = "commit" /\ r.d \in Docs /\ r.pay \in Payloads
        /\ req' = [req EXCEPT ![p] = r]
    BY <2>1, <2>2 DEF RequestRow, Ops
  <2>4. Quiet /\ clash' \subseteq Docs
    BY <1>5 DEF Write, Shapes
  <2> HIDE DEF r
  <2> QED BY <2>3, <2>4, QuietShapes
<1>6. Idle \in RequestRow /\ Idle.op = "idle" /\ Idle.d = None
  BY DEF Idle, RequestRow, Ops
<1>7. ASSUME NEW p \in Requests, Fail(p) PROVE Shapes'
  BY <1>6, <1>7, QuietShapes DEF Fail, Shapes
<1>8. ASSUME NEW p \in Requests, Commit(p) PROVE Shapes'
  <2> DEFINE e == Event(req[p].d, req[p].pay, "COMMIT", 0)
  <2>1. Grown(e) /\ e.target = 0 /\ Len(events) \in Nat
    BY <1>8, CommitGrows, EventsAre DEF Event, Shapes
  <2> HIDE DEF e
  <2>2. PastKept /\ \A n \in DOMAIN events' : events'[n].target \in 0..(n - 1)
    BY <2>1, GrownIsKept DEF Shapes
  <2>3. req' \in [Requests -> RequestRow] /\ \A q \in Requests : RequestShape(q)'
    BY <1>6, <1>8, <2>2, ShapeKept DEF Commit
  <2>4. req[p].d \in Docs
    BY <1>8, RequestIs DEF Commit, RequestShape
  <2>5. Handoff!TypeOK'
    <3>1. CASE req[p].done
      BY <1>8, <2>1, <2>4, <3>1, HandoffTyped DEF Commit, Handover, Shapes
    <3>2. CASE ~req[p].done
      BY <1>8, <3>2 DEF Commit, Handover, Shapes, Handoff!TypeOK
    <3> QED BY <3>1, <3>2
  <2>6. status' \in [Docs -> {"OPEN", "NONE", "DRAFT", "RELEASED", "VOIDED", "COMPLETED"}]
    BY <1>8 DEF Commit, CompleteManualDoc, Shapes
  <2>7. clash' \subseteq Docs
    BY <1>8 DEF Commit, Shapes
  <2> QED BY <2>1, <2>2, <2>3, <2>5, <2>6, <2>7 DEF Shapes, Grown
<1>9. ASSUME NEW p \in Requests, ReverseCommit(p) PROVE Shapes'
  <2> DEFINE e == Event(req[p].d, req[p].pay, "REVERSAL", req[p].target)
  <2>1. Grown(e) /\ e.target = req[p].target
    BY <1>9, ReversalGrows DEF Event
  <2>2. req[p].target \in 0..Len(events)
    BY <1>9, RequestIs, EventsAre DEF ReverseCommit, RequestShape, Shapes
  <2> HIDE DEF e
  <2>3. PastKept /\ \A n \in DOMAIN events' : events'[n].target \in 0..(n - 1)
    BY <2>1, <2>2, GrownIsKept DEF Shapes
  <2>4. req' \in [Requests -> RequestRow] /\ \A q \in Requests : RequestShape(q)'
    BY <1>6, <1>9, <2>3, ShapeKept DEF ReverseCommit
  <2>5. Handoff!TypeOK'
    BY <1>9 DEF ReverseCommit, Shapes, Handoff!TypeOK
  <2> QED BY <1>9, <2>1, <2>3, <2>4, <2>5 DEF ReverseCommit, Shapes, Grown
<1>10. CASE UNCHANGED vars
  <2>1. \A p \in Requests : RequestShape(p)'
    BY <1>10 DEF vars, Shapes, RequestShape
  <2>2. Handoff!TypeOK'
    BY <1>10 DEF vars, Shapes, Handoff!TypeOK
  <2> QED BY <1>10, <2>1, <2>2 DEF vars, Shapes
<1> QED
  BY <1>1, <1>2, <1>3, <1>4, <1>5, <1>7, <1>8, <1>9, <1>10
     DEF Next, CreateManualDoc, ReleaseManualDoc, VoidManualDoc

-----------------------------------------------------------------------------
(* Requests that hold lots after a step held them before.                  *)
HoldsNoMore ==
  \A q \in Requests : req'[q].op = "commit" =>
    req[q].op = "commit" /\ req'[q].pay = req[q].pay

(* A submit lists quantities of its own lots alone.                        *)
LEMMA HeldIs ==
  ASSUME Shapes, NEW p \in Requests, req[p].op # "idle"
  PROVE  /\ LotsIn(req[p].pay) \subseteq Lots
         /\ \A l : OfLot(req[p].pay, l) \in Nat
         /\ \A l : l \notin LotsIn(req[p].pay) => OfLot(req[p].pay, l) = 0
<1>1. req[p].pay \in Payloads
  BY RequestIs DEF RequestShape
<1>2. Adding(req[p].pay) /\ LotsIn(req[p].pay) \subseteq Lots
  BY <1>1, PayloadAdds
<1> QED BY <1>2, OfLotNat, OfLotNone

(* Steps that move no stock and hold no more.                              *)
LEMMA StillStock ==
  ASSUME StockInv, UNCHANGED <<events, stock>>, HoldsNoMore
  PROVE  StockInv'
<1>1. Explained'
  BY DEF StockInv, Explained, OfKind
<1>2. Reserved'
  BY DEF StockInv, Reserved, HoldsNoMore, Held
<1> QED BY <1>1, <1>2 DEF StockInv

(* A step that takes lots under their locks.                               *)
LEMMA WriteStock ==
  ASSUME Shapes, StockInv, NEW p \in Requests, Write(p)
  PROVE  StockInv'
<1>1. UNCHANGED <<events, stock>> /\ Free(p, req[p].pay) /\ Enough(req[p].pay)
  BY DEF Write, Quiet
<1>2. /\ req'[p].op = "commit" /\ req'[p].pay = req[p].pay /\ req[p].op = "write"
      /\ \A q \in Requests \ {p} : req'[q] = req[q]
  BY DEF Write, Shapes
<1>3. \A l \in Lots : OfLot(req[p].pay, l) <= stock[l]
  BY <1>1, <1>2, HeldIs DEF Enough, StockInv
<1>4. Explained'
  BY <1>1 DEF StockInv, Explained, OfKind
<1>5. \A q \in Requests \ {p} : LotsIn(req[p].pay) \cap Held(q) = {} /\ Held(q)' = Held(q)
  BY <1>1, <1>2 DEF Free, Held
<1>6. Held(p)' = LotsIn(req[p].pay)
  BY <1>2 DEF Held
<1>7. ASSUME NEW q \in Requests, req'[q].op = "commit"
      PROVE  /\ \A l \in Lots : OfLot(req'[q].pay, l) <= stock'[l]
             /\ \A o \in Requests \ {q} : Held(o)' \cap LotsIn(req'[q].pay) = {}
  <2>1. CASE q = p
    BY <1>1, <1>2, <1>3, <1>5, <2>1
  <2>2. CASE q # p
    <3>1. req[q].op = "commit" /\ req'[q].pay = req[q].pay /\ Held(q) = LotsIn(req[q].pay)
      BY <1>2, <1>7, <2>2 DEF Held
    <3>2. ASSUME NEW o \in Requests \ {q}
          PROVE  Held(o)' \cap LotsIn(req'[q].pay) = {}
      <4>1. CASE o = p
        BY <1>5, <1>6, <2>2, <3>1, <4>1
      <4>2. CASE o # p
        BY <1>5, <3>1, <4>2 DEF StockInv, Reserved
      <4> QED BY <4>1, <4>2
    <3>3. \A l \in Lots : OfLot(req'[q].pay, l) <= stock'[l]
      BY <1>1, <3>1 DEF StockInv, Reserved
    <3> QED BY <3>2, <3>3
  <2> QED BY <2>1, <2>2
<1>8. Reserved'
  BY <1>7 DEF Reserved
<1> QED BY <1>1, <1>4, <1>8 DEF StockInv

(* What a submit takes is explained by its event and leaves to the others  *)
(* what they hold.                                                         *)
LEMMA CommitStock ==
  ASSUME Shapes, StockInv, NEW p \in Requests, Commit(p)
  PROVE  StockInv'
<1> DEFINE e == Event(req[p].d, req[p].pay, "COMMIT", 0)
<1>1. Grown(e) /\ e.kind = "COMMIT" /\ e.pay = req[p].pay /\ events \in Seq(EventRow)
  BY CommitGrows DEF Event, Shapes
<1> HIDE DEF e
<1>2. /\ req[p].op = "commit" /\ \A q \in Requests \ {p} : req'[q] = req[q]
      /\ req'[p].op = "idle"
      /\ stock' = [l \in Lots |-> stock[l] - OfLot(req[p].pay, l)]
  BY DEF Commit, Shapes, Idle
<1>3. \A l \in Lots : /\ OfLot(req[p].pay, l) \in Nat /\ OfLot(req[p].pay, l) <= stock[l]
                      /\ stock[l] \in Nat /\ stock'[l] = stock[l] - OfLot(req[p].pay, l)
  BY <1>2, HeldIs DEF StockInv, Reserved
<1>4. stock' \in [Lots -> Nat]
  BY <1>2, <1>3
<1>5. Explained'
  <2> SUFFICES ASSUME NEW l \in Lots
               PROVE  stock'[l] = Stock0[l] - LotTotal(events, OfKind("COMMIT"), l)'
                                            + LotTotal(events, OfKind("REVERSAL"), l)'
    BY DEF Explained
  <2>1. /\ LotTotal(events, OfKind("COMMIT"), l) \in Nat
        /\ LotTotal(events, OfKind("COMMIT"), l)'
             = LotTotal(events, OfKind("COMMIT"), l) + OfLot(req[p].pay, l)
    BY <1>1, LotsGrow
  <2>2. /\ LotTotal(events, OfKind("REVERSAL"), l) \in Nat
        /\ LotTotal(events, OfKind("REVERSAL"), l)' = LotTotal(events, OfKind("REVERSAL"), l)
    BY <1>1, LotsGrow
  <2>3. stock[l] = Stock0[l] - LotTotal(events, OfKind("COMMIT"), l)
                             + LotTotal(events, OfKind("REVERSAL"), l)
    BY DEF StockInv, Explained
  <2>4. Stock0[l] \in Nat
    BY OutboundAssumption
  <2> QED BY <1>3, <2>1, <2>2, <2>3, <2>4
<1>6. ASSUME NEW q \in Requests, req'[q].op = "commit"
      PROVE  /\ \A l \in Lots : OfLot(req'[q].pay, l) <= stock'[l]
             /\ \A o \in Requests \ {q} : Held(o)' \cap LotsIn(req'[q].pay) = {}
  <2>1. q # p /\ req[q].op = "commit" /\ req'[q].pay = req[q].pay
    BY <1>2, <1>6
  <2>2. LotsIn(req[p].pay) \cap LotsIn(req[q].pay) = {}
    BY <1>2, <2>1 DEF StockInv, Reserved, Held
  <2>3. ASSUME NEW l \in Lots PROVE OfLot(req'[q].pay, l) <= stock'[l]
    <3>1. CASE l \in LotsIn(req[q].pay)
      <4>1. OfLot(req[p].pay, l) = 0
        BY <1>2, <2>2, <3>1, HeldIs
      <4>2. OfLot(req[q].pay, l) <= stock[l]
        BY <2>1 DEF StockInv, Reserved
      <4> QED BY <1>3, <2>1, <4>1, <4>2
    <3>2. CASE l \notin LotsIn(req[q].pay)
      <4>1. OfLot(req[q].pay, l) = 0
        BY <2>1, <3>2, HeldIs
      <4> QED BY <1>4, <2>1, <4>1
    <3> QED BY <3>1, <3>2
  <2>4. \A o \in Requests \ {q} : Held(o)' \cap LotsIn(req'[q].pay) = {}
    BY <1>2, <2>1 DEF StockInv, Reserved, Held
  <2> QED BY <2>3, <2>4
<1>7. Reserved'
  BY <1>6 DEF Reserved
<1> QED BY <1>4, <1>5, <1>7 DEF StockInv

(* What a reversal gives back is explained by its event.                   *)
LEMMA ReversalStock ==
  ASSUME Shapes, StockInv, NEW p \in Requests, ReverseCommit(p)
  PROVE  StockInv'
<1> DEFINE e == Event(req[p].d, req[p].pay, "REVERSAL", req[p].target)
<1>1. Grown(e) /\ e.kind = "REVERSAL" /\ e.pay = req[p].pay /\ events \in Seq(EventRow)
  BY ReversalGrows DEF Event, Shapes
<1> HIDE DEF e
<1>2. /\ req[p].op = "reverse" /\ \A q \in Requests \ {p} : req'[q] = req[q]
      /\ req'[p].op = "idle"
      /\ stock' = [l \in Lots |-> stock[l] + OfLot(req[p].pay, l)]
  BY DEF ReverseCommit, Shapes, Idle, Restored
<1>3. \A l \in Lots : /\ OfLot(req[p].pay, l) \in Nat
                      /\ stock[l] \in Nat /\ stock'[l] = stock[l] + OfLot(req[p].pay, l)
  BY <1>2, HeldIs DEF StockInv
<1>4. stock' \in [Lots -> Nat]
  BY <1>2, <1>3
<1>5. Explained'
  <2> SUFFICES ASSUME NEW l \in Lots
               PROVE  stock'[l] = Stock0[l] - LotTotal(events, OfKind("COMMIT"), l)'
                                            + LotTotal(events, OfKind("REVERSAL"), l)'
    BY DEF Explained
  <2>1. /\ LotTotal(events, OfKind("REVERSAL"), l) \in Nat
        /\ LotTotal(events, OfKind("REVERSAL"), l)'
             = LotTotal(events, OfKind("REVERSAL"), l) + OfLot(req[p].pay, l)
    BY <1>1, LotsGrow
  <2>2. /\ LotTotal(events, OfKind("COMMIT"), l) \in Nat
        /\ LotTotal(events, OfKind("COMMIT"), l)' = LotTotal(events, OfKind("COMMIT"), l)
    BY <1>1, LotsGrow
  <2>3. stock[l] = Stock0[l] - LotTotal(events, OfKind("COMMIT"), l)
                             + LotTotal(events, OfKind("REVERSAL"), l)
    BY DEF StockInv, Explained
  <2>4. Stock0[l] \in Nat
    BY OutboundAssumption
  <2> QED BY <1>3, <2>1, <2>2, <2>3, <2>4
<1>6. ASSUME NEW q \in Requests, req'[q].op = "commit"
      PROVE  /\ \A l \in Lots : OfLot(req'[q].pay, l) <= stock'[l]
             /\ \A o \in Requests \ {q} : Held(o)' \cap LotsIn(req'[q].pay) = {}
  <2>1. q # p /\ req[q].op = "commit" /\ req'[q].pay = req[q].pay
    BY <1>2, <1>6
  <2>2. ASSUME NEW l \in Lots PROVE OfLot(req'[q].pay, l) <= stock'[l]
    <3>1. OfLot(req[q].pay, l) <= stock[l] /\ OfLot(req[q].pay, l) \in Nat
      BY <2>1, HeldIs DEF StockInv, Reserved
    <3> QED BY <1>3, <2>1, <3>1
  <2>3. \A o \in Requests \ {q} : Held(o)' \cap LotsIn(req'[q].pay) = {}
    BY <1>2, <2>1 DEF StockInv, Reserved, Held
  <2> QED BY <2>2, <2>3
<1>7. Reserved'
  BY <1>6 DEF Reserved
<1> QED BY <1>4, <1>5, <1>7 DEF StockInv

(* The stock is explained and what is reserved is there after every step.  *)
LEMMA StepStock == ASSUME Shapes, StockInv, [Next]_vars PROVE StockInv'
<1>1. ASSUME NEW d \in Docs, NEW from, NEW to, SetStatus(d, from, to) PROVE StockInv'
  BY <1>1, StillStock DEF SetStatus, HoldsNoMore
<1>2. ASSUME NEW d \in Docs, Callback(d) PROVE StockInv'
  BY <1>2, StillStock DEF Callback, HoldsNoMore
<1>3. ASSUME NEW p \in Requests, NEW d \in Docs, NEW pay \in Payloads,
             OrderCheck(p, d, pay) \/ ManualCheck(p, d, pay)
      PROVE  StockInv'
  <2>1. HoldsNoMore /\ UNCHANGED <<events, stock>>
    BY <1>3 DEF OrderCheck, ManualCheck, HoldsNoMore, Quiet, Shapes
  <2> QED BY <2>1, StillStock
<1>4. ASSUME NEW p \in Requests, NEW n \in DOMAIN events, ReverseCheck(p, n)
      PROVE  StockInv'
  <2>1. HoldsNoMore /\ UNCHANGED <<events, stock>>
    BY <1>4 DEF ReverseCheck, HoldsNoMore, Quiet, Shapes
  <2> QED BY <2>1, StillStock
<1>5. ASSUME NEW p \in Requests, Fail(p) PROVE StockInv'
  <2>1. HoldsNoMore /\ UNCHANGED <<events, stock>>
    BY <1>5 DEF Fail, HoldsNoMore, Quiet, Shapes, Idle
  <2> QED BY <2>1, StillStock
<1>6. CASE UNCHANGED vars
  BY <1>6, StillStock DEF vars, HoldsNoMore
<1> QED
  BY <1>1, <1>2, <1>3, <1>4, <1>5, <1>6, WriteStock, CommitStock, ReversalStock
     DEF Next, CreateManualDoc, ReleaseManualDoc, VoidManualDoc

(* At the start the stock is what it is and nothing is held.               *)
LEMMA InitStock == Init => StockInv
<1> SUFFICES ASSUME Init PROVE StockInv
  OBVIOUS
<1>1. stock \in [Lots -> Nat] /\ stock = Stock0
  BY OutboundAssumption DEF Init
<1>2. DOMAIN events = {}
  BY InitShapes, EventsAre, EmptySeq DEF Init, Shapes
<1>3. OfKind("COMMIT") = {} /\ OfKind("REVERSAL") = {}
  BY <1>2 DEF OfKind
<1>4. ASSUME NEW l \in Lots
      PROVE  /\ LotTotal(events, OfKind("COMMIT"), l) = 0
             /\ LotTotal(events, OfKind("REVERSAL"), l) = 0
  <2>1. LotTotal(events, {}, l) = 0
    BY SumEmpty DEF LotTotal
  <2> QED BY <1>3, <2>1, Zenon
<1>5. Explained
  BY <1>1, <1>4 DEF Explained
<1>6. Reserved
  BY DEF Init, Idle, Reserved
<1> QED BY <1>1, <1>5, <1>6 DEF StockInv

(* The events explain the stock, whichever requests are in flight on the   *)
(* same lots, and no lot is ever below zero: what a submit found under its *)
(* locks is there when it commits (_write_event_and_ledger, adjust_lot).   *)
THEOREM StockIsExplained == Spec => []EventsExplainStock
<1>1. Init => Shapes /\ StockInv
  BY InitShapes, InitStock
<1>2. Shapes /\ StockInv /\ [Next]_vars => (Shapes /\ StockInv)'
  BY StepShapes, StepStock
<1>3. Shapes /\ StockInv => EventsExplainStock
  <2> SUFFICES ASSUME Shapes, StockInv PROVE EventsExplainStock
    OBVIOUS
  <2>1. \A n \in DOMAIN events : events[n] \in EventRow
    BY EventsAre DEF Shapes
  <2>2. \A p \in Requests : req[p].op \in {"idle", "write", "commit", "reverse"}
    BY DEF Shapes, RequestRow, Ops
  <2>3. TypeOK
    BY <2>1, <2>2 DEF TypeOK, Shapes, StockInv, EventRow
  <2> QED BY <2>3 DEF EventsExplainStock, StockInv, Explained
<1> QED BY <1>1, <1>2, <1>3, PTL DEF Spec

-----------------------------------------------------------------------------
Reads == OneAtATime /\ StillReversible /\ StillFits /\ DoneIsRight

(* The progress is a matter of the events.                                 *)
LEMMA SameProgress ==
  ASSUME UNCHANGED events
  PROVE  /\ \A d, ln : Submitted(d, ln)' = Submitted(d, ln)
         /\ \A d, ln : Shipped(d, ln)' = Shipped(d, ln)
         /\ \A n : ReversalsOf(n)' = ReversalsOf(n)
         /\ \A d, part : Fits(d, part)' = Fits(d, part)
         /\ \A d, pay : Completes(d, pay)' = Completes(d, pay)
         /\ \A d, k : FullBy(d, k)' = FullBy(d, k)
         /\ \A d : ListedTwice(d)' = ListedTwice(d)
<1>1. \A d, ln : Submitted(d, ln)' = Submitted(d, ln)
  BY DEF Submitted
<1>2. \A d, ln : Shipped(d, ln)' = Shipped(d, ln)
  BY DEF Shipped, OfKind
<1>3. \A n : ReversalsOf(n)' = ReversalsOf(n)
  BY DEF ReversalsOf
<1>4. \A d, part : Fits(d, part)' = Fits(d, part)
  BY <1>1 DEF Fits
<1>5. \A d, pay : Completes(d, pay)' = Completes(d, pay)
  BY <1>1 DEF Completes
<1>6. \A d, k : FullBy(d, k)' = FullBy(d, k)
  BY DEF FullBy
<1>7. \A d : ListedTwice(d)' = ListedTwice(d)
  BY DEF ListedTwice
<1> QED BY <1>1, <1>2, <1>3, <1>4, <1>5, <1>6, <1>7

(* A request enters a document.                                            *)
LEMMA EnterReads ==
  ASSUME Shapes, Reads, UNCHANGED events,
         NEW p \in Requests, NEW d \in Docs, Start(p, d),
         NEW r \in RequestRow, r.d = d, req' = [req EXCEPT ![p] = r],
         r.op = "reverse" => ReversalsOf(r.target) = {},
         r.op = "write" /\ Kind[d] = "ORDER" => \A n \in DOMAIN r.pay : Fits(d, r.pay[n]),
         r.op = "write" /\ r.done => Completes(d, r.pay),
         r.op = "write" /\ Kind[d] = "ORDER" /\ Completes(d, r.pay) => r.done,
         r.op \in {"reverse", "write"}
  PROVE  Reads'
<1>1. /\ clash \subseteq clash'
      /\ (\E q \in Requests : req[q].d = d) => d \in clash'
      /\ req[p].op = "idle" /\ req[p].d = None
  BY DEF Start, Idle
<1>2. req'[p] = r /\ \A q \in Requests \ {p} : req'[q] = req[q]
  BY DEF Shapes
<1>3. OneAtATime'
  <2> SUFFICES ASSUME NEW o \in Requests, NEW q \in Requests \ {o},
                      req'[o].op # "idle", req'[q].d = req'[o].d
               PROVE  req'[o].d \in clash'
    BY DEF OneAtATime
  <2>1. CASE o = p
    BY <1>1, <1>2, <2>1
  <2>2. CASE q = p
    BY <1>1, <1>2, <2>2
  <2>3. CASE o # p /\ q # p
    BY <1>1, <1>2, <2>3 DEF Reads, OneAtATime
  <2> QED BY <2>1, <2>2, <2>3
<1>4. StillReversible'
  BY <1>1, <1>2, SameProgress DEF Reads, StillReversible
<1>5. StillFits'
  <2> SUFFICES ASSUME NEW q \in Requests, req'[q].op \in {"write", "commit"},
                      Kind[req'[q].d] = "ORDER", req'[q].d \notin clash',
                      NEW n \in DOMAIN req'[q].pay
               PROVE  Fits(req'[q].d, req'[q].pay[n])
    BY SameProgress DEF StillFits, Submits
  <2>1. CASE q = p
    BY <1>2, <2>1
  <2>2. CASE q # p
    BY <1>1, <1>2, <2>2 DEF Reads, StillFits, Submits
  <2> QED BY <2>1, <2>2
<1>6. DoneIsRight'
  <2> SUFFICES ASSUME NEW q \in Requests, req'[q].op \in {"write", "commit"}
               PROVE  /\ req'[q].done => Completes(req'[q].d, req'[q].pay)
                      /\ /\ req'[q].d \notin clash'
                         /\ Kind[req'[q].d] = "ORDER" \/ req'[q].op = "commit"
                         /\ Completes(req'[q].d, req'[q].pay)
                         => req'[q].done
    BY SameProgress DEF DoneIsRight, Submits
  <2>1. CASE q = p
    BY <1>2, <2>1
  <2>2. CASE q # p
    BY <1>1, <1>2, <2>2 DEF Reads, DoneIsRight, Submits
  <2> QED BY <2>1, <2>2
<1> QED BY <1>3, <1>4, <1>5, <1>6 DEF Reads

(* Requests stay as they are or end.                                       *)
LEMMA StayReads ==
  ASSUME Shapes, Reads, UNCHANGED <<events, clash>>,
         \A q \in Requests : req'[q] = req[q] \/ req'[q] = Idle
  PROVE  Reads'
<1>1. Idle.op = "idle" /\ Idle.d = None
  BY DEF Idle
<1>2. \A q \in Requests : req'[q].op # "idle" => req'[q] = req[q]
  BY <1>1
<1>3. OneAtATime'
  <2> SUFFICES ASSUME NEW o \in Requests, NEW q \in Requests \ {o},
                      req'[o].op # "idle", req'[q].d = req'[o].d
               PROVE  req'[o].d \in clash'
    BY DEF OneAtATime
  <2>1. req'[o] = req[o] /\ req[o].d \in Docs
    BY <1>2, RequestIs DEF RequestShape
  <2>2. req'[q] = req[q]
    BY <1>1, <2>1, OutboundAssumption
  <2> QED BY <2>1, <2>2 DEF Reads, OneAtATime
<1>4. StillReversible'
  BY <1>2, SameProgress DEF Reads, StillReversible
<1>5. StillFits'
  BY <1>2, SameProgress DEF Reads, StillFits, Submits
<1>6. DoneIsRight'
  BY <1>2, SameProgress DEF Reads, DoneIsRight, Submits
<1> QED BY <1>3, <1>4, <1>5, <1>6 DEF Reads

(* A submit has written: a manual document's completion is read now.       *)
LEMMA WriteReads ==
  ASSUME Shapes, Reads, NEW p \in Requests, Write(p)
  PROVE  Reads'
<1> DEFINE r == [op |-> "commit", d |-> req[p].d, pay |-> req[p].pay, target |-> 0,
                 done |-> IF Kind[req[p].d] = "ORDER" THEN req[p].done
                          ELSE Completes(req[p].d, req[p].pay)]
<1>1. /\ req[p].op = "write" /\ req'[p] = r
      /\ \A q \in Requests \ {p} : req'[q] = req[q]
      /\ UNCHANGED <<events, clash>>
  BY DEF Write, Quiet, Shapes
<1>2. /\ r.op = "commit" /\ r.d = req[p].d /\ r.pay = req[p].pay
      /\ Kind[req[p].d] = "ORDER" => r.done = req[p].done
      /\ Kind[req[p].d] # "ORDER" => r.done = Completes(req[p].d, req[p].pay)
  OBVIOUS
<1> HIDE DEF r
<1>3. OneAtATime'
  BY <1>1, <1>2 DEF Reads, OneAtATime
<1>4. StillReversible'
  BY <1>1, <1>2, SameProgress DEF Reads, StillReversible
<1>5. StillFits'
  BY <1>1, <1>2, SameProgress DEF Reads, StillFits, Submits
<1>6. DoneIsRight'
  <2> SUFFICES ASSUME NEW q \in Requests, req'[q].op \in {"write", "commit"}
               PROVE  /\ req'[q].done => Completes(req'[q].d, req'[q].pay)
                      /\ /\ req'[q].d \notin clash'
                         /\ Kind[req'[q].d] = "ORDER" \/ req'[q].op = "commit"
                         /\ Completes(req'[q].d, req'[q].pay)
                         => req'[q].done
    BY <1>1, SameProgress DEF DoneIsRight, Submits
  <2>1. CASE q = p
    BY <1>1, <1>2, <2>1 DEF Reads, DoneIsRight, Submits
  <2>2. CASE q # p
    BY <1>1, <2>2 DEF Reads, DoneIsRight, Submits
  <2> QED BY <2>1, <2>2
<1> QED BY <1>3, <1>4, <1>5, <1>6 DEF Reads

(* A request writes an event of its document and ends: nobody else who has *)
(* a document to itself sees it.                                           *)
LEMMA GrownReads ==
  ASSUME Shapes, Reads, NEW p \in Requests, req[p].op # "idle",
         NEW e, Grown(e), e.d = req[p].d,
         e.target = 0 \/ (req[p].op = "reverse" /\ e.target = req[p].target),
         req' = [req EXCEPT ![p] = Idle], UNCHANGED clash
  PROVE  Reads'
<1>1. /\ \A q \in Requests : req'[q].op # "idle" =>
            q # p /\ req'[q] = req[q] /\ req[q].op # "idle"
      /\ \A q \in Requests : req'[q] = req[q] \/ req'[q] = Idle
      /\ Idle.op = "idle" /\ Idle.d = None
  BY DEF Shapes, Idle
<1>2. \A q \in Requests : req'[q].op # "idle" /\ req'[q].d \notin clash => req[q].d # e.d
  BY <1>1 DEF Reads, OneAtATime
<1>3. events \in Seq(EventRow) /\ e.pay \in Payloads
  BY DEF Shapes, Grown, EventRow
<1>4. ASSUME NEW d \in Docs, NEW ln
      PROVE  /\ Submitted(d, ln)' >= Submitted(d, ln)
             /\ d # e.d => Submitted(d, ln)' = Submitted(d, ln)
             /\ Submitted(d, ln) \in Nat /\ Submitted(d, ln)' \in Nat
  <2>1. Submitted(d, ln) \in Nat
    BY <1>3, TotalsAre
  <2>2. OfLine(e.pay, ln) \in Nat
    BY <1>3, PayloadAdds, OfLineNat
  <2>3. e.d = d => Submitted(d, ln)' = Submitted(d, ln) + OfLine(e.pay, ln)
    BY <1>3, LinesGrow
  <2>4. e.d # d => Submitted(d, ln)' = Submitted(d, ln)
    BY <1>3, LinesGrow
  <2> QED BY <2>1, <2>2, <2>3, <2>4
<1>5. OneAtATime'
  <2> SUFFICES ASSUME NEW o \in Requests, NEW q \in Requests \ {o},
                      req'[o].op # "idle", req'[q].d = req'[o].d
               PROVE  req'[o].d \in clash'
    BY DEF OneAtATime
  <2>1. req'[o] = req[o] /\ req[o].d \in Docs
    BY <1>1, RequestIs DEF RequestShape
  <2>2. req'[q] = req[q]
    BY <1>1, <2>1, OutboundAssumption
  <2> QED BY <2>1, <2>2 DEF Reads, OneAtATime
<1>6. StillReversible'
  <2> SUFFICES ASSUME NEW q \in Requests, req'[q].op = "reverse", req'[q].d \notin clash'
               PROVE  ReversalsOf(req[q].target)' = {}
    BY DEF StillReversible
  <2> DEFINE n == req[q].target
  <2>1. /\ req'[q] = req[q] /\ q # p /\ req[q].d # e.d /\ ReversalsOf(n) = {}
    BY <1>1, <1>2 DEF Reads, StillReversible
  <2>2. n \in DOMAIN events /\ events[n].d = req[q].d
    BY <2>1, RequestIs DEF RequestShape
  <2>3. e.target # n
    BY <2>1, <2>2, RequestIs, EventsAre DEF RequestShape, Shapes
  <2>4. Len(events) \in Nat /\ DOMAIN events = 1..Len(events)
    BY <1>3, EventsAre
  <2>5. DOMAIN events' = 1..(Len(events) + 1)
    BY LenProperties DEF Grown
  <2> QED BY <2>1, <2>3, <2>4, <2>5 DEF ReversalsOf, Grown
<1>7. ASSUME NEW q \in Requests, req'[q].op \in {"write", "commit"}
      PROVE  /\ req[q].op = req'[q].op /\ req'[q] = req[q] /\ req[q].d \in Docs
             /\ req[q].d \notin clash => req[q].d # e.d
             /\ req[q].pay \in Payloads
  BY <1>1, <1>2, <1>7, RequestIs DEF RequestShape
<1>8. StillFits'
  <2> SUFFICES ASSUME NEW q \in Requests, req'[q].op \in {"write", "commit"},
                      Kind[req'[q].d] = "ORDER", req'[q].d \notin clash',
                      NEW n \in DOMAIN req'[q].pay
               PROVE  Fits(req[q].d, req[q].pay[n])'
    BY DEF StillFits, Submits
  <2>1. PICK d, part : d = req[q].d /\ part = req[q].pay[n]
    OBVIOUS
  <2>2. Fits(d, part) /\ d = req'[q].d /\ part = req'[q].pay[n] /\ d \in Docs
    BY <1>7, <2>1 DEF Reads, StillFits, Submits
  <2>3. Submitted(d, part.line)' = Submitted(d, part.line)
    BY <1>4, <1>7, <2>1
  <2>4. Fits(d, part)'
    BY <2>2, <2>3 DEF Fits
  <2> QED BY <2>2, <2>4
<1>9. DoneIsRight'
  <2> SUFFICES ASSUME NEW q \in Requests, req'[q].op \in {"write", "commit"}
               PROVE  /\ req'[q].done => Completes(req[q].d, req[q].pay)'
                      /\ /\ req'[q].d \notin clash'
                         /\ Kind[req'[q].d] = "ORDER" \/ req'[q].op = "commit"
                         /\ Completes(req[q].d, req[q].pay)'
                         => req'[q].done
    BY DEF DoneIsRight, Submits
  <2>1. PICK d, pay : d = req[q].d /\ pay = req[q].pay
    OBVIOUS
  <2>2. d = req'[q].d /\ pay = req'[q].pay /\ d \in Docs /\ pay \in Payloads
    BY <1>7, <2>1
  <2>3. /\ req[q].done => Completes(d, pay)
        /\ /\ d \notin clash
           /\ Kind[d] = "ORDER" \/ req[q].op = "commit"
           /\ Completes(d, pay)
           => req[q].done
    BY <1>7, <2>1 DEF Reads, DoneIsRight, Submits
  <2>4. \A ln \in Lines : OfLine(pay, ln) \in Nat /\ Want[ln] \in Nat
    BY <2>2, PayloadAdds, OfLineNat, OutboundAssumption
  <2>5. Completes(d, pay) => Completes(d, pay)'
    BY <1>4, <2>2, <2>4 DEF Completes
  <2>6. d \notin clash => (Completes(d, pay)' => Completes(d, pay))
    BY <1>4, <1>7, <2>1, <2>2, <2>4 DEF Completes
  <2>7. Completes(req[q].d, req[q].pay)' <=> Completes(d, pay)'
    BY <2>2
  <2> QED BY <1>7, <2>1, <2>3, <2>5, <2>6, <2>7
<1> QED BY <1>5, <1>6, <1>8, <1>9 DEF Reads

-----------------------------------------------------------------------------
History == ReversedOnce /\ NoOverSubmit /\ HandedOverIffShipped /\ HandoffIsCompletion

HandSame ==
  \A x \in Docs : /\ Handoff!Exists(x)' <=> Handoff!Exists(x)
                  /\ handoff'[x].ev = handoff[x].ev

(* A callback hands nothing over and leaves the payload alone.             *)
LEMMA CallbackSame ==
  ASSUME Handoff!TypeOK, NEW d \in Docs, Handoff!Callback(d) PROVE HandSame
<1>1. PICK r : /\ handoff' = [handoff EXCEPT ![d] = r] /\ r.ev = handoff[d].ev
               /\ r.exp # "NONE" /\ Handoff!Exists(d)
  <2>1. ASSUME NEW id \in RequestIds, Handoff!ImportSuccess(d, id)
        PROVE  \E r : /\ handoff' = [handoff EXCEPT ![d] = r] /\ r.ev = handoff[d].ev
                      /\ r.exp # "NONE" /\ Handoff!Exists(d)
    <3> DEFINE r == [exp |-> "EXPORTED", log |-> "IMPORTED", id |-> id,
                     ev |-> handoff[d].ev]
    <3>1. handoff' = [handoff EXCEPT ![d] = r] /\ Handoff!Exists(d)
      BY <2>1 DEF Handoff!ImportSuccess
    <3>2. r.ev = handoff[d].ev /\ r.exp # "NONE"
      OBVIOUS
    <3> HIDE DEF r
    <3> QED BY <3>1, <3>2
  <2>2. ASSUME Handoff!ImportFailure(d)
        PROVE  \E r : /\ handoff' = [handoff EXCEPT ![d] = r] /\ r.ev = handoff[d].ev
                      /\ r.exp # "NONE" /\ Handoff!Exists(d)
    <3> DEFINE r == [exp |-> "FAILED", log |-> "FAILED", id |-> None, ev |-> handoff[d].ev]
    <3>1. handoff' = [handoff EXCEPT ![d] = r] /\ Handoff!Exists(d)
      BY <2>2 DEF Handoff!ImportFailure
    <3>2. r.ev = handoff[d].ev /\ r.exp # "NONE"
      OBVIOUS
    <3> HIDE DEF r
    <3> QED BY <3>1, <3>2
  <2>3. ASSUME NEW id, NEW pkgs, Handoff!ShippingResults(d, id, pkgs)
        PROVE  \E r : /\ handoff' = [handoff EXCEPT ![d] = r] /\ r.ev = handoff[d].ev
                      /\ r.exp # "NONE" /\ Handoff!Exists(d)
    <3> DEFINE r == [exp |-> handoff[d].exp, log |-> "COMPLETED",
                     id |-> Handoff!Coalesce(id, handoff[d].id), ev |-> handoff[d].ev]
    <3>1. handoff' = [handoff EXCEPT ![d] = r] /\ handoff[d].exp = "EXPORTED"
      BY <2>3 DEF Handoff!ShippingResults
    <3>2. r.ev = handoff[d].ev /\ r.exp # "NONE"
      BY <3>1
    <3>3. Handoff!Exists(d)
      BY <3>1 DEF Handoff!Exists, Handoff!NoRecord
    <3> HIDE DEF r
    <3> QED BY <3>1, <3>2, <3>3
  <2> QED BY <2>1, <2>2, <2>3 DEF Handoff!Callback
<1>2. r # Handoff!NoRecord
  BY <1>1 DEF Handoff!NoRecord
<1> QED BY <1>1, <1>2 DEF HandSame, Handoff!TypeOK, Handoff!Exists

(* A completing submit hands its document over, with its event.            *)
LEMMA UpsertHands ==
  ASSUME Handoff!TypeOK, NEW d \in Docs, NEW ev, Handoff!Upsert(d, ev)
  PROVE  /\ Handoff!Exists(d)' /\ handoff'[d].ev = ev
         /\ \A x \in Docs \ {d} : handoff'[x] = handoff[x]
<1>1. /\ handoff'[d] = Handoff!Upserted(handoff[d], ev)
      /\ \A x \in Docs \ {d} : handoff'[x] = handoff[x]
  BY DEF Handoff!Upsert, Handoff!TypeOK
<1>2. handoff'[d].exp # "NONE" /\ handoff'[d].ev = ev
  BY <1>1 DEF Handoff!Upserted
<1>3. handoff'[d] # Handoff!NoRecord
  BY <1>2 DEF Handoff!NoRecord
<1> QED BY <1>1, <1>2, <1>3 DEF Handoff!Exists

(* Steps that write no event and hand nothing over.                        *)
LEMMA QuietHistory ==
  ASSUME Shapes, History, UNCHANGED events, clash \subseteq clash', HandSame,
         \A d \in Docs : /\ status'[d] = "COMPLETED" <=> status[d] = "COMPLETED"
                         /\ status[d] = "VOIDED" => status'[d] = "VOIDED"
  PROVE  History'
<1>0. \A x : x \in Docs \ clash' => x \in Docs \ clash
  OBVIOUS
<1>1. ReversedOnce'
  BY <1>0, SameProgress DEF History, ReversedOnce, Alone
<1>2. NoOverSubmit'
  BY <1>0, SameProgress DEF History, NoOverSubmit, Alone
<1>3. HandedOverIffShipped'
  BY <1>0, SameProgress DEF History, HandedOverIffShipped, Alone, HandSame
<1>4. HandoffIsCompletion'
  BY <1>0, SameProgress DEF History, HandoffIsCompletion, Alone, HandSame
<1> QED BY <1>1, <1>2, <1>3, <1>4 DEF History

(* What is full by an event stays full by it.                              *)
LEMMA FullKept ==
  ASSUME events \in Seq(EventRow), NEW e, Grown(e), NEW d, NEW k \in 0..Len(events)
  PROVE  FullBy(d, k)' <=> FullBy(d, k)
<1> DEFINE N == {m \in 1..k : events[m].d = d}
           NN == {m \in 1..k : events'[m].d = d}
<1>1. Len(events) \in Nat
  BY EventsAre
<1>2. NN = N /\ \A n \in N : events[n].pay = events'[n].pay
  BY <1>1 DEF Grown
<1>3. IsFiniteSet(N)
  <2>1. IsFiniteSet(1..k)
    BY <1>1, FS_Interval
  <2> QED BY <2>1, FS_Subset
<1>4. ASSUME NEW ln \in Lines
      PROVE  LineTotal(events', NN, ln) = LineTotal(events, N, ln)
  <2> HIDE DEF N, NN
  <2>1. LineTotal(events', NN, ln) = LineTotal(events', N, ln)
    BY <1>2, Zenon
  <2>2. LineTotal(events, N, ln) = LineTotal(events', N, ln)
    BY <1>2, <1>3, TotalsAgree
  <2> QED BY <2>1, <2>2
<1> QED BY <1>4 DEF FullBy

(* To be full by the last event is to be submitted in full.                *)
LEMMA FullNow ==
  ASSUME events \in Seq(EventRow), NEW d
  PROVE  FullBy(d, Len(events)) <=> \A ln \in Lines : Submitted(d, ln) >= Want[ln]
<1>1. {m \in 1..Len(events) : events[m].d = d} = {n \in DOMAIN events : events[n].d = d}
  BY EventsAre
<1>2. \A ln : LineTotal(events, {m \in 1..Len(events) : events[m].d = d}, ln)
               = Submitted(d, ln)
  BY <1>1, Zenon DEF Submitted
<1> QED BY <1>2 DEF FullBy

(* A payload that lists a line twice has been submitted for good.          *)
LEMMA ListedKept ==
  ASSUME PastKept, NEW d, ListedTwice(d) PROVE ListedTwice(d)'
<1>1. PICK n \in DOMAIN events :
        events[n].d = d /\ \E i, j \in DOMAIN events[n].pay :
                             i < j /\ events[n].pay[i].line = events[n].pay[j].line
  BY DEF ListedTwice
<1>2. /\ n \in DOMAIN events' /\ events'[n].d = d /\ events'[n].pay = events[n].pay
  BY <1>1 DEF PastKept
<1> QED BY <1>1, <1>2 DEF ListedTwice

(* The reversals of an event after one more event.                         *)
LEMMA ReversalsGrow ==
  ASSUME events \in Seq(EventRow), NEW e, Grown(e), NEW n \in Nat
  PROVE  /\ e.target = n => ReversalsOf(n)' = ReversalsOf(n) \cup {Len(events) + 1}
         /\ e.target # n => ReversalsOf(n)' = ReversalsOf(n)
<1>1. Len(events) \in Nat /\ DOMAIN events = 1..Len(events)
  BY EventsAre
<1>2. DOMAIN events' = 1..(Len(events) + 1)
  BY LenProperties DEF Grown
<1> QED BY <1>1, <1>2 DEF ReversalsOf, Grown

(* An event by a request, a submit or the first reversal of its event.     *)
LEMMA GrownReversedOnce ==
  ASSUME Shapes, ReversedOnce, UNCHANGED clash, NEW e, Grown(e),
         \/ e.target = 0
         \/ /\ e.target \in DOMAIN events /\ events[e.target].d = e.d
            /\ e.d \notin clash => ReversalsOf(e.target) = {}
  PROVE  ReversedOnce'
<1> DEFINE k == Len(events) + 1
<1>1. Len(events) \in Nat /\ DOMAIN events = 1..Len(events) /\ events \in Seq(EventRow)
  BY EventsAre DEF Shapes
<1>2. DOMAIN events' = 1..k
  BY LenProperties DEF Grown
<1> SUFFICES ASSUME NEW n \in DOMAIN events', events'[n].d \in Docs \ clash
             PROVE  Cardinality(ReversalsOf(n)') <= 1
  BY DEF ReversedOnce, Alone
<1>3. CASE n = k
  <2>1. e.target # n /\ ReversalsOf(n) = {}
    BY <1>1, <1>3 DEF ReversalsOf, Shapes
  <2>2. ReversalsOf(n)' = {}
    BY <1>1, <1>3, <2>1, ReversalsGrow
  <2> QED BY <2>2, FS_EmptySet
<1>4. CASE n # k /\ e.target # n
  <2>1. n \in DOMAIN events /\ events[n].d \in Docs \ clash
    BY <1>1, <1>2, <1>4 DEF Grown
  <2>2. Cardinality(ReversalsOf(n)) <= 1
    BY <2>1 DEF ReversedOnce, Alone
  <2>3. ReversalsOf(n)' = ReversalsOf(n)
    BY <1>1, <1>4, <2>1, ReversalsGrow
  <2> QED BY <2>2, <2>3, Zenon
<1>5. CASE n # k /\ e.target = n
  <2>1. n \in DOMAIN events /\ events[n].d \in Docs \ clash
    BY <1>1, <1>2, <1>5 DEF Grown
  <2>2. ReversalsOf(n) = {}
    BY <1>1, <1>5, <2>1
  <2>3. ReversalsOf(n)' = {k}
    BY <1>1, <1>5, <2>1, <2>2, ReversalsGrow
  <2>4. Cardinality({k}) = 1
    BY FS_Singleton
  <2>5. Cardinality(ReversalsOf(n)') = 1
    BY <2>3, <2>4, Zenon
  <2> QED BY <2>5
<1> QED BY <1>3, <1>4, <1>5

-----------------------------------------------------------------------------
(* Another document's handoff, or one that the step leaves alone, is still *)
(* the completion after one more event.                                    *)
LEMMA CompletionKept ==
  ASSUME Shapes, HandoffIsCompletion, NEW e, Grown(e), UNCHANGED clash,
         NEW x \in Docs \ clash, Handoff!Exists(x), NEW n, n = handoff[x].ev
  PROVE  /\ n \in DOMAIN events' /\ events'[n].d = x /\ events'[n].kind = "COMMIT"
         /\ FullBy(x, n)'
         /\ Kind[x] = "ORDER" => ~FullBy(x, n - 1)'
<1>1. Len(events) \in Nat /\ DOMAIN events = 1..Len(events) /\ events \in Seq(EventRow)
  BY EventsAre DEF Shapes
<1>2. DOMAIN events' = 1..(Len(events) + 1)
  BY LenProperties DEF Grown
<1>3. /\ n \in DOMAIN events /\ events[n].d = x /\ events[n].kind = "COMMIT"
      /\ FullBy(x, n)
      /\ Kind[x] = "ORDER" => ~FullBy(x, n - 1)
  BY DEF HandoffIsCompletion, Alone
<1>4. n \in 0..Len(events) /\ n - 1 \in 0..Len(events)
  BY <1>1, <1>3
<1>5. (FullBy(x, n)' <=> FullBy(x, n)) /\ (FullBy(x, n - 1)' <=> FullBy(x, n - 1))
  BY <1>1, <1>4, FullKept
<1> QED BY <1>1, <1>2, <1>3, <1>5 DEF Grown

(* What a submit does to its document and to the others.                   *)
LEMMA CommitIs ==
  ASSUME Shapes, NEW p \in Requests, Commit(p),
         NEW d, d = req[p].d, NEW pay, pay = req[p].pay
  PROVE  /\ d \in Docs /\ pay \in Payloads /\ p \in Submits /\ req[p].op = "commit"
         /\ Grown(Event(d, pay, "COMMIT", 0))
         /\ events'[Len(events) + 1] = Event(d, pay, "COMMIT", 0)
         /\ UNCHANGED clash /\ req' = [req EXCEPT ![p] = Idle]
         /\ \A x \in Docs \ {d} : handoff'[x] = handoff[x] /\ status'[x] = status[x]
         /\ ~req[p].done => UNCHANGED <<handoff, status>>
         /\ req[p].done => Handoff!Exists(d)' /\ handoff'[d].ev = Len(events) + 1
         /\ req[p].done /\ Kind[d] = "MANUAL" => status'[d] = "COMPLETED"
<1>1. d \in Docs /\ pay \in Payloads /\ p \in Submits /\ req[p].op = "commit"
  BY RequestIs DEF Commit, RequestShape, Submits
<1>2. Grown(Event(d, pay, "COMMIT", 0))
  BY CommitGrows
<1>3. UNCHANGED clash /\ req' = [req EXCEPT ![p] = Idle]
  BY DEF Commit
<1>4. events'[Len(events) + 1] = Event(d, pay, "COMMIT", 0)
  BY <1>2 DEF Grown
<1>5. /\ ~req[p].done => UNCHANGED status
      /\ req[p].done /\ Kind[d] = "MANUAL" => status'[d] = "COMPLETED"
      /\ \A x \in Docs \ {d} : status'[x] = status[x]
  BY <1>1 DEF Commit, CompleteManualDoc, Shapes
<1>6. CASE req[p].done
  <2>1. Handoff!Upsert(d, Len(events) + 1)
    BY <1>6 DEF Commit, Handover
  <2>2. /\ Handoff!Exists(d)' /\ handoff'[d].ev = Len(events) + 1
        /\ \A x \in Docs \ {d} : handoff'[x] = handoff[x]
    BY <1>1, <2>1, UpsertHands DEF Shapes
  <2> QED BY <1>1, <1>2, <1>3, <1>4, <1>5, <1>6, <2>2
<1>7. CASE ~req[p].done
  <2>1. UNCHANGED handoff
    BY <1>7 DEF Commit, Handover
  <2> QED BY <1>1, <1>2, <1>3, <1>4, <1>5, <1>7, <2>1
<1> QED BY <1>6, <1>7

(* A submit keeps the orders within what they ask for.                     *)
LEMMA CommitNoOver ==
  ASSUME Shapes, StillFits, NoOverSubmit, NEW p \in Requests, Commit(p)
  PROVE  NoOverSubmit'
<1>1. PICK d, pay : d = req[p].d /\ pay = req[p].pay
  OBVIOUS
<1> DEFINE e == Event(d, pay, "COMMIT", 0)
           k == Len(events) + 1
<1>2. /\ d \in Docs /\ pay \in Payloads /\ p \in Submits /\ UNCHANGED clash
      /\ Grown(e) /\ events'[k] = e /\ events \in Seq(EventRow)
  BY <1>1, CommitIs DEF Shapes
<1>3. e.d = d /\ e.pay = pay /\ e.kind = "COMMIT" /\ e.target = 0
  BY DEF Event
<1> HIDE DEF e
<1>4. Len(events) \in Nat
  BY <1>2, EventsAre
<1>5. PastKept /\ k \in DOMAIN events'
  BY <1>2, <1>3, <1>4, GrownIsKept DEF Shapes
<1> SUFFICES ASSUME NEW x \in Docs \ clash, Kind[x] = "ORDER", ~ListedTwice(x)',
                    NEW ln \in Lines
             PROVE  Shipped(x, ln)' <= Want[ln]
  BY <1>2 DEF NoOverSubmit, Alone
<1>6. /\ Shipped(x, ln) <= Want[ln] /\ Want[ln] \in Nat
      /\ Shipped(x, ln) \in Nat /\ Submitted(x, ln) \in Nat
      /\ Shipped(x, ln) <= Submitted(x, ln)
  BY <1>2, <1>5, ListedKept, TotalsAre, OutboundAssumption DEF NoOverSubmit, Alone
<1>7. CASE x # d
  BY <1>2, <1>3, <1>6, <1>7, LinesGrow
<1>8. CASE x = d
  <2>1. Shipped(x, ln)' = Shipped(x, ln) + OfLine(pay, ln)
    BY <1>2, <1>3, <1>8, LinesGrow
  <2>2. CASE \A n \in DOMAIN pay : pay[n].line # ln
    BY <1>6, <2>1, <2>2, OfLineNone
  <2>3. ASSUME NEW n \in DOMAIN pay, pay[n].line = ln
        PROVE  Shipped(x, ln)' <= Want[ln]
    <3>1. DOMAIN pay \subseteq Nat
      BY <1>2, OutboundAssumption, LenProperties
    <3>2. \A i, j \in DOMAIN pay : i < j => pay[i].line # pay[j].line
      BY <1>2, <1>3, <1>5, <1>8 DEF ListedTwice
    <3>3. \A m \in DOMAIN pay : pay[m].line = pay[n].line => m = n
      BY <3>1, <3>2
    <3>4. Adding(pay) /\ pay[n].qty \in Nat
      BY <1>2, PayloadAdds DEF Adding
    <3>5. OfLine(pay, ln) = pay[n].qty
      BY <2>3, <3>3, <3>4, OfLineOnce
    <3>6. Submitted(x, ln) + pay[n].qty <= Want[ln]
      BY <1>1, <1>2, <1>8, <2>3 DEF StillFits, Fits
    <3> QED BY <1>6, <2>1, <3>4, <3>5, <3>6
  <2> QED BY <2>2, <2>3
<1> QED BY <1>7, <1>8

(* A submit hands its document over when it completes it, and only then.   *)
LEMMA CommitHanded ==
  ASSUME Shapes, DoneIsRight, HandedOverIffShipped, NEW p \in Requests, Commit(p)
  PROVE  HandedOverIffShipped'
<1>1. PICK d, pay : d = req[p].d /\ pay = req[p].pay
  OBVIOUS
<1> DEFINE e == Event(d, pay, "COMMIT", 0)
<1>2. /\ d \in Docs /\ pay \in Payloads /\ p \in Submits /\ UNCHANGED clash
      /\ Grown(e) /\ events \in Seq(EventRow) /\ req[p].op = "commit"
      /\ \A x \in Docs \ {d} : handoff'[x] = handoff[x] /\ status'[x] = status[x]
      /\ ~req[p].done => UNCHANGED <<handoff, status>>
      /\ req[p].done => Handoff!Exists(d)'
      /\ req[p].done /\ Kind[d] = "MANUAL" => status'[d] = "COMPLETED"
  BY <1>1, CommitIs DEF Shapes
<1>3. e.d = d /\ e.pay = pay /\ e.kind = "COMMIT"
  BY DEF Event
<1> HIDE DEF e
<1>4. \A ln \in Lines : OfLine(pay, ln) \in Nat /\ Want[ln] \in Nat
  BY <1>2, PayloadAdds, OfLineNat, OutboundAssumption
<1>5. \A x, ln : /\ Shipped(x, ln) \in Nat /\ Submitted(x, ln) \in Nat
                 /\ Shipped(x, ln) <= Submitted(x, ln)
  BY <1>2, TotalsAre
<1>6. \A ln : /\ Submitted(d, ln)' = Submitted(d, ln) + OfLine(pay, ln)
              /\ Shipped(d, ln)' = Shipped(d, ln) + OfLine(pay, ln)
  BY <1>2, <1>3, LinesGrow
<1>7. \A x, ln : x # d => /\ Submitted(x, ln)' = Submitted(x, ln)
                          /\ Shipped(x, ln)' = Shipped(x, ln)
  BY <1>2, <1>3, LinesGrow
<1>8. /\ req[p].done => Completes(d, pay)
      /\ d \notin clash /\ Completes(d, pay) => req[p].done
  BY <1>1, <1>2 DEF DoneIsRight, Submits
<1> SUFFICES ASSUME NEW x \in Docs
             PROVE  /\ Handoff!Exists(x)' => \A ln \in Lines : Submitted(x, ln)' >= Want[ln]
                    /\ Kind[x] = "MANUAL" => (Handoff!Exists(x)' <=> status'[x] = "COMPLETED")
                    /\ /\ x \in Docs \ clash /\ status'[x] # "VOIDED"
                       /\ \A ln \in Lines : Shipped(x, ln)' >= Want[ln]
                       => Handoff!Exists(x)'
  BY <1>2 DEF HandedOverIffShipped, Alone
<1>9. /\ Handoff!Exists(x) => \A ln \in Lines : Submitted(x, ln) >= Want[ln]
      /\ Kind[x] = "MANUAL" => (Handoff!Exists(x) <=> status[x] = "COMPLETED")
      /\ /\ x \in Docs \ clash /\ status[x] # "VOIDED"
         /\ \A ln \in Lines : Shipped(x, ln) >= Want[ln]
         => Handoff!Exists(x)
  BY DEF HandedOverIffShipped, Alone
<1>10. CASE x # d
  <2>1. Handoff!Exists(x)' <=> Handoff!Exists(x)
    BY <1>2, <1>10 DEF Handoff!Exists
  <2> QED BY <1>2, <1>7, <1>9, <1>10, <2>1
<1>11. CASE x = d /\ req[p].done
  <2>1. \A ln \in Lines : Submitted(x, ln)' >= Want[ln]
    BY <1>4, <1>5, <1>6, <1>8, <1>11 DEF Completes
  <2> QED BY <1>2, <1>11, <2>1
<1>12. CASE x = d /\ ~req[p].done
  <2>1. Handoff!Exists(x)' <=> Handoff!Exists(x)
    BY <1>2, <1>12 DEF Handoff!Exists
  <2>2. Handoff!Exists(x)' => \A ln \in Lines : Submitted(x, ln)' >= Want[ln]
    BY <1>4, <1>5, <1>6, <1>9, <1>12, <2>1
  <2>3. x \notin clash => ~ \A ln \in Lines : Shipped(x, ln)' >= Want[ln]
    BY <1>4, <1>5, <1>6, <1>8, <1>12 DEF Completes
  <2> QED BY <1>2, <1>9, <1>12, <2>1, <2>2, <2>3
<1> QED BY <1>10, <1>11, <1>12

(* The event a submit hands over is the one that completes the document.   *)
LEMMA CommitCompletion ==
  ASSUME Shapes, StillFits, DoneIsRight, HandoffIsCompletion, NEW p \in Requests, Commit(p)
  PROVE  HandoffIsCompletion'
<1>1. PICK d, pay : d = req[p].d /\ pay = req[p].pay
  OBVIOUS
<1> DEFINE e == Event(d, pay, "COMMIT", 0)
           k == Len(events) + 1
<1>2. /\ d \in Docs /\ pay \in Payloads /\ p \in Submits /\ UNCHANGED clash
      /\ Grown(e) /\ events'[k] = e /\ events \in Seq(EventRow)
      /\ \A x \in Docs \ {d} : handoff'[x] = handoff[x]
      /\ ~req[p].done => UNCHANGED handoff
      /\ req[p].done => handoff'[d].ev = k
  BY <1>1, CommitIs DEF Shapes
<1>3. e.d = d /\ e.pay = pay /\ e.kind = "COMMIT"
  BY DEF Event
<1> HIDE DEF e
<1>4. /\ Len(events) \in Nat /\ DOMAIN events' = 1..k
      /\ events' \in Seq(EventRow) /\ Len(events') = k
  BY <1>2, EventsAre, LenProperties DEF Grown
<1> SUFFICES ASSUME NEW x \in Docs \ clash, Handoff!Exists(x)',
                    NEW n, n = handoff'[x].ev
             PROVE  /\ n \in DOMAIN events' /\ events'[n].d = x
                    /\ events'[n].kind = "COMMIT" /\ FullBy(x, n)'
                    /\ Kind[x] = "ORDER" => ~FullBy(x, n - 1)'
  BY <1>2 DEF HandoffIsCompletion, Alone
<1>5. CASE x # d \/ ~req[p].done
  <2>1. Handoff!Exists(x) /\ n = handoff[x].ev
    BY <1>2, <1>5 DEF Handoff!Exists
  <2> QED BY <1>2, <2>1, CompletionKept
<1>6. CASE x = d /\ req[p].done
  <2>1. n = k /\ n \in DOMAIN events' /\ events'[n].d = x /\ events'[n].kind = "COMMIT"
    BY <1>2, <1>3, <1>4, <1>6
  <2>2. \A ln \in Lines : Submitted(d, ln)' >= Want[ln]
    <3>1. \A ln : Submitted(d, ln)' = Submitted(d, ln) + OfLine(pay, ln)
      BY <1>2, <1>3, LinesGrow
    <3>2. Completes(d, pay)
      BY <1>1, <1>2, <1>6 DEF DoneIsRight
    <3> QED BY <3>1, <3>2 DEF Completes
  <2>3. FullBy(d, Len(events))' <=> \A ln \in Lines : Submitted(d, ln)' >= Want[ln]
    <3>1. {m \in 1..k : events'[m].d = d} = {m \in DOMAIN events' : events'[m].d = d}
      BY <1>4
    <3>2. \A ln : LineTotal(events', {m \in 1..k : events'[m].d = d}, ln)
                   = Submitted(d, ln)'
      BY <3>1, Zenon DEF Submitted
    <3>3. \A ln : LineTotal(events', {m \in 1..Len(events') : events'[m].d = d}, ln)
                   = Submitted(d, ln)'
      BY <1>4, <3>2
    <3> QED BY <3>3 DEF FullBy
  <2>4. FullBy(x, n)'
    BY <1>4, <1>6, <2>1, <2>2, <2>3 DEF FullBy
  <2>5. ASSUME Kind[x] = "ORDER" PROVE ~FullBy(x, n - 1)'
    <3>1. PICK m \in DOMAIN pay : TRUE
      BY <1>2, PayloadAdds
    <3>2. pay[m].line \in Lines /\ Submitted(d, pay[m].line) < Want[pay[m].line]
      BY <1>1, <1>2, <1>6, <2>5, <3>1, PayloadAdds DEF StillFits, Fits, Part
    <3>3. Submitted(d, pay[m].line) \in Nat /\ Want[pay[m].line] \in Nat
      BY <1>2, <3>2, TotalsAre, OutboundAssumption
    <3>4. ~FullBy(d, Len(events))
      BY <1>2, <3>2, <3>3, FullNow
    <3>5. n - 1 = Len(events) /\ n - 1 \in 0..Len(events)
      BY <1>4, <2>1
    <3>6. FullBy(x, n - 1)' <=> FullBy(x, n - 1)
      BY <1>2, <3>5, FullKept
    <3> QED BY <1>6, <3>4, <3>5, <3>6
  <2> QED BY <2>1, <2>4, <2>5
<1> QED BY <1>5, <1>6

(* A submit keeps the history.                                             *)
LEMMA CommitHistory ==
  ASSUME Shapes, Reads, History, NEW p \in Requests, Commit(p)
  PROVE  Reads' /\ History'
<1> DEFINE e == Event(req[p].d, req[p].pay, "COMMIT", 0)
<1>1. /\ Grown(e) /\ e.d = req[p].d /\ e.target = 0 /\ UNCHANGED clash
      /\ req[p].op # "idle" /\ req' = [req EXCEPT ![p] = Idle]
  BY CommitGrows DEF Commit, Event
<1> HIDE DEF e
<1>2. Reads'
  BY <1>1, GrownReads
<1>3. ReversedOnce'
  BY <1>1, GrownReversedOnce DEF History
<1>4. NoOverSubmit' /\ HandedOverIffShipped' /\ HandoffIsCompletion'
  BY CommitNoOver, CommitHanded, CommitCompletion DEF Reads, History
<1> QED BY <1>2, <1>3, <1>4 DEF History

(* A reversal keeps the history: it adds to what was submitted, and takes  *)
(* nothing from what was shipped or handed over.                           *)
LEMMA ReversalHistory ==
  ASSUME Shapes, Reads, History, NEW p \in Requests, ReverseCommit(p)
  PROVE  Reads' /\ History'
<1> DEFINE e == Event(req[p].d, req[p].pay, "REVERSAL", req[p].target)
           n == req[p].target
<1>1. /\ Grown(e) /\ e.d = req[p].d /\ e.target = n /\ e.kind = "REVERSAL"
      /\ e.pay = req[p].pay /\ UNCHANGED <<clash, handoff, status>>
      /\ req[p].op = "reverse" /\ req' = [req EXCEPT ![p] = Idle]
  BY ReversalGrows DEF ReverseCommit, Event
<1>2. /\ events \in Seq(EventRow) /\ n \in DOMAIN events /\ events[n].d = e.d
      /\ e.pay \in Payloads
  BY <1>1, RequestIs DEF RequestShape, Shapes
<1> HIDE DEF e
<1>3. Reads'
  BY <1>1, GrownReads
<1>4. e.d \notin clash => ReversalsOf(n) = {}
  BY <1>1 DEF Reads, StillReversible
<1>5. ReversedOnce'
  BY <1>1, <1>2, <1>4, GrownReversedOnce DEF History
<1>6. PastKept
  <2>1. n \in 0..Len(events)
    BY <1>2, EventsAre
  <2> QED BY <1>1, <1>2, <2>1, GrownIsKept DEF Shapes
<1>7. \A x, ln : Shipped(x, ln)' = Shipped(x, ln)
  BY <1>1, <1>2, LinesGrow
<1>8. \A x, ln : Submitted(x, ln)' >= Submitted(x, ln) /\ Submitted(x, ln) \in Nat
                 /\ Submitted(x, ln)' \in Nat
  <2> SUFFICES ASSUME NEW x, NEW ln
               PROVE  /\ Submitted(x, ln)' >= Submitted(x, ln) /\ Submitted(x, ln) \in Nat
                      /\ Submitted(x, ln)' \in Nat
    OBVIOUS
  <2>1. Submitted(x, ln) \in Nat /\ OfLine(e.pay, ln) \in Nat
    BY <1>2, TotalsAre, PayloadAdds, OfLineNat
  <2>2. \/ Submitted(x, ln)' = Submitted(x, ln) + OfLine(e.pay, ln)
        \/ Submitted(x, ln)' = Submitted(x, ln)
    BY <1>1, <1>2, LinesGrow
  <2> QED BY <2>1, <2>2
<1>9. NoOverSubmit'
  BY <1>1, <1>6, <1>7, ListedKept DEF History, NoOverSubmit, Alone
<1>10. HandedOverIffShipped'
  <2>1. \A ln \in Lines : Want[ln] \in Nat
    BY OutboundAssumption
  <2>2. \A x \in Docs : Handoff!Exists(x)' <=> Handoff!Exists(x)
    BY <1>1 DEF Handoff!Exists
  <2>3. \A x \in Docs : Handoff!Exists(x) => \A ln \in Lines : Submitted(x, ln)' >= Want[ln]
    BY <1>8, <2>1 DEF History, HandedOverIffShipped
  <2> QED BY <1>1, <1>7, <2>2, <2>3 DEF History, HandedOverIffShipped, Alone
<1>11. HandoffIsCompletion'
  <2> SUFFICES ASSUME NEW x \in Docs \ clash, Handoff!Exists(x)',
                      NEW m, m = handoff'[x].ev
               PROVE  /\ m \in DOMAIN events' /\ events'[m].d = x
                      /\ events'[m].kind = "COMMIT" /\ FullBy(x, m)'
                      /\ Kind[x] = "ORDER" => ~FullBy(x, m - 1)'
    BY <1>1 DEF HandoffIsCompletion, Alone
  <2>1. Handoff!Exists(x) /\ m = handoff[x].ev
    BY <1>1 DEF Handoff!Exists
  <2> QED BY <1>1, <2>1, CompletionKept DEF History
<1> QED BY <1>3, <1>5, <1>9, <1>10, <1>11 DEF History

(* Each step keeps what the requests have read and the history.            *)
LEMMA StepHistory ==
  ASSUME Shapes, Reads, History, [Next]_vars
  PROVE  Reads' /\ History'
<1>1. ASSUME NEW d \in Docs, NEW from \in SUBSET {"NONE", "DRAFT", "RELEASED"},
             NEW to \in {"DRAFT", "RELEASED", "VOIDED"}, SetStatus(d, from, to)
      PROVE  Reads' /\ History'
  <2>1. Reads'
    BY <1>1, StayReads DEF SetStatus
  <2>2. HandSame
    BY <1>1 DEF SetStatus, HandSame, Handoff!Exists
  <2>3. \A x \in Docs : /\ status'[x] = "COMPLETED" <=> status[x] = "COMPLETED"
                        /\ status[x] = "VOIDED" => status'[x] = "VOIDED"
    BY <1>1 DEF SetStatus, Shapes
  <2> QED BY <1>1, <2>1, <2>2, <2>3, QuietHistory DEF SetStatus
<1>2. ASSUME NEW d \in Docs, Callback(d) PROVE Reads' /\ History'
  <2>1. Reads'
    BY <1>2, StayReads DEF Callback
  <2>2. HandSame
    BY <1>2, CallbackSame DEF Callback, Shapes
  <2> QED BY <1>2, <2>1, <2>2, QuietHistory DEF Callback
<1>3. ASSUME Quiet, clash \subseteq clash' PROVE History'
  <2>1. HandSame
    BY <1>3 DEF Quiet, HandSame, Handoff!Exists
  <2> QED BY <1>3, <2>1, QuietHistory DEF Quiet
<1>4. ASSUME NEW p \in Requests, NEW d \in Docs, NEW pay \in Payloads,
             OrderCheck(p, d, pay)
      PROVE  Reads' /\ History'
  <2> DEFINE r == [op |-> "write", d |-> d, pay |-> pay, target |-> 0,
                   done |-> Completes(d, pay)]
  <2>1. r \in RequestRow
    BY DEF RequestRow, Ops, Completes
  <2>2. r.op = "write" /\ r.d = d /\ r.pay = pay /\ r.done = Completes(d, pay)
    OBVIOUS
  <2>3. /\ Quiet /\ Start(p, d) /\ req' = [req EXCEPT ![p] = r]
        /\ \A n \in DOMAIN pay : Fits(d, pay[n])
    BY <1>4 DEF OrderCheck
  <2> HIDE DEF r
  <2>4. Reads'
    BY <2>1, <2>2, <2>3, EnterReads DEF Quiet
  <2> QED BY <1>3, <2>3, <2>4 DEF Start
<1>5. ASSUME NEW p \in Requests, NEW d \in Docs, NEW pay \in Payloads,
             ManualCheck(p, d, pay)
      PROVE  Reads' /\ History'
  <2> DEFINE r == [op |-> "write", d |-> d, pay |-> pay, target |-> 0, done |-> FALSE]
  <2>1. r \in RequestRow
    BY DEF RequestRow, Ops
  <2>2. r.op = "write" /\ r.d = d /\ r.pay = pay /\ r.done = FALSE
    OBVIOUS
  <2>3. /\ Quiet /\ Start(p, d) /\ req' = [req EXCEPT ![p] = r]
        /\ Kind[d] # "ORDER"
    BY <1>5 DEF ManualCheck
  <2> HIDE DEF r
  <2>4. Reads'
    BY <2>1, <2>2, <2>3, EnterReads DEF Quiet
  <2> QED BY <1>3, <2>3, <2>4 DEF Start
<1>6. ASSUME NEW p \in Requests, NEW n \in DOMAIN events, ReverseCheck(p, n)
      PROVE  Reads' /\ History'
  <2> DEFINE r == [op |-> "reverse", d |-> events[n].d, pay |-> events[n].pay,
                   target |-> n, done |-> FALSE]
  <2>1. events[n] \in EventRow /\ n \in Nat
    BY EventsAre DEF Shapes
  <2>2. r \in RequestRow /\ events[n].d \in Docs
    BY <2>1 DEF RequestRow, Ops, EventRow
  <2>3. r.op = "reverse" /\ r.d = events[n].d /\ r.target = n
    OBVIOUS
  <2>4. /\ Quiet /\ Start(p, events[n].d) /\ req' = [req EXCEPT ![p] = r]
        /\ ReversalsOf(n) = {}
    BY <1>6 DEF ReverseCheck, Reversible
  <2> HIDE DEF r
  <2>5. PICK d \in Docs : d = events[n].d
    BY <2>2
  <2>6. Reads'
    BY <2>2, <2>3, <2>4, <2>5, EnterReads DEF Quiet
  <2> QED BY <1>3, <2>4, <2>6 DEF Start
<1>7. ASSUME NEW p \in Requests, Write(p) PROVE Reads' /\ History'
  BY <1>3, <1>7, WriteReads DEF Write
<1>8. ASSUME NEW p \in Requests, Fail(p) PROVE Reads' /\ History'
  <2>1. Reads'
    BY <1>8, StayReads DEF Fail, Quiet, Shapes
  <2> QED BY <1>3, <1>8, <2>1 DEF Fail
<1>9. CASE UNCHANGED vars
  <2>1. Reads'
    BY <1>9, StayReads DEF vars
  <2> QED BY <1>3, <1>9, <2>1 DEF vars, Quiet
<1> QED
  BY <1>1, <1>2, <1>4, <1>5, <1>6, <1>7, <1>8, <1>9, CommitHistory, ReversalHistory
     DEF Next, CreateManualDoc, ReleaseManualDoc, VoidManualDoc

(* At the start nothing has been read, shipped or handed over.             *)
LEMMA InitHistory == Init => Reads /\ History
<1> SUFFICES ASSUME Init PROVE Reads /\ History
  OBVIOUS
<1>1. DOMAIN events = {}
  BY InitShapes, EventsAre, EmptySeq DEF Init, Shapes
<1>2. \A p \in Requests : req[p].op = "idle"
  BY DEF Init, Idle
<1>3. Reads
  BY <1>2 DEF Reads, OneAtATime, StillReversible, StillFits, DoneIsRight, Submits
<1>4. \A d, ln : Shipped(d, ln) = 0
  <2>1. \A d : {n \in OfKind("COMMIT") : events[n].d = d} = {}
    BY <1>1 DEF OfKind
  <2>2. \A ln : LineTotal(events, {}, ln) = 0
    BY SumEmpty DEF LineTotal
  <2> QED BY <2>1, <2>2 DEF Shipped
<1>5. \A d \in Docs : ~Handoff!Exists(d)
  BY DEF Init, Handoff!Init, Handoff!Exists
<1>6. \A d \in Docs : status[d] # "COMPLETED"
  BY DEF Init
<1>7. \A ln \in Lines : Want[ln] \in Nat \ {0}
  BY OutboundAssumption
<1>8. PICK ln \in Lines : TRUE
  BY OutboundAssumption
<1>9. HandedOverIffShipped
  BY <1>4, <1>5, <1>6, <1>7, <1>8 DEF HandedOverIffShipped
<1>10. ReversedOnce
  BY <1>1 DEF ReversedOnce
<1>11. NoOverSubmit
  BY <1>4, <1>7 DEF NoOverSubmit
<1>12. HandoffIsCompletion
  BY <1>5 DEF HandoffIsCompletion, Alone
<1> QED BY <1>3, <1>9, <1>10, <1>11, <1>12 DEF History

(* The shapes, the reads and the history hold together.                    *)
LEMMA HistoryHolds == Spec => [](Shapes /\ Reads /\ History)
<1>1. Init => Shapes /\ Reads /\ History
  BY InitShapes, InitHistory
<1>2. Shapes /\ Reads /\ History /\ [Next]_vars => (Shapes /\ Reads /\ History)'
  BY StepShapes, StepHistory
<1> QED BY <1>1, <1>2, PTL DEF Spec

(* An order is never shipped more than it asks for: the progress a submit  *)
(* checked its lines against is still the progress when it commits.        *)
THEOREM NeverOverSubmitted == Spec => []NoOverSubmit
<1>1. Shapes /\ Reads /\ History => NoOverSubmit
  BY DEF History
<1> QED BY <1>1, HistoryHolds, PTL

(* A document is handed to Logistics when, and only when, it is shipped in *)
(* full, although the decision is taken before the event is written.       *)
THEOREM HandedOverWhenShipped == Spec => []HandedOverIffShipped
<1>1. Shapes /\ Reads /\ History => HandedOverIffShipped
  BY DEF History
<1> QED BY <1>1, HistoryHolds, PTL

(* The event Logistics is told of completed the document.                  *)
THEOREM HandoffCompletes == Spec => []HandoffIsCompletion
<1>1. Shapes /\ Reads /\ History => HandoffIsCompletion
  BY DEF History
<1> QED BY <1>1, HistoryHolds, PTL

(* An event is reversed once at most.                                      *)
THEOREM EventsReversedOnce == Spec => []ReversedOnce
<1>1. Shapes /\ Reads /\ History => ReversedOnce
  BY DEF History
<1> QED BY <1>1, HistoryHolds, PTL
=============================================================================
