------------------------------ MODULE LotsProofs -----------------------------
(***************************************************************************)
(* The lots of inbound lines, for any policies and changes of policy, any  *)
(* lines, any lots from before and any number of requests in flight.       *)
(***************************************************************************)
EXTENDS Lots, SequenceTheorems, TLAPS

PolicyRow == [source : {"SUPPLIER_ONLY", "INTERNAL_ONLY", "NONE"},
              expiry : {"REQUIRED", "NONE"}, life : Nat, derive : BOOLEAN]

LotRow == [source : {"SUPPLIER", "INTERNAL", "NONE"}, code : Nat, pd : Nat, ed : Nat,
           snap : PolicyRow]

Pcs == {"idle", "normalise", "resolve", "find", "load", "insert", "again", "check", "got"}

RequestRow == [pc : Pcs, code : Nat, pd : Nat, ed : Nat, pol : PolicyRow, now : PolicyRow,
               own : LotRow, lot : Nat, patch : Nat, steady : BOOLEAN]

(* A committed lot is as the constraints of the table want it.             *)
LotShape(row) ==
  /\ row \in LotRow /\ row.source \in {"SUPPLIER", "INTERNAL"}
  /\ Checked(row)
  /\ row.source = "INTERNAL" => row.code = None

(* A SUPPLIER lot, of the production date if the line has one and expires. *)
Fits(r) ==
  ~Internal(r) =>
    /\ lots[r.lot].source = "SUPPLIER"
    /\ r.now.expiry = "REQUIRED" /\ r.pd # None => lots[r.lot].pd = r.pd

(* What a request has found or inserted, for the line as it resolved it.   *)
Shape(r) ==
  /\ r \in RequestRow
  /\ r.lot \in 0..Len(lots)
  /\ r.steady => r.now = r.pol
  /\ r.pc \notin {"idle", "normalise", "resolve"} =>
       IF Internal(r) THEN r.code = None /\ r.pd = None
       ELSE r.pol.expiry = "REQUIRED" => r.pd # None
  /\ r.pc \notin {"check", "got"} => r.lot = 0 /\ r.own = NoRow
  /\ r.pc \in {"check", "got"} =>
       IF r.lot = 0 THEN r.own = NewRow(r) /\ Checked(r.own)
       ELSE r.own = NoRow /\ Fits(r)
  /\ r.pc = "got" /\ ~Internal(r) => Row(r).snap = r.pol
  /\ r.pc = "again" => Found(r) # {}

(* Nobody has the key of an uncommitted row.                               *)
Reserved(own, p) ==
  /\ \A n \in DOMAIN lots : ~SameKey(lots[n], own)
  /\ \A q \in Requests \ {p} : ~SameKey(req[q].own, own)

Tables ==
  /\ policy \in Policies /\ changes \in 0..MaxChanges
  /\ lots \in Seq(LotRow) /\ \A n \in DOMAIN lots : LotShape(lots[n])
  /\ req \in [Requests -> RequestRow]

KeysUnique ==
  /\ \A m, n \in DOMAIN lots : SameKey(lots[m], lots[n]) => m = n
  /\ \A p \in Requests : req[p].own # NoRow => Reserved(req[p].own, p)

LotsInv == Tables /\ (\A p \in Requests : Shape(req[p])) /\ KeysUnique

-----------------------------------------------------------------------------
(* The policies are read from PMS.                                         *)
LEMMA PolicyIs == ASSUME policy \in Policies PROVE policy \in PolicyRow /\ policy \in Policy
BY LotsAssumption DEF Policy, PolicyRow

(* The empty rows.                                                         *)
LEMMA NoRowIs ==
  /\ None = 0 /\ NoRow \in LotRow /\ NoRow.source = "NONE" /\ NoRow.snap \in PolicyRow
BY DEF None, NoRow, LotRow, PolicyRow

(* The row of no request.                                                  *)
LEMMA IdleIs ==
  /\ Idle \in RequestRow /\ Idle.pc = "idle" /\ Idle.pol = NoRow.snap
  /\ Idle.now = NoRow.snap /\ Idle.own = NoRow /\ Idle.lot = 0
  /\ Idle.code = None /\ Idle.pd = None /\ Idle.ed = None /\ Idle.patch = None
  /\ Idle.steady = TRUE
<1>1. NoRow \in LotRow /\ NoRow.snap \in PolicyRow /\ None \in Nat
  BY NoRowIs
<1> QED BY <1>1 DEF Idle, RequestRow, Pcs

(* What the invariant says of a request in flight.                         *)
LEMMA RequestIs ==
  ASSUME LotsInv, NEW p \in Requests
  PROVE  Shape(req[p]) /\ req[p] \in RequestRow
BY DEF LotsInv, Shape

(* What a row is that a request would insert.                              *)
LEMMA NewRowIs ==
  ASSUME NEW r \in RequestRow
  PROVE  /\ NewRow(r) \in LotRow /\ NewRow(r) # NoRow
         /\ NewRow(r).source = (IF Internal(r) THEN "INTERNAL" ELSE "SUPPLIER")
         /\ NewRow(r).code = r.code /\ NewRow(r).pd = r.pd /\ NewRow(r).ed = r.ed
         /\ NewRow(r).snap = r.now
<1>1. /\ NewRow(r) \in LotRow
      /\ NewRow(r).source = (IF Internal(r) THEN "INTERNAL" ELSE "SUPPLIER")
      /\ NewRow(r).code = r.code /\ NewRow(r).pd = r.pd /\ NewRow(r).ed = r.ed
      /\ NewRow(r).snap = r.now
  BY DEF NewRow, LotRow, RequestRow
<1>2. NewRow(r).source # NoRow.source
  BY <1>1, NoRowIs
<1> QED BY <1>1, <1>2

(* The policy is read once more.                                           *)
LEMMA ReadIs ==
  ASSUME NEW r \in RequestRow, policy \in Policies, NEW s, s = Read(r)
  PROVE  /\ s \in RequestRow /\ s.now = policy /\ (s.steady => s.now = s.pol)
         /\ s.pc = r.pc /\ s.code = r.code /\ s.pd = r.pd /\ s.ed = r.ed /\ s.pol = r.pol
         /\ s.own = r.own /\ s.lot = r.lot /\ s.patch = r.patch
<1>1. policy \in PolicyRow
  BY PolicyIs
<1>2. /\ s.now = policy /\ s.steady = (r.steady /\ policy = r.pol)
      /\ s.pc = r.pc /\ s.code = r.code /\ s.pd = r.pd /\ s.ed = r.ed /\ s.pol = r.pol
      /\ s.own = r.own /\ s.lot = r.lot /\ s.patch = r.patch
  BY DEF Read, RequestRow
<1>3. s \in RequestRow
  BY <1>1 DEF Read, RequestRow
<1> QED BY <1>2, <1>3

(* Dates are derived for the date that is missing.                         *)
LEMMA DatedIs ==
  ASSUME NEW r \in RequestRow, NEW life \in Nat, NEW d, d = Dated(r, life)
  PROVE  /\ d \in RequestRow /\ (r.pd # None => d.pd = r.pd)
         /\ d.pc = r.pc /\ d.code = r.code /\ d.pol = r.pol /\ d.now = r.now
         /\ d.own = r.own /\ d.lot = r.lot /\ d.patch = r.patch /\ d.steady = r.steady
<1>1. r.pd \in Nat /\ r.ed \in Nat
  BY DEF RequestRow
<1>2. Forward(r.pd, life) \in Nat /\ Backward(r.ed, life) \in Nat
  BY <1>1 DEF Forward, Backward, None
<1> DEFINE e == [r EXCEPT !.ed = Forward(r.pd, life)]
           b == [r EXCEPT !.pd = Backward(r.ed, life)]
<1>3. /\ e \in RequestRow /\ e.pd = r.pd
      /\ e.pc = r.pc /\ e.code = r.code /\ e.pol = r.pol /\ e.now = r.now
      /\ e.own = r.own /\ e.lot = r.lot /\ e.patch = r.patch /\ e.steady = r.steady
  BY <1>2 DEF RequestRow
<1>4. /\ b \in RequestRow
      /\ b.pc = r.pc /\ b.code = r.code /\ b.pol = r.pol /\ b.now = r.now
      /\ b.own = r.own /\ b.lot = r.lot /\ b.patch = r.patch /\ b.steady = r.steady
  BY <1>2 DEF RequestRow
<1>5. d = (IF r.ed = None /\ r.pd # None THEN e
           ELSE IF r.pd = None /\ r.ed # None THEN b ELSE r)
  BY DEF Dated
<1> HIDE DEF e, b
<1>6. CASE r.ed = None /\ r.pd # None
  BY <1>3, <1>5, <1>6
<1>7. CASE ~(r.ed = None /\ r.pd # None) /\ r.pd = None /\ r.ed # None
  BY <1>4, <1>5, <1>7
<1>8. CASE ~(r.ed = None /\ r.pd # None) /\ ~(r.pd = None /\ r.ed # None)
  BY <1>5, <1>8
<1> QED BY <1>6, <1>7, <1>8

-----------------------------------------------------------------------------
(* Keys are compared either way.                                           *)
LEMMA SameKeySymmetric == \A a, b : SameKey(a, b) => SameKey(b, a)
BY DEF SameKey

(* A request's row changes; the row it inserted, if it is new, has a key   *)
(* that nobody has.                                                        *)
LEMMA Becomes ==
  ASSUME LotsInv, NEW p \in Requests, NEW row, Shape(row), Become(p, row),
         row.own \in {NoRow, req[p].own} \/ Reserved(row.own, p)
  PROVE  LotsInv'
<1>1. row \in RequestRow /\ row.own \in LotRow
  BY DEF Shape, RequestRow
<1>2. UNCHANGED <<policy, changes, lots>> /\ req' = [req EXCEPT ![p] = row]
  BY DEF Become
<1>3. /\ req' \in [Requests -> RequestRow] /\ req'[p] = row
      /\ \A q \in Requests \ {p} : req'[q] = req[q]
  BY <1>1, <1>2 DEF LotsInv, Tables
<1>4. Tables'
  BY <1>2, <1>3 DEF LotsInv, Tables, LotShape, Checked
<1>5. ASSUME NEW r, Shape(r) PROVE Shape(r)'
  BY <1>2, <1>5 DEF Shape, Fits, Row, Found, FoundInternal, FoundByCode, FoundByDate,
                    Dateless, Internal, NewRow, Checked
<1>6. ASSUME NEW q \in Requests PROVE Shape(req[q])'
  <2>1. PICK r : r = req'[q]
    OBVIOUS
  <2>2. Shape(r)
    BY <1>3, <2>1 DEF LotsInv
  <2>3. Shape(r)'
    BY <1>5, <2>2
  <2> QED BY <2>1, <2>3 DEF Shape, Fits, Row, Found, FoundInternal, FoundByCode, FoundByDate,
                            Dateless, Internal, NewRow, Checked
<1>7. KeysUnique'
  <2>1. \A m, n \in DOMAIN lots' : SameKey(lots'[m], lots'[n]) => m = n
    BY <1>2 DEF LotsInv, KeysUnique
  <2>2. ASSUME NEW q \in Requests, req'[q].own # NoRow PROVE Reserved(req[q].own, q)'
    <3>1. CASE q = p
      <4>1. Reserved(row.own, p)
        BY <1>3, <2>2, <3>1 DEF LotsInv, KeysUnique
      <4>2. /\ \A n \in DOMAIN lots' : ~SameKey(lots'[n], row.own)
            /\ \A x \in Requests \ {p} : ~SameKey(req'[x].own, row.own)
        BY <1>2, <1>3, <4>1 DEF Reserved
      <4> QED BY <1>3, <3>1, <4>2 DEF Reserved
    <3>2. CASE q # p
      <4>1. req'[q].own = req[q].own /\ Reserved(req[q].own, q)
        BY <1>3, <2>2, <3>2 DEF LotsInv, KeysUnique
      <4>2. ~SameKey(row.own, req[q].own)
        <5>1. CASE row.own = NoRow
          <6>1. req[q].own.source # "NONE"
            <7>1. Shape(req[q]) /\ req[q] \in RequestRow /\ req[q].own # NoRow
              BY <2>2, <4>1, RequestIs
            <7>2. req[q].own = NewRow(req[q])
              BY <7>1 DEF Shape
            <7> QED BY <7>1, <7>2, NewRowIs
          <6> QED BY <5>1, <6>1, NoRowIs DEF SameKey
        <5>2. CASE row.own = req[p].own
          BY <3>2, <4>1, <5>2 DEF Reserved
        <5>3. CASE Reserved(row.own, p)
          <6>1. ~SameKey(req[q].own, row.own)
            BY <3>2, <5>3 DEF Reserved
          <6> QED BY <6>1, SameKeySymmetric
        <5> QED BY <5>1, <5>2, <5>3
      <4>3. /\ \A n \in DOMAIN lots' : ~SameKey(lots'[n], req[q].own)
            /\ \A x \in Requests \ {q} : ~SameKey(req'[x].own, req[q].own)
        BY <1>2, <1>3, <4>1, <4>2 DEF Reserved
      <4> QED BY <4>1, <4>3 DEF Reserved
    <3> QED BY <3>1, <3>2
  <2> QED BY <2>1, <2>2 DEF KeysUnique
<1> QED BY <1>4, <1>6, <1>7 DEF LotsInv

(* A request ends or is rolled back, or goes on.                           *)
LEMMA BecomesIdle ==
  ASSUME LotsInv, NEW p \in Requests, Become(p, Idle)
  PROVE  LotsInv'
<1>1. Len(lots) \in Nat
  BY DEF LotsInv, Tables
<1>2. Shape(Idle)
  BY <1>1, IdleIs DEF Shape
<1>3. Idle.own \in {NoRow, req[p].own}
  BY IdleIs
<1> QED BY <1>2, <1>3, Becomes

(* A request goes on or is refused.                                        *)
LEMMA GoesOn ==
  ASSUME LotsInv, NEW p \in Requests, NEW ok, NEW row, GoOn(p, ok, row),
         ok => /\ Shape(row)
               /\ row.own \in {NoRow, req[p].own} \/ Reserved(row.own, p)
  PROVE  LotsInv'
<1>1. CASE ok
  <2>1. Become(p, row)
    BY <1>1 DEF GoOn
  <2> QED BY <1>1, <2>1, Becomes
<1>2. CASE ~ok
  <2>1. Become(p, Idle)
    BY <1>2 DEF GoOn
  <2> QED BY <2>1, BecomesIdle
<1> QED BY <1>1, <1>2

(* A request that has no lot yet and waits for nobody.                     *)
LEMMA ShapeBefore ==
  ASSUME NEW r \in RequestRow, Len(lots) \in Nat,
         r.pc \in {"normalise", "resolve", "find", "load", "insert"},
         r.lot = 0, r.own = NoRow, r.steady => r.now = r.pol,
         r.pc \in {"find", "load", "insert"} =>
           IF Internal(r) THEN r.code = None /\ r.pd = None
           ELSE r.pol.expiry = "REQUIRED" => r.pd # None
  PROVE  Shape(r)
BY DEF Shape

(* What the invariant says of the committed lots.                          *)
LEMMA LotsAre ==
  ASSUME LotsInv
  PROVE  /\ Len(lots) \in Nat /\ DOMAIN lots = 1..Len(lots) /\ policy \in Policies
         /\ lots \in Seq(LotRow)
         /\ \A n \in DOMAIN lots : LotShape(lots[n]) /\ lots[n] \in LotRow
BY DEF LotsInv, Tables, LotShape

(* The actions one by one. A request starts with the policy it read.       *)
LEMMA DecideKeeps ==
  ASSUME LotsInv, NEW p \in Requests, NEW via \in {"commit", "operation"},
         NEW in \in Inputs, Decide(p, via, in)
  PROVE  LotsInv'
<1> DEFINE dated == via = "operation" \/ policy.expiry = "REQUIRED"
           r == [Idle EXCEPT !.code = in.code, !.pol = policy, !.now = policy,
                             !.pd = IF dated THEN in.pd ELSE None,
                             !.ed = IF dated THEN in.ed ELSE None]
           row == [r EXCEPT !.pc = IF via = "commit" /\ policy.expiry = "REQUIRED"
                                   THEN "normalise" ELSE "resolve"]
<1>1. Become(p, row)
  BY DEF Decide
<1>2. /\ in.code \in Nat /\ in.pd \in Nat /\ in.ed \in Nat /\ None \in Nat
      /\ policy \in PolicyRow /\ Len(lots) \in Nat
  BY LotsAssumption, LotsAre, PolicyIs, NoRowIs
<1>3. /\ r \in RequestRow /\ r.own = NoRow /\ r.lot = 0 /\ r.now = policy /\ r.pol = policy
  BY <1>2, IdleIs DEF RequestRow
<1> HIDE DEF r
<1>4. /\ row \in RequestRow /\ row.pc \in {"normalise", "resolve"} /\ row.own = NoRow
      /\ row.lot = 0 /\ row.now = row.pol
  BY <1>3 DEF RequestRow, Pcs
<1> HIDE DEF row
<1>5. Shape(row)
  BY <1>2, <1>4, ShapeBefore
<1> QED BY <1>1, <1>4, <1>5, Becomes

(* The dates are normalised by the policy read anew.                       *)
LEMMA NormaliseKeeps ==
  ASSUME LotsInv, NEW p \in Requests, Normalise(p)
  PROVE  LotsInv'
<1>1. PICK r : r = Read(req[p])
  OBVIOUS
<1> DEFINE e == [r EXCEPT !.pd = None, !.ed = None]
           life == IF policy.derive THEN policy.life ELSE None
           d == Dated(r, life)
           n == IF policy.expiry = "NONE" THEN e ELSE d
           row == [n EXCEPT !.pc = "resolve"]
           ok == n.pd # None /\ n.ed # None /\ InOrder(n)
<1>2. GoOn(p, ok, row) /\ req[p].pc = "normalise"
  BY <1>1 DEF Normalise
<1>3. /\ req[p] \in RequestRow /\ Shape(req[p]) /\ policy \in Policies /\ Len(lots) \in Nat
      /\ policy.life \in Nat
  BY RequestIs, LotsAre, PolicyIs DEF PolicyRow
<1>4. req[p].own = NoRow /\ req[p].lot = 0
  BY <1>2, <1>3 DEF Shape
<1>5. /\ r \in RequestRow /\ (r.steady => r.now = r.pol) /\ r.own = NoRow /\ r.lot = 0
  BY <1>1, <1>3, <1>4, ReadIs
<1>6. life \in Nat
  BY <1>3, NoRowIs
<1> HIDE DEF life
<1>7. /\ d \in RequestRow /\ (d.steady => d.now = d.pol) /\ d.own = NoRow /\ d.lot = 0
  BY <1>5, <1>6, DatedIs
<1>8. /\ e \in RequestRow /\ (e.steady => e.now = e.pol) /\ e.own = NoRow /\ e.lot = 0
  BY <1>5, NoRowIs DEF RequestRow
<1> HIDE DEF d, e
<1>9. /\ n \in RequestRow /\ (n.steady => n.now = n.pol) /\ n.own = NoRow /\ n.lot = 0
  BY <1>7, <1>8
<1> HIDE DEF n
<1>10. /\ row \in RequestRow /\ (row.steady => row.now = row.pol) /\ row.own = NoRow
       /\ row.lot = 0 /\ row.pc = "resolve"
  BY <1>9 DEF RequestRow, Pcs
<1> HIDE DEF row, ok
<1>11. Shape(row)
  BY <1>3, <1>10, ShapeBefore
<1> QED BY <1>2, <1>10, <1>11, GoesOn

(* A line for the INTERNAL lot loses its code and dates.                   *)
LEMMA ResolveInternalKeeps ==
  ASSUME LotsInv, NEW p \in Requests, ResolveInternal(p)
  PROVE  LotsInv'
<1> DEFINE row == [req[p] EXCEPT !.pc = "find", !.code = None, !.pd = None, !.ed = None]
<1>1. Become(p, row) /\ req[p].pc = "resolve" /\ req[p].pol.source = "INTERNAL_ONLY"
  BY DEF ResolveInternal
<1>2. req[p] \in RequestRow /\ Shape(req[p]) /\ Len(lots) \in Nat
  BY RequestIs, LotsAre
<1>3. /\ req[p].own = NoRow /\ req[p].lot = 0 /\ (req[p].steady => req[p].now = req[p].pol)
  BY <1>1, <1>2 DEF Shape
<1>4. /\ row \in RequestRow /\ row.pc = "find" /\ row.own = NoRow /\ row.lot = 0
      /\ row.code = None /\ row.pd = None /\ row.pol = req[p].pol
      /\ (row.steady => row.now = row.pol)
  BY <1>2, <1>3, NoRowIs DEF RequestRow, Pcs
<1> HIDE DEF row
<1>5. Internal(row)
  BY <1>1, <1>4 DEF Internal
<1>6. Shape(row)
  BY <1>2, <1>4, <1>5, ShapeBefore
<1> QED BY <1>1, <1>4, <1>6, Becomes

(* A line for a SUPPLIER lot has a date if its policy asks for one.        *)
LEMMA ResolveSupplierKeeps ==
  ASSUME LotsInv, NEW p \in Requests, ResolveSupplier(p)
  PROVE  LotsInv'
<1>1. PICK r : r = Read(req[p])
  OBVIOUS
<1>12. PICK life : life = policy.life
  OBVIOUS
<1>13. PICK e : e = Dated(r, life)
  OBVIOUS
<1> DEFINE d == IF policy.expiry = "REQUIRED" THEN e ELSE r
           row == [d EXCEPT !.pc = "find"]
           ok == /\ r.code # None
                 /\ r.pol.expiry = "REQUIRED" => r.pd # None
                 /\ InOrder(d)
<1>2. GoOn(p, ok, row) /\ req[p].pc = "resolve" /\ req[p].pol.source = "SUPPLIER_ONLY"
  BY <1>1, <1>12, <1>13 DEF ResolveSupplier
<1>3. /\ req[p] \in RequestRow /\ Shape(req[p]) /\ policy \in Policies /\ Len(lots) \in Nat
      /\ life \in Nat
  BY <1>12, RequestIs, LotsAre, PolicyIs DEF PolicyRow
<1>4. req[p].own = NoRow /\ req[p].lot = 0
  BY <1>2, <1>3 DEF Shape
<1>5. /\ r \in RequestRow /\ (r.steady => r.now = r.pol) /\ r.own = NoRow /\ r.lot = 0
      /\ r.pol = req[p].pol
  BY <1>1, <1>3, <1>4, ReadIs
<1>6. /\ e \in RequestRow /\ (e.steady => e.now = e.pol) /\ e.own = NoRow /\ e.lot = 0
      /\ e.pol = r.pol /\ (r.pd # None => e.pd = r.pd)
  <2>1. r \in RequestRow /\ life \in Nat
    BY <1>3, <1>5
  <2>2. /\ e \in RequestRow /\ (r.pd # None => e.pd = r.pd)
        /\ e.pol = r.pol /\ e.now = r.now
        /\ e.own = r.own /\ e.lot = r.lot /\ e.steady = r.steady
    BY <2>1, <1>13, DatedIs
  <2> QED BY <1>5, <2>2
<1>7. /\ d \in RequestRow /\ (d.steady => d.now = d.pol) /\ d.own = NoRow /\ d.lot = 0
      /\ d.pol = r.pol /\ (r.pd # None => d.pd = r.pd)
  BY <1>5, <1>6
<1> HIDE DEF d
<1>8. /\ row \in RequestRow /\ (row.steady => row.now = row.pol) /\ row.own = NoRow
      /\ row.lot = 0 /\ row.pc = "find" /\ row.pol = r.pol /\ row.pd = d.pd
  BY <1>7 DEF RequestRow, Pcs
<1> HIDE DEF row
<1>9. ~Internal(row)
  BY <1>2, <1>5, <1>8 DEF Internal
<1>10. ok => (row.pol.expiry = "REQUIRED" => row.pd # None)
  BY <1>7, <1>8
<1> HIDE DEF ok
<1>11. ok => Shape(row)
  BY <1>3, <1>8, <1>9, <1>10, ShapeBefore
<1> QED BY <1>2, <1>8, <1>11, GoesOn

-----------------------------------------------------------------------------
(* A lot that was found fits the line.                                     *)
LEMMA UsesShape ==
  ASSUME LotsInv, NEW r \in RequestRow, Shape(r), r.pc \in {"find", "again"},
         NEW n \in Found(r), NEW row, row = Uses(r, n)
  PROVE  Shape(row) /\ row.own = NoRow
<1>1. n \in DOMAIN lots /\ n \in 1..Len(lots) /\ Len(lots) \in Nat
  BY LotsAre DEF Found, FoundInternal, FoundByCode, FoundByDate
<1>2. r.own = NoRow /\ (r.steady => r.now = r.pol)
  BY DEF Shape
<1>3. IF Internal(r) THEN r.code = None /\ r.pd = None
      ELSE r.pol.expiry = "REQUIRED" => r.pd # None
  BY DEF Shape
<1>4. /\ row \in RequestRow /\ row.lot = n /\ row.own = NoRow
      /\ row.pc = (IF Internal(r) THEN "got" ELSE "check")
      /\ row.code = r.code /\ row.pd = r.pd /\ row.pol = r.pol /\ row.now = r.now
      /\ row.steady = r.steady
  <2> DEFINE pc == IF Internal(r) THEN "got" ELSE "check"
             ed == IF ~Internal(r) /\ r.now.expiry = "REQUIRED" THEN r.ed ELSE None
  <2>1. pc \in Pcs /\ ed \in Nat /\ n \in Nat
    BY <1>1, NoRowIs DEF Pcs, RequestRow
  <2>2. row = [r EXCEPT !.lot = n, !.pc = pc, !.patch = ed]
    BY DEF Uses
  <2> HIDE DEF ed
  <2>3. pc = (IF Internal(r) THEN "got" ELSE "check")
    OBVIOUS
  <2> HIDE DEF pc
  <2> QED BY <1>2, <2>1, <2>2, <2>3 DEF RequestRow
<1>5. Internal(row) <=> Internal(r)
  BY <1>4 DEF Internal
<1>6. Fits(row)
  BY <1>4, <1>5 DEF Fits, Found, FoundByCode, FoundByDate, Dateless
<1>7. row.lot # 0 /\ row.lot \in 0..Len(lots) /\ row.pc \in {"check", "got"}
      /\ (row.pc = "got" => Internal(row))
  BY <1>1, <1>4, <1>5
<1>8. IF Internal(row) THEN row.code = None /\ row.pd = None
      ELSE row.pol.expiry = "REQUIRED" => row.pd # None
  BY <1>3, <1>4, <1>5
<1> QED BY <1>2, <1>4, <1>6, <1>7, <1>8 DEF Shape

(* A lot is used, or there is none.                                        *)
LEMMA FindKeeps ==
  ASSUME LotsInv, NEW p \in Requests, Find(p)
  PROVE  LotsInv'
<1>1. PICK r : r = req[p]
  OBVIOUS
<1>2. r \in RequestRow /\ Shape(r) /\ Len(lots) \in Nat /\ r.pc = "find"
  BY <1>1, RequestIs, LotsAre DEF Find
<1>3. CASE Found(r) # {}
  <2>1. PICK n \in Found(r) : GoOn(p, Found(r) = {n} \/ ~Dateless(r), Uses(r, n))
    BY <1>1, <1>3 DEF Find
  <2>2. Shape(Uses(r, n)) /\ Uses(r, n).own = NoRow
    BY <1>2, UsesShape
  <2> QED BY <2>1, <2>2, GoesOn
<1>4. CASE Found(r) = {}
  <2> DEFINE ok  == Internal(r) \/ (~Dateless(r) /\ r.ed # None)
             row == [r EXCEPT !.pc = IF Internal(r) THEN "load" ELSE "insert"]
  <2>1. GoOn(p, ok, row)
    BY <1>1, <1>4 DEF Find
  <2>2. /\ row \in RequestRow /\ row.pc \in {"load", "insert"}
        /\ row.lot = r.lot /\ row.own = r.own /\ row.code = r.code /\ row.pd = r.pd
        /\ row.pol = r.pol /\ row.now = r.now /\ row.steady = r.steady
    BY <1>2 DEF RequestRow, Pcs
  <2> HIDE DEF ok, row
  <2>3. /\ row.lot = 0 /\ row.own = NoRow /\ (row.steady => row.now = row.pol)
        /\ Internal(row) <=> Internal(r)
        /\ IF Internal(r) THEN row.code = None /\ row.pd = None
           ELSE row.pol.expiry = "REQUIRED" => row.pd # None
    BY <1>2, <2>2 DEF Shape, Internal
  <2>4. Shape(row)
    BY <1>2, <2>2, <2>3, ShapeBefore
  <2> QED BY <2>1, <2>3, <2>4, GoesOn
<1> QED BY <1>3, <1>4

(* The policy is read for a new INTERNAL lot.                              *)
LEMMA LoadKeeps ==
  ASSUME LotsInv, NEW p \in Requests, Load(p)
  PROVE  LotsInv'
<1>1. PICK r : r = Read(req[p])
  OBVIOUS
<1> DEFINE row == [r EXCEPT !.pc = "insert"]
<1>2. Become(p, row) /\ req[p].pc = "load"
  BY <1>1 DEF Load
<1>3. req[p] \in RequestRow /\ Shape(req[p]) /\ policy \in Policies /\ Len(lots) \in Nat
  BY RequestIs, LotsAre
<1>4. /\ req[p].own = NoRow /\ req[p].lot = 0
      /\ IF Internal(req[p]) THEN req[p].code = None /\ req[p].pd = None
         ELSE req[p].pol.expiry = "REQUIRED" => req[p].pd # None
  BY <1>2, <1>3 DEF Shape
<1>5. /\ r \in RequestRow /\ (r.steady => r.now = r.pol) /\ r.own = NoRow /\ r.lot = 0
      /\ r.code = req[p].code /\ r.pd = req[p].pd /\ r.pol = req[p].pol
  BY <1>1, <1>3, <1>4, ReadIs
<1>6. /\ row \in RequestRow /\ (row.steady => row.now = row.pol) /\ row.own = NoRow
      /\ row.lot = 0 /\ row.pc = "insert" /\ row.code = r.code /\ row.pd = r.pd
      /\ row.pol = r.pol
  BY <1>5 DEF RequestRow, Pcs
<1> HIDE DEF row
<1>7. IF Internal(row) THEN row.code = None /\ row.pd = None
      ELSE row.pol.expiry = "REQUIRED" => row.pd # None
  BY <1>4, <1>5, <1>6 DEF Internal
<1>8. Shape(row)
  BY <1>3, <1>6, <1>7, ShapeBefore
<1> QED BY <1>2, <1>6, <1>8, Becomes

(* Without a lot of the key the row is inserted; with one, the second      *)
(* SELECT will find it: a SUPPLIER row with the key has an expiry policy   *)
(* and so a date, and is looked for by it.                                 *)
LEMMA InsertKeeps ==
  ASSUME LotsInv, NEW p \in Requests, Insert(p)
  PROVE  LotsInv'
<1>1. PICK r : r = req[p]
  OBVIOUS
<1>2. PICK new : new = NewRow(r)
  OBVIOUS
<1>3. r \in RequestRow /\ Shape(r) /\ Len(lots) \in Nat /\ r.pc = "insert"
  BY <1>1, RequestIs, LotsAre DEF Insert
<1>4. /\ new \in LotRow /\ new # NoRow
      /\ new.source = (IF Internal(r) THEN "INTERNAL" ELSE "SUPPLIER")
      /\ new.code = r.code /\ new.pd = r.pd /\ new.ed = r.ed /\ new.snap = r.now
  BY <1>2, <1>3, NewRowIs
<1>5. /\ r.lot = 0 /\ r.own = NoRow /\ (r.steady => r.now = r.pol)
      /\ IF Internal(r) THEN r.code = None /\ r.pd = None
         ELSE r.pol.expiry = "REQUIRED" => r.pd # None
  BY <1>3 DEF Shape
<1>6. CASE \E n \in DOMAIN lots : SameKey(lots[n], new)
  <2> DEFINE row == [r EXCEPT !.pc = "again"]
  <2>1. Become(p, row)
    BY <1>1, <1>2, <1>6 DEF Insert
  <2>2. PICK n \in DOMAIN lots : SameKey(lots[n], new)
    BY <1>6
  <2>3. LotShape(lots[n])
    BY LotsAre
  <2>4. /\ row \in RequestRow /\ row.pc = "again" /\ row.lot = 0 /\ row.own = NoRow
        /\ row.code = r.code /\ row.pd = r.pd /\ row.pol = r.pol /\ row.now = r.now
        /\ row.steady = r.steady
    BY <1>3, <1>5 DEF RequestRow, Pcs
  <2> HIDE DEF row
  <2>5. Internal(row) <=> Internal(r)
    BY <2>4 DEF Internal
  <2>6. n \in Found(row)
    <3>1. CASE Internal(r)
      <4>1. lots[n].source = "INTERNAL" /\ lots[n].code = None
        BY <1>4, <2>2, <2>3, <3>1 DEF SameKey, LotShape
      <4> QED BY <2>2, <2>5, <3>1, <4>1 DEF Found, FoundInternal
    <3>2. CASE ~Internal(r)
      <4>1. /\ lots[n].source = "SUPPLIER" /\ lots[n].pd = r.pd
            /\ lots[n].snap.expiry = "REQUIRED" /\ r.now.expiry = "REQUIRED"
        BY <1>4, <2>2, <3>2 DEF SameKey
      <4>2. r.pd # None
        BY <2>3, <4>1 DEF LotShape, Checked
      <4>3. ~Dateless(row)
        BY <2>4, <4>1, <4>2 DEF Dateless
      <4> QED BY <2>2, <2>4, <2>5, <3>2, <4>1, <4>3 DEF Found, FoundByDate
    <3> QED BY <3>1, <3>2
  <2>7. Shape(row)
    BY <1>3, <1>5, <2>4, <2>5, <2>6 DEF Shape
  <2> QED BY <2>1, <2>4, <2>7, Becomes
<1>7. CASE ~\E n \in DOMAIN lots : SameKey(lots[n], new)
  <2> DEFINE row == [r EXCEPT !.own = new, !.pc = IF Internal(r) THEN "got" ELSE "check"]
  <2>1. GoOn(p, Checked(new), row)
    BY <1>1, <1>2, <1>7 DEF Insert
  <2>2. Reserved(new, p)
    BY <1>1, <1>2, <1>7 DEF Insert, Reserved
  <2>3. /\ row \in RequestRow /\ row.lot = 0 /\ row.own = new
        /\ row.pc = (IF Internal(r) THEN "got" ELSE "check")
        /\ row.code = r.code /\ row.pd = r.pd /\ row.ed = r.ed
        /\ row.pol = r.pol /\ row.now = r.now /\ row.steady = r.steady
    BY <1>3, <1>4, <1>5 DEF RequestRow, Pcs
  <2> HIDE DEF row
  <2>4. Internal(row) <=> Internal(r)
    BY <2>3 DEF Internal
  <2>5. NewRow(row) = new
    BY <1>2, <2>3, <2>4 DEF NewRow
  <2>6. Checked(new) => Shape(row)
    BY <1>3, <1>5, <2>3, <2>4, <2>5 DEF Shape
  <2> QED BY <2>1, <2>2, <2>3, <2>6, GoesOn
<1> QED BY <1>6, <1>7

(* The winner's lot is used.                                               *)
LEMMA AgainKeeps ==
  ASSUME LotsInv, NEW p \in Requests, Again(p)
  PROVE  LotsInv'
<1>1. PICK r : r = req[p]
  OBVIOUS
<1>2. r \in RequestRow /\ Shape(r) /\ r.pc = "again"
  BY <1>1, RequestIs DEF Again
<1>3. CASE Found(r) = {}
  <2>1. Become(p, Idle)
    BY <1>1, <1>3 DEF Again
  <2> QED BY <2>1, BecomesIdle
<1>4. CASE Found(r) # {}
  <2>1. PICK n \in Found(r) : Become(p, Uses(r, n))
    BY <1>1, <1>4 DEF Again
  <2>2. Shape(Uses(r, n)) /\ Uses(r, n).own = NoRow
    BY <1>2, UsesShape
  <2> QED BY <2>1, <2>2, Becomes
<1> QED BY <1>3, <1>4

(* The snapshot of the lot is compared with the policy of the request.     *)
LEMMA CheckKeeps ==
  ASSUME LotsInv, NEW p \in Requests, Check(p)
  PROVE  LotsInv'
<1>1. PICK r : r = req[p]
  OBVIOUS
<1> DEFINE row == [r EXCEPT !.pc = "got"]
<1>2. r \in RequestRow /\ Shape(r) /\ r.pc = "check"
  BY <1>1, RequestIs DEF Check
<1>3. GoOn(p, SnapshotEqual(r), row)
  BY <1>1 DEF Check
<1>4. /\ row \in RequestRow /\ row.pc = "got" /\ row.own = r.own /\ row.lot = r.lot
      /\ row.code = r.code /\ row.pd = r.pd /\ row.ed = r.ed
      /\ row.pol = r.pol /\ row.now = r.now /\ row.steady = r.steady
  BY <1>2 DEF RequestRow, Pcs
<1> HIDE DEF row
<1>5. Internal(row) <=> Internal(r)
  BY <1>4 DEF Internal
<1>6. Row(row) = Row(r) /\ NewRow(row) = NewRow(r) /\ (Fits(row) <=> Fits(r))
  BY <1>4, <1>5 DEF Row, NewRow, Fits
<1>7. SnapshotEqual(r) => Shape(row)
  BY <1>2, <1>4, <1>5, <1>6 DEF Shape, SnapshotEqual
<1> QED BY <1>1, <1>3, <1>4, <1>7, GoesOn

(* A request fails.                                                        *)
LEMMA FailKeeps ==
  ASSUME LotsInv, NEW p \in Requests, Fail(p)
  PROVE  LotsInv'
BY BecomesIdle DEF Fail

(* PMS changes the policy: no request looks at it before it reads it.      *)
LEMMA ChangePolicyKeeps ==
  ASSUME LotsInv, NEW q \in Policies, ChangePolicy(q)
  PROVE  LotsInv'
<1>1. /\ policy' \in Policies /\ changes' = changes + 1 /\ changes < MaxChanges
      /\ UNCHANGED <<lots, req>>
  BY DEF ChangePolicy
<1>2. changes' \in 0..MaxChanges
  BY <1>1, LotsAssumption DEF LotsInv, Tables
<1>3. Tables'
  BY <1>1, <1>2 DEF LotsInv, Tables, LotShape, Checked
<1>4. \A r : Shape(r) => Shape(r)'
  BY <1>1 DEF Shape, Fits, Row, Found, FoundInternal, FoundByCode, FoundByDate,
              Dateless, Internal, NewRow, Checked
<1>5. KeysUnique'
  BY <1>1 DEF LotsInv, KeysUnique, Reserved, SameKey
<1>6. ASSUME NEW p \in Requests PROVE Shape(req[p])'
  <2>1. PICK r : r = req[p]
    OBVIOUS
  <2>2. Shape(r)'
    BY <1>4, <2>1 DEF LotsInv
  <2> QED BY <1>1, <2>1, <2>2
<1> QED BY <1>3, <1>5, <1>6 DEF LotsInv

-----------------------------------------------------------------------------
(* Lots are added, and an expiry date is filled in: whatever a request has *)
(* found stays found.                                                      *)
LEMMA GrownShape ==
  ASSUME LotsInv, NEW r, Shape(r), Len(lots') \in Nat, Len(lots) <= Len(lots'),
         DOMAIN lots' = 1..Len(lots'),
         \A n \in DOMAIN lots : /\ lots'[n].source = lots[n].source
                                /\ lots'[n].code = lots[n].code
                                /\ lots'[n].pd = lots[n].pd /\ lots'[n].snap = lots[n].snap
  PROVE  Shape(r)'
<1>1. Len(lots) \in Nat /\ DOMAIN lots = 1..Len(lots)
  BY LotsAre
<1>2. r \in RequestRow /\ r.lot \in 0..Len(lots) /\ r.lot \in 0..Len(lots')
  BY <1>1 DEF Shape
<1>3. r.lot # 0 => r.lot \in DOMAIN lots
  BY <1>1, <1>2
<1>4. \A n \in DOMAIN lots : n \in DOMAIN lots'
  BY <1>1
<1>5. Found(r) \subseteq Found(r)'
  BY <1>4 DEF Found, FoundInternal, FoundByCode, FoundByDate, Dateless, Internal
<1>6. r.lot # 0 /\ Fits(r) => Fits(r)'
  BY <1>3 DEF Fits, Internal
<1>7. Row(r).snap = r.pol => Row(r)'.snap = r.pol
  BY <1>3 DEF Row
<1> QED BY <1>2, <1>5, <1>6, <1>7 DEF Shape, Internal, NewRow, Checked

(* A request's row that is not empty is one it would insert.               *)
LEMMA OwnIs ==
  ASSUME LotsInv, NEW q \in Requests, req[q].own # NoRow
  PROVE  /\ req[q].own = NewRow(req[q]) /\ req[q].own.source \in {"SUPPLIER", "INTERNAL"}
         /\ LotShape(req[q].own) /\ req[q].lot = 0
<1>1. PICK r : r = req[q]
  OBVIOUS
<1>2. PICK own : own = NewRow(r)
  OBVIOUS
<1>3. Shape(r) /\ r \in RequestRow
  BY <1>1, RequestIs
<1>4. r.own = own /\ r.lot = 0 /\ Checked(own) /\ (Internal(r) => r.code = None)
  BY <1>1, <1>2, <1>3 DEF Shape
<1>5. /\ own \in LotRow /\ own.code = r.code
      /\ own.source = (IF Internal(r) THEN "INTERNAL" ELSE "SUPPLIER")
  BY <1>2, <1>3, NewRowIs
<1>6. LotShape(own)
  BY <1>4, <1>5 DEF LotShape
<1> QED BY <1>1, <1>2, <1>4, <1>5, <1>6

(* Nobody has the key of an empty row.                                     *)
LEMMA NoRowFree == \A a : a.source \in {"SUPPLIER", "INTERNAL"} => ~SameKey(NoRow, a)
BY NoRowIs DEF SameKey

(* The lots after a commit: the new row is the last, or one was patched.   *)
LEMMA CommitsNew ==
  ASSUME LotsInv, NEW p \in Requests, Commit(p), req[p].lot = 0
  PROVE  /\ lots' \in Seq(LotRow) /\ Len(lots') = Len(lots) + 1 /\ req[p].own # NoRow
         /\ \A n \in DOMAIN lots : lots'[n] = lots[n]
         /\ lots'[Len(lots) + 1] = req[p].own
<1>1. PICK r : r = req[p]
  OBVIOUS
<1>2. Shape(r) /\ r \in RequestRow /\ r.pc = "got" /\ r.lot = 0
  BY <1>1, RequestIs DEF Commit
<1>3. r.own # NoRow /\ r.own \in LotRow
  BY <1>2, NewRowIs DEF Shape
<1>4. lots' = Append(lots, r.own)
  BY <1>1, <1>2 DEF Commit
<1>5. lots \in Seq(LotRow) /\ DOMAIN lots = 1..Len(lots)
  BY LotsAre
<1>6. /\ lots' \in Seq(LotRow) /\ Len(lots') = Len(lots) + 1
      /\ \A n \in 1..Len(lots) : lots'[n] = lots[n]
      /\ lots'[Len(lots) + 1] = r.own
  BY <1>3, <1>4, <1>5, AppendProperties
<1> QED BY <1>1, <1>3, <1>5, <1>6

(* A lot that was found keeps its key, and its date if it had one.         *)
LEMMA CommitsFound ==
  ASSUME LotsInv, NEW p \in Requests, Commit(p), req[p].lot # 0
  PROVE  /\ lots' \in Seq(LotRow) /\ Len(lots') = Len(lots) /\ req[p].own = NoRow
         /\ req[p].lot \in DOMAIN lots
         /\ \A n \in DOMAIN lots \ {req[p].lot} : lots'[n] = lots[n]
         /\ lots'[req[p].lot] = Patched(lots[req[p].lot], req[p].patch)
         /\ lots'[req[p].lot] = lots[req[p].lot] \/
              /\ lots[req[p].lot].ed = None
              /\ lots'[req[p].lot] = [lots[req[p].lot] EXCEPT !.ed = req[p].patch]
         /\ LotShape(lots'[req[p].lot])
         /\ lots'[req[p].lot].source = lots[req[p].lot].source
         /\ lots'[req[p].lot].code = lots[req[p].lot].code
         /\ lots'[req[p].lot].pd = lots[req[p].lot].pd
         /\ lots'[req[p].lot].snap = lots[req[p].lot].snap
<1>1. PICK r : r = req[p]
  OBVIOUS
<1>2. Shape(r) /\ r \in RequestRow /\ r.pc = "got" /\ r.lot # 0
  BY <1>1, RequestIs DEF Commit
<1>3. lots \in Seq(LotRow) /\ DOMAIN lots = 1..Len(lots) /\ Len(lots) \in Nat
  BY LotsAre
<1>4. r.lot \in DOMAIN lots /\ r.own = NoRow /\ r.patch \in Nat
  BY <1>2, <1>3 DEF Shape, RequestRow
<1>5. PICK row : row = lots[r.lot]
  OBVIOUS
<1>6. PICK new : new = Patched(row, r.patch)
  OBVIOUS
<1>7. LotShape(row) /\ row \in LotRow
  BY <1>4, <1>5, LotsAre
<1>10. /\ new \in LotRow /\ LotShape(new) /\ new.source = row.source
       /\ new.code = row.code /\ new.pd = row.pd /\ new.snap = row.snap
       /\ new = row \/ (row.ed = None /\ new = [row EXCEPT !.ed = r.patch])
  <2>1. CASE row.ed = None
    <3>1. new = [row EXCEPT !.ed = r.patch]
      BY <1>6, <2>1 DEF Patched
    <3>2. /\ new \in LotRow /\ new.source = row.source /\ new.code = row.code
          /\ new.pd = row.pd /\ new.snap = row.snap
      BY <1>4, <1>7, <3>1 DEF LotRow
    <3>3. row.snap.expiry # "REQUIRED" /\ row.pd = None
      BY <1>7, <2>1 DEF LotShape, Checked
    <3>4. LotShape(new)
      BY <1>7, <3>2, <3>3 DEF LotShape, Checked
    <3> QED BY <2>1, <3>1, <3>2, <3>4
  <2>2. CASE row.ed # None
    <3>1. new = row
      BY <1>6, <2>2 DEF Patched
    <3> QED BY <1>7, <3>1
  <2> QED BY <2>1, <2>2
<1>11. lots' = [lots EXCEPT ![r.lot] = new]
  BY <1>1, <1>2, <1>5, <1>6 DEF Commit
<1>12. lots' \in Seq(LotRow) /\ Len(lots') = Len(lots)
  BY <1>3, <1>4, <1>10, <1>11, ExceptSeq
<1>13. lots'[r.lot] = new /\ \A n \in DOMAIN lots \ {r.lot} : lots'[n] = lots[n]
  BY <1>3, <1>4, <1>11
<1> QED BY <1>1, <1>4, <1>5, <1>6, <1>10, <1>12, <1>13

(* The row becomes a lot; nobody has its key, and others may find it now.  *)
LEMMA CommitKeeps ==
  ASSUME LotsInv, NEW p \in Requests, Commit(p)
  PROVE  LotsInv'
<1>1. /\ UNCHANGED <<policy, changes>> /\ req[p] \in RequestRow
      /\ req' = [req EXCEPT ![p] = Idle] /\ req \in [Requests -> RequestRow]
  BY RequestIs DEF Commit, LotsInv, Tables
<1>2. /\ req' \in [Requests -> RequestRow] /\ req'[p] = Idle
      /\ \A q \in Requests \ {p} : req'[q] = req[q]
  BY <1>1, IdleIs
<1>3. lots \in Seq(LotRow) /\ Len(lots) \in Nat /\ DOMAIN lots = 1..Len(lots)
  BY LotsAre
<1>4. /\ lots' \in Seq(LotRow) /\ Len(lots') \in Nat /\ Len(lots) <= Len(lots')
      /\ DOMAIN lots' = 1..Len(lots')
      /\ \A n \in DOMAIN lots : /\ lots'[n].source = lots[n].source
                                /\ lots'[n].code = lots[n].code
                                /\ lots'[n].pd = lots[n].pd /\ lots'[n].snap = lots[n].snap
                                /\ LotShape(lots'[n])
  <2>1. CASE req[p].lot = 0
    <3>1. /\ lots' \in Seq(LotRow) /\ Len(lots') = Len(lots) + 1
          /\ \A n \in DOMAIN lots : lots'[n] = lots[n]
      BY <2>1, CommitsNew
    <3> QED BY <1>3, <3>1, LotsAre
  <2>2. CASE req[p].lot # 0
    <3>1. /\ lots' \in Seq(LotRow) /\ Len(lots') = Len(lots)
          /\ \A n \in DOMAIN lots \ {req[p].lot} : lots'[n] = lots[n]
      BY <2>2, CommitsFound
    <3>2. /\ LotShape(lots'[req[p].lot])
          /\ lots'[req[p].lot].source = lots[req[p].lot].source
          /\ lots'[req[p].lot].code = lots[req[p].lot].code
          /\ lots'[req[p].lot].pd = lots[req[p].lot].pd
          /\ lots'[req[p].lot].snap = lots[req[p].lot].snap
      BY <2>2, CommitsFound
    <3> QED BY <1>3, <3>1, <3>2, LotsAre
  <2> QED BY <2>1, <2>2
<1>5. \/ Len(lots') = Len(lots)
      \/ /\ Len(lots') = Len(lots) + 1 /\ req[p].own # NoRow
         /\ lots'[Len(lots) + 1] = req[p].own
  BY CommitsNew, CommitsFound
<1>6. \A n \in DOMAIN lots' : n \in DOMAIN lots \/
        (n = Len(lots) + 1 /\ req[p].own # NoRow /\ lots'[n] = req[p].own)
  <2>1. CASE Len(lots') = Len(lots)
    BY <1>3, <1>4, <2>1
  <2>2. CASE /\ Len(lots') = Len(lots) + 1 /\ req[p].own # NoRow
             /\ lots'[Len(lots) + 1] = req[p].own
    <3>1. \A k \in Nat : \A n \in 1..(k + 1) : n \in 1..k \/ n = k + 1
      OBVIOUS
    <3>2. DOMAIN lots' = 1..(Len(lots) + 1)
      BY <1>4, <2>2
    <3> QED BY <1>3, <2>2, <3>1, <3>2
  <2> QED BY <1>5, <2>1, <2>2
<1>7. Tables'
  <2>1. ASSUME NEW n \in DOMAIN lots' PROVE LotShape(lots'[n])
    BY <1>4, <1>6, OwnIs
  <2> QED BY <1>1, <1>2, <1>4, <2>1 DEF LotsInv, Tables, LotShape, Checked
<1>8. ASSUME NEW q \in Requests PROVE Shape(req[q])'
  <2>1. PICK r : r = req'[q]
    OBVIOUS
  <2>2. Shape(Idle)
    BY <1>3, IdleIs DEF Shape
  <2>3. Shape(r)
    BY <1>2, <2>1, <2>2 DEF LotsInv
  <2>4. Shape(r)'
    BY <1>4, <2>3, GrownShape
  <2> QED BY <2>1, <2>4 DEF Shape, Fits, Row, Found, FoundInternal, FoundByCode, FoundByDate,
                            Dateless, Internal, NewRow, Checked
<1>9. KeysUnique'
  <2>1. \A a, n : n \in DOMAIN lots => (SameKey(lots'[n], a) <=> SameKey(lots[n], a))
    BY <1>4 DEF SameKey
  <2>2. \A a, n : n \in DOMAIN lots => (SameKey(a, lots'[n]) <=> SameKey(a, lots[n]))
    BY <1>4 DEF SameKey
  <2>3. req[p].own # NoRow => Reserved(req[p].own, p)
    BY DEF LotsInv, KeysUnique
  <2>4. ASSUME NEW m \in DOMAIN lots', NEW n \in DOMAIN lots', SameKey(lots'[m], lots'[n])
        PROVE  m = n
    <3>1. CASE m \in DOMAIN lots /\ n \in DOMAIN lots
      <4>1. SameKey(lots[m], lots[n])
        BY <2>1, <2>2, <2>4, <3>1
      <4> QED BY <3>1, <4>1 DEF LotsInv, KeysUnique
    <3>2. CASE m \in DOMAIN lots /\ n \notin DOMAIN lots
      <4>1. SameKey(lots[m], req[p].own) /\ req[p].own # NoRow
        BY <1>6, <2>1, <2>4, <3>2
      <4> QED BY <2>3, <3>2, <4>1 DEF Reserved
    <3>3. CASE m \notin DOMAIN lots /\ n \in DOMAIN lots
      <4>1. SameKey(req[p].own, lots[n]) /\ req[p].own # NoRow
        BY <1>6, <2>2, <2>4, <3>3
      <4>2. SameKey(lots[n], req[p].own)
        BY <4>1, SameKeySymmetric
      <4> QED BY <2>3, <3>3, <4>1, <4>2 DEF Reserved
    <3>4. CASE m \notin DOMAIN lots /\ n \notin DOMAIN lots
      BY <1>6, <3>4
    <3> QED BY <3>1, <3>2, <3>3, <3>4
  <2>5. ASSUME NEW q \in Requests, req'[q].own # NoRow PROVE Reserved(req[q].own, q)'
    <3>1. q # p /\ req'[q].own = req[q].own
      BY <1>2, <2>5, IdleIs
    <3>2. Reserved(req[q].own, q) /\ req[q].own.source \in {"SUPPLIER", "INTERNAL"}
      BY <2>5, <3>1, OwnIs DEF LotsInv, KeysUnique
    <3>3. ~SameKey(req[p].own, req[q].own)
      BY <3>1, <3>2 DEF Reserved
    <3>4. \A n \in DOMAIN lots' : ~SameKey(lots'[n], req[q].own)
      <4>1. \A n \in DOMAIN lots : ~SameKey(lots'[n], req[q].own)
        BY <2>1, <3>2 DEF Reserved
      <4> QED BY <1>6, <3>3, <4>1
    <3>5. ~SameKey(NoRow, req[q].own)
      BY <3>2, NoRowFree
    <3>6. \A x \in Requests \ {q} : ~SameKey(req'[x].own, req[q].own)
      <4>1. req'[p].own = NoRow
        BY <1>2, IdleIs
      <4> QED BY <1>2, <3>2, <3>5, <4>1 DEF Reserved
    <3> QED BY <3>1, <3>4, <3>6 DEF Reserved
  <2> QED BY <2>4, <2>5 DEF KeysUnique
<1> QED BY <1>7, <1>8, <1>9 DEF LotsInv

-----------------------------------------------------------------------------
(* The invariant holds at the start and after every step.                  *)
LEMMA InitInv == Init => LotsInv
<1> SUFFICES ASSUME Init PROVE LotsInv
  OBVIOUS
<1>1. lots = Legacy /\ req = [p \in Requests |-> Idle] /\ policy \in Policies /\ changes = 0
  BY DEF Init
<1>2. [source : {"SUPPLIER", "INTERNAL"}, code : Nat, pd : Nat, ed : Nat, snap : Policy]
        \subseteq LotRow
  BY DEF LotRow, Policy, PolicyRow
<1>3. lots \in Seq(LotRow) /\ Len(lots) \in Nat /\ \A n \in DOMAIN lots :
        lots[n] \in LotRow /\ lots[n].source \in {"SUPPLIER", "INTERNAL"}
  <2>1. PICK S : S = [source : {"SUPPLIER", "INTERNAL"}, code : Nat, pd : Nat, ed : Nat,
                      snap : Policy]
    OBVIOUS
  <2>2. lots \in Seq(S) /\ S \subseteq LotRow
    BY <1>1, <1>2, <2>1, LegacyAssumption
  <2>3. Len(lots) \in Nat /\ DOMAIN lots = 1..Len(lots) /\ \A n \in 1..Len(lots) : lots[n] \in S
    BY <2>2, LenProperties, ElementOfSeq
  <2>4. lots \in Seq(LotRow)
    BY <2>2, SeqMonotonic
  <2>5. \A x \in S : x.source \in {"SUPPLIER", "INTERNAL"}
    BY <2>1
  <2> QED BY <2>2, <2>3, <2>4, <2>5
<1>4. ASSUME NEW n \in DOMAIN lots PROVE LotShape(lots[n])
  BY <1>1, <1>3, <1>4, LegacyAssumption DEF LotShape
<1>5. Tables
  BY <1>1, <1>3, <1>4, LotsAssumption, IdleIs DEF Tables
<1>6. Shape(Idle)
  BY <1>3, IdleIs DEF Shape
<1>7. KeysUnique
  BY <1>1, LegacyAssumption, IdleIs DEF KeysUnique
<1> QED BY <1>1, <1>5, <1>6, <1>7 DEF LotsInv

(* Every step keeps the invariant.                                         *)
LEMMA StepInv == LotsInv /\ [Next]_vars => LotsInv'
<1> SUFFICES ASSUME LotsInv, [Next]_vars PROVE LotsInv'
  OBVIOUS
<1>1. ASSUME NEW q \in Policies, ChangePolicy(q) PROVE LotsInv'
  BY <1>1, ChangePolicyKeeps
<1>2. ASSUME NEW p \in Requests, NEW via \in {"commit", "operation"}, NEW in \in Inputs,
             Decide(p, via, in)
      PROVE  LotsInv'
  BY <1>2, DecideKeeps
<1>3. ASSUME NEW p \in Requests, Normalise(p) PROVE LotsInv'
  BY <1>3, NormaliseKeeps
<1>4. ASSUME NEW p \in Requests, ResolveInternal(p) PROVE LotsInv'
  BY <1>4, ResolveInternalKeeps
<1>5. ASSUME NEW p \in Requests, ResolveSupplier(p) PROVE LotsInv'
  BY <1>5, ResolveSupplierKeeps
<1>6. ASSUME NEW p \in Requests, Find(p) PROVE LotsInv'
  BY <1>6, FindKeeps
<1>7. ASSUME NEW p \in Requests, Load(p) PROVE LotsInv'
  BY <1>7, LoadKeeps
<1>8. ASSUME NEW p \in Requests, Insert(p) PROVE LotsInv'
  BY <1>8, InsertKeeps
<1>9. ASSUME NEW p \in Requests, Again(p) PROVE LotsInv'
  BY <1>9, AgainKeeps
<1>10. ASSUME NEW p \in Requests, Check(p) PROVE LotsInv'
  BY <1>10, CheckKeeps
<1>11. ASSUME NEW p \in Requests, Commit(p) PROVE LotsInv'
  BY <1>11, CommitKeeps
<1>12. ASSUME NEW p \in Requests, Fail(p) PROVE LotsInv'
  BY <1>12, FailKeeps
<1>13. CASE UNCHANGED vars
  <2>1. Tables'
    BY <1>13 DEF vars, LotsInv, Tables, LotShape, Checked
  <2>2. \A r : Shape(r) => Shape(r)'
    BY <1>13 DEF vars, Shape, Fits, Row, Found, FoundInternal, FoundByCode, FoundByDate,
                 Dateless, Internal, NewRow, Checked
  <2>3. KeysUnique'
    BY <1>13 DEF vars, LotsInv, KeysUnique, Reserved, SameKey
  <2>4. ASSUME NEW p \in Requests PROVE Shape(req[p])'
    <3>1. PICK r : r = req[p]
      OBVIOUS
    <3>2. Shape(r)'
      BY <2>2, <3>1 DEF LotsInv
    <3> QED BY <1>13, <3>1, <3>2 DEF vars
  <2> QED BY <2>1, <2>3, <2>4 DEF LotsInv
<1> QED BY <1>1, <1>2, <1>3, <1>4, <1>5, <1>6, <1>7, <1>8, <1>9, <1>10, <1>11, <1>12, <1>13
        DEF Next

(* The invariant always holds.                                             *)
LEMMA AlwaysInv == Spec => []LotsInv
BY InitInv, StepInv, PTL DEF Spec

(* There is one lot of a production date and one INTERNAL lot, and a       *)
(* request that lost the race for a new one finds the winner's: SUPPLIER   *)
(* lots with a date were made under an expiry policy, so the unique index  *)
(* holds for them whatever policy is in force now.                         *)
THEOREM OneLotOfAKey == Spec => []OneLotPerKey
<1>1. LotsInv => OneLotPerKey
  <2> SUFFICES ASSUME LotsInv PROVE OneLotPerKey
    OBVIOUS
  <2>1. TypeOK
    <3>1. ASSUME NEW n \in DOMAIN lots
          PROVE  /\ lots[n].source \in {"SUPPLIER", "INTERNAL"}
                 /\ lots[n].snap.expiry = "REQUIRED" => lots[n].ed # None
                 /\ lots[n].pd # None /\ lots[n].ed # None => lots[n].pd <= lots[n].ed
      BY LotsAre DEF LotShape, Checked
    <3>2. ASSUME NEW p \in Requests PROVE req[p].pc \in Pcs /\ req[p].lot \in 0..Len(lots)
      BY RequestIs DEF Shape, RequestRow
    <3> QED BY <3>1, <3>2 DEF TypeOK, Pcs, LotsInv, Tables
  <2>2. ASSUME NEW m \in DOMAIN lots, NEW n \in DOMAIN lots,
               lots[m].source = lots[n].source, lots[m].pd = lots[n].pd,
               lots[m].source = "SUPPLIER" => lots[m].pd # None
        PROVE  m = n
    <3>1. LotShape(lots[m]) /\ LotShape(lots[n])
      BY LotsAre
    <3>2. SameKey(lots[m], lots[n])
      BY <2>2, <3>1 DEF SameKey, LotShape, Checked
    <3> QED BY <3>2 DEF LotsInv, KeysUnique
  <2>3. ASSUME NEW p \in Requests, req[p].pc = "again" PROVE Found(req[p]) # {}
    BY <2>3, RequestIs DEF Shape
  <2> QED BY <2>1, <2>2, <2>3 DEF OneLotPerKey
<1> QED BY <1>1, AlwaysInv, PTL

(* A line goes to a SUPPLIER lot only under the policy the lot was made    *)
(* for, and to the lot of its date if the policy did not change during the *)
(* request.                                                                *)
THEOREM LotsFitTheirLines == Spec => []LotFitsLine
<1>1. LotsInv => LotFitsLine
  <2> SUFFICES ASSUME LotsInv, NEW p \in Requests, req[p].pc = "got", ~Internal(req[p])
               PROVE  /\ Row(req[p]).source = "SUPPLIER" /\ Row(req[p]).snap = req[p].pol
                      /\ req[p].steady /\ req[p].pol.expiry = "REQUIRED" =>
                           Row(req[p]).pd = req[p].pd
    BY DEF LotFitsLine
  <2>1. PICK r : r = req[p]
    OBVIOUS
  <2>2. Shape(r) /\ r \in RequestRow /\ r.pc = "got" /\ ~Internal(r)
    BY <2>1, RequestIs
  <2>3. /\ Row(r).snap = r.pol /\ (r.steady => r.now = r.pol)
        /\ (r.pol.expiry = "REQUIRED" => r.pd # None)
    BY <2>2 DEF Shape
  <2>4. CASE r.lot = 0
    BY <2>1, <2>2, <2>3, <2>4, NewRowIs DEF Shape, Row
  <2>5. CASE r.lot # 0
    BY <2>1, <2>2, <2>3, <2>5 DEF Shape, Row, Fits
  <2> QED BY <2>4, <2>5
<1> QED BY <1>1, AlwaysInv, PTL

(* A lot is never changed, but for an expiry date it did not have.         *)
THEOREM LotsNeverChange == Spec => LotsStand
<1> DEFINE A == \A n \in DOMAIN lots : n \in DOMAIN lots' /\
             lots'[n] \in {lots[n]} \cup {[lots[n] EXCEPT !.ed = d] :
                            d \in IF lots[n].ed = None THEN {lots'[n].ed} ELSE {}}
<1>1. LotsInv /\ [Next]_vars => [A]_vars
  <2> SUFFICES ASSUME LotsInv, Next PROVE A
    OBVIOUS
  <2>1. CASE lots' = lots
    BY <2>1
  <2>2. ASSUME NEW p \in Requests, Commit(p) PROVE A
    <3>1. lots \in Seq(LotRow) /\ Len(lots) \in Nat /\ DOMAIN lots = 1..Len(lots)
      BY LotsAre
    <3>2. CASE req[p].lot = 0
      <4>1. /\ lots' \in Seq(LotRow) /\ Len(lots') = Len(lots) + 1
            /\ \A n \in DOMAIN lots : lots'[n] = lots[n]
        BY <2>2, <3>2, CommitsNew
      <4>2. \A n \in DOMAIN lots : n \in DOMAIN lots'
        BY <3>1, <4>1
      <4> QED BY <4>1, <4>2
    <3>3. CASE req[p].lot # 0
      <4>1. PICK k : k = req[p].lot
        OBVIOUS
      <4>2. /\ lots' \in Seq(LotRow) /\ Len(lots') = Len(lots) /\ k \in DOMAIN lots
            /\ \A n \in DOMAIN lots \ {k} : lots'[n] = lots[n]
        BY <2>2, <3>3, <4>1, CommitsFound
      <4>3. /\ lots'[k] = lots[k] \/
                 /\ lots[k].ed = None
                 /\ lots'[k] = [lots[k] EXCEPT !.ed = req[p].patch]
        BY <2>2, <3>3, <4>1, CommitsFound
      <4>4. \A n \in DOMAIN lots : n \in DOMAIN lots'
        BY <3>1, <4>2
      <4>5. lots[k].ed = None /\ lots'[k] = [lots[k] EXCEPT !.ed = req[p].patch] =>
              lots'[k] = [lots[k] EXCEPT !.ed = lots'[k].ed]
        <5>1. lots[k] \in LotRow
          BY <4>2, LotsAre
        <5> QED BY <5>1 DEF LotRow
      <4> QED BY <4>2, <4>3, <4>4, <4>5
    <3> QED BY <3>2, <3>3
  <2>3. Next => lots' = lots \/ \E p \in Requests : Commit(p)
    BY DEF Next, ChangePolicy, Decide, Normalise, ResolveInternal, ResolveSupplier, Find,
           Load, Insert, Again, Check, Fail, GoOn, Become
  <2> QED BY <2>1, <2>2, <2>3
<1> QED BY <1>1, AlwaysInv, PTL DEF Spec, LotsStand
=============================================================================
