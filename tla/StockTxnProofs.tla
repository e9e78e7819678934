--------------------------- MODULE StockTxnProofs ---------------------------
(***************************************************************************)
(* For any number of attempts, slots, keys and requests: the balances and  *)
(* the ledger of the stock kernel always agree, commits only add to the    *)
(* ledger, and requests are in it whole or not at all.  Any attempts       *)
(* overlap, also at one request.                                           *)
(***************************************************************************)
EXTENDS StockTxn, SumProofs, TLAPS

-----------------------------------------------------------------------------
(* Facts about one slot.                                                   *)

(* A posted row keeps a slot well typed while the balance stays >= 0.      *)
LEMMA PostedType ==
  ASSUME NEW b \in Slot, NEW c \in Call, NEW d \in Int, b.qty + d >= 0
  PROVE  Posted(b, c, d) \in Slot
BY DEF Posted, Slot, Row, Call

(* Filling the NULL columns of a row (write_ledger_infra) keeps it a row.  *)
LEMMA PatchedType ==
  ASSUME NEW row \in Row, NEW c
  PROVE  Patched(row, c) \in Row
<1>1. [row EXCEPT !.meta = TRUE] \in Row
  BY DEF Row
<1>2. Patched(row, c) = [row EXCEPT !.meta = TRUE] \/ Patched(row, c) = row
  BY Zenon DEF Patched
<1> QED BY <1>1, <1>2

(* A posted row takes its own key and no other.                            *)
LEMMA PostedKeys ==
  ASSUME NEW b \in Slot, NEW c \in Call, NEW d \in Int, NEW k
  PROVE  HasKey(Posted(b, c, d), k) <=> (HasKey(b, k) \/ k = c.key)
<1> DEFINE p == Posted(b, c, d)
           row == [key |-> c.key, delta |-> d, after |-> b.qty + d, meta |-> c.meta]
<1>1. p.rows = Append(b.rows, row) /\ row.key = c.key
  BY DEF Posted
<1> HIDE DEF p, row
<1>2. b.rows \in Seq(Row)
  BY DEF Slot
<1>3. /\ DOMAIN p.rows = 1..(Len(b.rows) + 1) /\ DOMAIN b.rows = 1..Len(b.rows)
      /\ Len(b.rows) \in Nat /\ p.rows[Len(b.rows) + 1] = row
      /\ \A n \in DOMAIN b.rows : p.rows[n] = b.rows[n]
  BY <1>1, <1>2
<1>4. HasKey(p, k) <=> (HasKey(b, k) \/ k = c.key)
  BY <1>1, <1>3 DEF HasKey
<1> QED BY <1>4 DEF p

(* Posting a fresh key to a sound slot continues its chain.                *)
LEMMA PostedSound ==
  ASSUME NEW b \in Slot, NEW c \in Call, NEW d \in Int, b.qty + d >= 0,
         Sound(b), ~HasKey(b, c.key)
  PROVE  /\ Sound(Posted(b, c, d))
         /\ Continues(b, Posted(b, c, d))
<1> DEFINE p == Posted(b, c, d)
           row == [key |-> c.key, delta |-> d, after |-> b.qty + d, meta |-> c.meta]
<1>1. /\ b.rows \in Seq(Row)
      /\ b.qty \in Nat
      /\ p.rows = Append(b.rows, row)
      /\ p.qty = b.qty + d
  BY DEF Slot, Posted
<1>2. /\ Len(p.rows) = Len(b.rows) + 1
      /\ DOMAIN p.rows = 1..(Len(b.rows) + 1)
      /\ DOMAIN b.rows = 1..Len(b.rows)
      /\ \A n \in DOMAIN b.rows : p.rows[n] = b.rows[n]
      /\ p.rows[Len(b.rows) + 1] = row
  BY <1>1
<1>3. Chained(p)
  BY <1>1, <1>2 DEF Sound, Chained, After
<1>4. KeysOnce(p)
  BY <1>1, <1>2 DEF Sound, KeysOnce, HasKey
<1>5. p.qty = After(p.rows, Len(p.rows))
  BY <1>1, <1>2 DEF After
<1> QED BY <1>1, <1>2, <1>3, <1>4, <1>5 DEF Sound, Continues

-----------------------------------------------------------------------------
(* Type correctness, of the balances too: no write path drives a balance   *)
(* below zero.                                                             *)
(* The empty tables are well typed.                                        *)
LEMMA InitType == Init => TypeOK
BY DEF Init, TypeOK, NothingHeld, EmptySlot, Slot, Row

(* What a transaction reads of a slot is a slot.                           *)
LEMMA ViewType ==
  ASSUME TypeOK, NEW t \in Txns, NEW s \in Slots
  PROVE  View(t, s) \in Slot
BY DEF TypeOK, View

(* The call a request is at, and the calls after it, are calls.            *)
LEMMA HeadType ==
  ASSUME TypeOK, NEW t \in Txns, todo[t] # << >>
  PROVE  /\ Head(todo[t]) \in Call
         /\ Tail(todo[t]) \in Seq(Call)
BY DEF TypeOK

(* What an attempt draws: the same calls, under its own reference where    *)
(* they name none.                                                         *)
LEMMA DrawnIs ==
  ASSUME NEW t \in Txns, NEW r \in Requests, NEW d, d = Drawn(t, r.calls)
  PROVE  /\ r.calls \in Seq(Call) /\ d \in Seq(Call)
         /\ r.doc \in Docs \cup {NoDoc}
         /\ DOMAIN d = DOMAIN r.calls
         /\ \A n \in DOMAIN d :
              /\ d[n].kind = r.calls[n].kind
              /\ r.calls[n].key.ref \in Refs \cup {OwnRef}
              /\ r.calls[n].key.ref = OwnRef => d[n].key.ref = t
              /\ r.calls[n].key.ref # OwnRef => d[n].key = r.calls[n].key
<1>1. r \in Request
  BY RequestAssumption
<1>2. r.calls \in Seq(Call) /\ r.doc \in Docs \cup {NoDoc}
  BY <1>1 DEF Request
<1>3. PICK q \in Seq(Call) : q = r.calls
  BY <1>2
<1>4. /\ DOMAIN d = DOMAIN q
      /\ \A n \in DOMAIN q :
           d[n] = IF q[n].key.ref = OwnRef
                  THEN [q[n] EXCEPT !.key = [ref |-> t, line |-> q[n].key.line]]
                  ELSE q[n]
  BY <1>3 DEF Drawn
<1>5. ASSUME NEW n \in DOMAIN q
      PROVE  /\ d[n] \in Call /\ d[n].kind = q[n].kind
             /\ q[n].key.ref = OwnRef => d[n].key.ref = t
             /\ q[n].key.ref # OwnRef => d[n].key = q[n].key
  <2>1. q[n] \in Call
    BY <1>3
  <2>2. q[n].key \in Keys
    BY <2>1 DEF Call
  <2>3. CASE q[n].key.ref # OwnRef
    BY <1>4, <2>1, <2>3
  <2>4. CASE q[n].key.ref = OwnRef
    <3>1. [ref |-> t, line |-> q[n].key.line] \in Keys
      BY <2>2, KeyAssumption
    <3>2. PICK c, k : c = q[n] /\ k = [ref |-> t, line |-> c.key.line]
      OBVIOUS
    <3>3. d[n] = [c EXCEPT !.key = k] /\ k \in Keys /\ k.ref = t /\ c \in Call
      BY <1>4, <2>1, <2>4, <3>1, <3>2
    <3>4. d[n] \in Call /\ d[n].kind = c.kind /\ d[n].key = k
      BY <3>3 DEF Call
    <3> QED BY <2>4, <3>2, <3>3, <3>4
  <2> QED BY <2>3, <2>4
<1>6. d \in Seq(Call)
  <2>1. PICK l \in Nat : DOMAIN q = 1..l
    BY <1>3
  <2>2. d = [n \in 1..l |-> d[n]]
    BY <1>3, <2>1 DEF Drawn
  <2>3. d \in [1..l -> Call]
    BY <1>5, <2>1, <2>2
  <2> QED BY <2>1, <2>3
<1>7. \A n \in DOMAIN q : q[n].key.ref \in Refs \cup {OwnRef}
  BY <1>3, RequestAssumption
<1> QED BY <1>2, <1>3, <1>4, <1>5, <1>6, <1>7

(* What an attempt reads as the stock of a lot_code is a number.           *)
LEMMA OnHandType ==
  ASSUME TypeOK, NEW t \in Txns, NEW s \in Slots
  PROVE  OnHand(t, s) \in Int
<1>1. PICK S, q : S = SameCode[s] /\ q = [x \in S |-> View(t, x).qty]
  OBVIOUS
<1>2. IsFiniteSet(S) /\ S \subseteq Slots
  BY <1>1, CodeAssumption
<1>3. \A x \in S : q[x] \in Int
  BY <1>1, <1>2, ViewType DEF Slot
<1>4. SumOf(q, S) \in Int
  BY <1>2, <1>3, SumType
<1> QED BY <1>1, <1>4 DEF OnHand

(* The working copies and locks after t puts b into slot s.                *)
LEMMA PutType ==
  ASSUME TypeOK, NEW t \in Txns, NEW s \in Slots, NEW b \in Slot, Put(t, s, b)
  PROVE  /\ book' \in [Slots -> Slot]
         /\ work' \in [Txns -> [Slots -> Slot]]
         /\ holder' \in [Slots -> Txns \cup {NoTxn}]
         /\ req' \in [Txns -> Seq(Call)]
         /\ doc' \in [Txns -> Docs \cup {NoDoc}]
BY DEF TypeOK, Put

(* A call that returns leaves the request at its next call.                *)
LEMMA ReturnType ==
  ASSUME TypeOK, NEW t \in Txns, todo[t] # << >>, Return(t)
  PROVE  /\ pc' \in [Txns -> {"idle", "wait", "call", "write", "done", "aborted"}]
         /\ todo' \in [Txns -> Seq(Call)]
         /\ \A u \in Txns : pc'[u] = "write" =>
              /\ todo'[u] # << >>
              /\ Head(todo'[u]).kind = "adjust"
<1>1. Tail(todo[t]) \in Seq(Call)
  BY HeadType
<1> QED BY <1>1 DEF TypeOK, Return

(* The end of a transaction keeps the types if it publishes slots.         *)
LEMMA ReleaseType ==
  ASSUME TypeOK, NEW t \in Txns, NEW o \in {"done", "aborted"}, Release(t, o),
         book' \in [Slots -> Slot]
  PROVE  TypeOK'
<1>1. NothingHeld \in [Slots -> Slot]
  BY DEF NothingHeld, EmptySlot, Slot, Row
<1> QED BY <1>1 DEF TypeOK, Release

(* A rollback publishes nothing, so it keeps the types.                    *)
LEMMA RollbackType ==
  ASSUME TypeOK, NEW t \in Txns, Rollback(t)
  PROVE  TypeOK'
<1>1. book' \in [Slots -> Slot]
  BY DEF TypeOK, Rollback
<1> QED BY <1>1, ReleaseType DEF Rollback

(* Every step keeps the types: each write path checks the balance first.   *)
LEMMA StepType == TypeOK /\ [Next]_vars => TypeOK'
<1> SUFFICES ASSUME TypeOK, [Next]_vars PROVE TypeOK'
  OBVIOUS
<1>1. CASE UNCHANGED vars
  BY <1>1 DEF vars, TypeOK
<1>2. ASSUME NEW t \in Txns, Begin(t) PROVE TypeOK'
  <2>1. PICK r, d :
          /\ r \in Requests /\ d = Drawn(t, r.calls)
          /\ doc' = [doc EXCEPT ![t] = r.doc]
          /\ req' = [req EXCEPT ![t] = d]
          /\ todo' = [todo EXCEPT ![t] = d]
          /\ pc' = [pc EXCEPT ![t] = IF r.doc = NoDoc THEN "call" ELSE "wait"]
    BY <1>2 DEF Begin
  <2>2. r.doc \in Docs \cup {NoDoc} /\ d \in Seq(Call)
    BY <2>1, DrawnIs
  <2> QED BY <1>2, <2>1, <2>2 DEF Begin, TypeOK
<1>2b. ASSUME NEW t \in Txns, LockDocument(t) PROVE TypeOK'
  BY <1>2b DEF LockDocument, TypeOK
<1>3. ASSUME NEW t \in Txns, AdjustHit(t) PROVE TypeOK'
  <2>1. todo[t] # << >>
    BY <1>3 DEF AdjustHit, Calls
  <2> QED BY <1>3, <2>1, ReturnType DEF AdjustHit, TypeOK
<1>4. ASSUME NEW t \in Txns, AdjustMiss(t) PROVE TypeOK'
  BY <1>4 DEF AdjustMiss, Calls, TypeOK
<1>5. ASSUME NEW t \in Txns, AdjustWrite(t) PROVE TypeOK'
  <2> DEFINE c == Head(todo[t])
             b == View(t, c.slot)
             b2 == [qty |-> b.qty + c.qty, rows |-> LedgerWrite(b, c)]
  <2>1. /\ todo[t] # << >>
        /\ b.qty + c.qty >= 0
        /\ Put(t, c.slot, b2)
        /\ Return(t)
    BY <1>5 DEF AdjustWrite, TypeOK
  <2>2. c \in Call /\ c.slot \in Slots /\ c.qty \in Int /\ c.meta \in BOOLEAN
    BY <2>1, HeadType DEF Call
  <2>3. b \in Slot
    BY <2>2, ViewType
  <2>4. LedgerWrite(b, c) \in Seq(Row)
    <3>1. CASE ~HasKey(b, c.key)
      BY <3>1, <2>1, <2>2, <2>3, PostedType DEF LedgerWrite, Slot
    <3>2. CASE HasKey(b, c.key)
      <4>1. b.rows \in Seq(Row)
        BY <2>3 DEF Slot
      <4>2. \A n \in DOMAIN b.rows : Patched(b.rows[n], c) \in Row
        BY <4>1, PatchedType
      <4>3. LedgerWrite(b, c) = [n \in 1..Len(b.rows) |-> Patched(b.rows[n], c)]
        BY <3>2, <4>1 DEF LedgerWrite
      <4>4. LedgerWrite(b, c) \in [1..Len(b.rows) -> Row] /\ Len(b.rows) \in Nat
        BY <4>1, <4>2, <4>3
      <4> QED BY <4>4
    <3> QED BY <3>1, <3>2
  <2>5. b2 \in Slot
    BY <2>1, <2>2, <2>3, <2>4 DEF Slot
  <2> HIDE DEF b2
  <2> QED BY <2>1, <2>2, <2>5, PutType, ReturnType DEF TypeOK
<1>6. ASSUME NEW t \in Txns, RecountRead(t) PROVE TypeOK'
  <2> DEFINE c == Head(todo[t])
             d == c.qty - OnHand(t, c.slot)
             c2 == [c EXCEPT !.kind = "adjust", !.qty = d]
  <2>1. /\ pc[t] = "call"
        /\ todo[t] # << >>
        /\ todo' = [todo EXCEPT ![t] = <<c2>> \o Tail(@)]
    BY <1>6 DEF RecountRead, Calls
  <2>2. c \in Call /\ c.slot \in Slots /\ c.qty \in Int /\ Tail(todo[t]) \in Seq(Call)
    BY <2>1, HeadType DEF Call
  <2>3. d \in Int
    BY <2>2, OnHandType
  <2>4. c2 \in Call
    BY <2>2, <2>3 DEF Call, Kinds
  <2>5. <<c2>> \o Tail(todo[t]) \in Seq(Call)
    BY <2>2, <2>4
  <2> HIDE DEF c2
  <2> QED BY <1>6, <2>1, <2>5 DEF RecountRead, TypeOK
<1>7. ASSUME NEW t \in Txns, OutboundWrite(t) PROVE TypeOK'
  <2> DEFINE c == Head(todo[t])
             b == View(t, c.slot)
  <2>1. /\ todo[t] # << >>
        /\ b.qty >= c.qty
        /\ Put(t, c.slot, Posted(b, c, -c.qty))
        /\ Return(t)
    BY <1>7 DEF OutboundWrite, Calls
  <2>2. c \in Call /\ c.slot \in Slots /\ c.qty \in Int
    BY <2>1, HeadType DEF Call
  <2>3. b \in Slot /\ b.qty \in Nat
    BY <2>2, ViewType DEF Slot
  <2>4. Posted(b, c, -c.qty) \in Slot
    BY <2>1, <2>2, <2>3, PostedType
  <2> QED BY <2>1, <2>2, <2>4, PutType, ReturnType DEF TypeOK
<1>8. ASSUME NEW t \in Txns, InboundOperationWrite(t) PROVE TypeOK'
  <2> DEFINE c == Head(todo[t])
             b == View(t, c.slot)
  <2>1. /\ todo[t] # << >>
        /\ c.kind = "inbound_op"
        /\ Put(t, c.slot, Posted(b, c, c.qty))
        /\ Return(t)
    BY <1>8 DEF InboundOperationWrite, Calls
  <2>2. c \in Call /\ c.slot \in Slots /\ c.qty \in Int /\ c.qty >= 0
    <3>1. c \in Call
      BY <2>1, HeadType
    <3> HIDE DEF c
    <3> QED BY <3>1, <2>1 DEF Call
  <2>3. b \in Slot /\ b.qty \in Nat
    BY <2>2, ViewType DEF Slot
  <2>4. Posted(b, c, c.qty) \in Slot
    BY <2>1, <2>2, <2>3, PostedType
  <2> QED BY <2>1, <2>2, <2>4, PutType, ReturnType DEF TypeOK
<1>9. ASSUME NEW t \in Txns, Reject(t) \/ DeadlockAbort(t) \/ Fail(t) PROVE TypeOK'
  BY <1>9, RollbackType DEF Reject, DeadlockAbort, Fail
<1>10. ASSUME NEW t \in Txns, Commit(t) PROVE TypeOK'
  <2>1. book' \in [Slots -> Slot]
    BY <1>10, ViewType DEF Commit
  <2> QED BY <1>10, <2>1, ReleaseType DEF Commit
<1> QED BY <1>1, <1>2, <1>2b, <1>3, <1>4, <1>5, <1>6, <1>7, <1>8, <1>9, <1>10
        DEF Next, Step

(* No interleaving of requests makes a balance or an after_qty negative or *)
(* leaves an attempt at the write half of an adjust with nothing to write. *)
THEOREM TypeCorrect == Spec => []TypeOK
<1> QED BY InitType, StepType, PTL DEF Spec

-----------------------------------------------------------------------------
(* The books agree.  The invariant says, beyond the two tables agreeing in *)
(* every committed state, that they agree in every working copy too, and   *)
(* that the idempotency lookup made before the lock is still right under   *)
(* the lock.  The second is where attempts sharing a key could break it:   *)
(* the key of an adjust is its attempt's own, or no other attempt that     *)
(* takes it is past the lock of their document.  The keys of the plain     *)
(* INSERTs are asked for under the slot's lock, so attempts may share them. *)

(* A continuation of a continuation is one.                                *)
LEMMA ContinuesTrans ==
  ASSUME NEW x \in Slot, NEW y \in Slot, NEW z \in Slot,
         Continues(x, y), Continues(y, z)
  PROVE  Continues(x, z)
<1>1. x.rows \in Seq(Row) /\ y.rows \in Seq(Row) /\ z.rows \in Seq(Row)
  BY DEF Slot
<1> QED BY <1>1 DEF Continues

(* A slot continues itself.                                                *)
LEMMA ContinuesRefl ==
  ASSUME NEW x \in Slot
  PROVE  Continues(x, x)
<1>1. x.rows \in Seq(Row)
  BY DEF Slot
<1> QED BY <1>1 DEF Continues

(* The later calls of a request take keys of the request, as the first does. *)
LEMMA TailTargets ==
  ASSUME NEW q \in Seq(Call), q # << >>
  PROVE  /\ Targets(Tail(q)) \subseteq Targets(q)
         /\ <<Head(q).slot, Head(q).key>> \in Targets(q)
<1>1. \A n \in DOMAIN Tail(q) : n + 1 \in DOMAIN q /\ Tail(q)[n] = q[n + 1]
  OBVIOUS
<1>2. 1 \in DOMAIN q /\ Head(q) = q[1]
  OBVIOUS
<1> QED BY <1>1, <1>2 DEF Targets

(* The same of the keys it adjusts.                                        *)
LEMMA TailAdjusts ==
  ASSUME NEW q \in Seq(Call), q # << >>
  PROVE  /\ AdjustTargets(Tail(q)) \subseteq AdjustTargets(q)
         /\ Adjusts(Head(q)) => <<Head(q).slot, Head(q).key>> \in AdjustTargets(q)
<1>1. \A n \in DOMAIN Tail(q) : n + 1 \in DOMAIN q /\ Tail(q)[n] = q[n + 1]
  OBVIOUS
<1>2. 1 \in DOMAIN q /\ Head(q) = q[1]
  OBVIOUS
<1> QED BY <1>1, <1>2 DEF AdjustTargets

(* The targets after a recount has become an adjust of the same slot and   *)
(* key.                                                                    *)
LEMMA RecountTargets ==
  ASSUME NEW q \in Seq(Call), q # << >>, NEW c2 \in Call, Adjusts(Head(q)),
         c2.slot = Head(q).slot, c2.key = Head(q).key
  PROVE  /\ Targets(<<c2>> \o Tail(q)) \subseteq Targets(q)
         /\ AdjustTargets(<<c2>> \o Tail(q)) \subseteq AdjustTargets(q)
<1>1. PICK u : u = <<c2>> \o Tail(q)
  OBVIOUS
<1>2. Tail(q) \in Seq(Call)
  OBVIOUS
<1>3. \A n \in DOMAIN u : u[n] = c2 \/ \E m \in DOMAIN Tail(q) : u[n] = Tail(q)[m]
  BY <1>1, <1>2
<1>4. /\ Targets(Tail(q)) \subseteq Targets(q)
      /\ <<c2.slot, c2.key>> \in Targets(q)
      /\ AdjustTargets(Tail(q)) \subseteq AdjustTargets(q)
      /\ <<c2.slot, c2.key>> \in AdjustTargets(q)
  BY TailTargets, TailAdjusts
<1>5. Targets(u) \subseteq Targets(q)
  <2> SUFFICES ASSUME NEW n \in DOMAIN u PROVE <<u[n].slot, u[n].key>> \in Targets(q)
    BY DEF Targets
  <2>1. ASSUME NEW m \in DOMAIN Tail(q), u[n] = Tail(q)[m]
        PROVE  <<u[n].slot, u[n].key>> \in Targets(Tail(q))
    BY <2>1 DEF Targets
  <2> QED BY <1>3, <1>4, <2>1
<1>6. AdjustTargets(u) \subseteq AdjustTargets(q)
  <2> SUFFICES ASSUME NEW n \in DOMAIN u, Adjusts(u[n])
               PROVE  <<u[n].slot, u[n].key>> \in AdjustTargets(q)
    BY DEF AdjustTargets
  <2>1. ASSUME NEW m \in DOMAIN Tail(q), u[n] = Tail(q)[m]
        PROVE  <<u[n].slot, u[n].key>> \in AdjustTargets(Tail(q))
    BY <2>1 DEF AdjustTargets
  <2> QED BY <1>3, <1>4, <2>1
<1> QED BY <1>1, <1>5, <1>6

(* Two attempts share no key that one of them adjusts, unless their        *)
(* requests lock one document: a drawn reference is the attempt's alone.   *)
LEMMA DrawnApart ==
  ASSUME NEW t \in Txns, NEW u \in Txns, t # u,
         NEW q \in Requests, NEW r \in Requests, q.doc # r.doc \/ q.doc = NoDoc
  PROVE  AdjustTargets(Drawn(t, q.calls)) \cap Targets(Drawn(u, r.calls)) = {}
<1>1. PICK d, e : d = Drawn(t, q.calls) /\ e = Drawn(u, r.calls)
  OBVIOUS
<1> SUFFICES ASSUME NEW m \in DOMAIN d, NEW n \in DOMAIN e, Adjusts(d[m]),
                    d[m].key = e[n].key
             PROVE  FALSE
  BY <1>1 DEF AdjustTargets, Targets
<1>2. /\ m \in DOMAIN q.calls /\ d[m].kind = q.calls[m].kind
      /\ q.calls[m].key.ref \in Refs \cup {OwnRef}
      /\ q.calls[m].key.ref = OwnRef => d[m].key.ref = t
      /\ q.calls[m].key.ref # OwnRef => d[m].key = q.calls[m].key
  BY <1>1, DrawnIs
<1>3. /\ n \in DOMAIN r.calls
      /\ r.calls[n].key.ref \in Refs \cup {OwnRef}
      /\ r.calls[n].key.ref = OwnRef => e[n].key.ref = u
      /\ r.calls[n].key.ref # OwnRef => e[n].key = r.calls[n].key
  BY <1>1, DrawnIs
<1>4. t \notin Refs /\ u \notin Refs
  BY KeyAssumption
<1>5. CASE q.calls[m].key.ref = OwnRef
  <2>1. e[n].key.ref = t
    BY <1>2, <1>5
  <2> QED BY <1>3, <1>4, <2>1
<1>6. CASE q.calls[m].key.ref # OwnRef
  <2>1. e[n].key.ref \in Refs
    BY <1>2, <1>6
  <2>2. r.calls[n].key.ref # OwnRef
    BY <1>3, <1>4, <2>1
  <2>3. q.calls[m].key = r.calls[n].key /\ Adjusts(q.calls[m])
    BY <1>2, <1>3, <1>6, <2>2 DEF Adjusts
  <2>4. q.doc = r.doc /\ q.doc # NoDoc
    BY <1>2, <1>3, <1>6, <2>3, AdjustAssumption
  <2> QED BY <2>4
<1> QED BY <1>5, <1>6

(* Attempts in flight that have what they lock share no key that one of    *)
(* them adjusts.                                                           *)
LEMMA AdjustsApart ==
  ASSUME KernelInv, NEW t \in Txns, NEW u \in Txns, t # u, Started(t), Started(u)
  PROVE  AdjustTargets(req[t]) \cap Targets(req[u]) = {}
<1>1. Active(t) /\ Active(u)
  BY DEF Started, Active
<1>2. PICK q \in Requests : doc[t] = q.doc /\ req[t] = Drawn(t, q.calls)
  BY <1>1 DEF KernelInv, RequestsDrawn
<1>3. PICK r \in Requests : doc[u] = r.doc /\ req[u] = Drawn(u, r.calls)
  BY <1>1 DEF KernelInv, RequestsDrawn
<1>4. q.doc # r.doc \/ q.doc = NoDoc
  BY <1>2, <1>3 DEF KernelInv, DocumentsLocked
<1> QED BY <1>2, <1>3, <1>4, DrawnApart

(* The slot ensure_stocks_lot_slot_exists inserts is sound.                *)
LEMMA EmptySound == Sound(EmptySlot)
<1> DEFINE q == EmptySlot.rows
<1>1. q = << >> /\ EmptySlot.qty = 0
  BY DEF EmptySlot
<1>2. Len(q) = 0 /\ DOMAIN q = {}
  BY <1>1
<1> QED BY <1>1, <1>2 DEF Sound, Chained, KeysOnce, After

(* The invariant holds of the empty tables.                                *)
LEMMA InitKernel == Init => KernelInv
<1> SUFFICES ASSUME Init PROVE KernelInv
  OBVIOUS
<1>1. TypeOK
  BY InitType
<1>2. BooksAgree
  BY EmptySound DEF Init, BooksAgree
<1>3. LookupStillMisses /\ WorkSound /\ RequestsDrawn /\ DocumentsLocked
  BY TxnAssumption DEF Init, LookupStillMisses, WorkSound, RequestsDrawn, DocumentsLocked,
        Active, Started
<1>4. TodoOfRequest /\ AdjustsOfRequest
  BY DEF Init, TodoOfRequest, AdjustsOfRequest
<1> QED BY <1>1, <1>2, <1>3, <1>4 DEF KernelInv

(* A slot t sees is sound and continues the committed one.                 *)
LEMMA ViewSound ==
  ASSUME KernelInv, NEW t \in Txns, NEW s \in Slots
  PROVE  /\ Sound(View(t, s))
         /\ Continues(book[s], View(t, s))
         /\ \A k \in Keys : HasKey(View(t, s), k) =>
              HasKey(book[s], k) \/ <<s, k>> \in Targets(req[t])
<1>1. book[s] \in Slot
  BY DEF KernelInv, TypeOK
<1>2. CASE holder[s] = t
  BY <1>2 DEF KernelInv, WorkSound, View
<1>3. CASE holder[s] # t
  BY <1>1, <1>3, ContinuesRefl DEF KernelInv, BooksAgree, View
<1> QED BY <1>2, <1>3

(* A write under the lock.                                                 *)
LEMMA PutKernel ==
  ASSUME KernelInv, TypeOK', NEW t \in Txns, NEW s \in Slots, NEW b \in Slot,
         Started(t), Free(t, s), Put(t, s, b), Return(t), todo[t] # << >>,
         Sound(b), Continues(View(t, s), b),
         \A k \in Keys : HasKey(b, k) =>
            HasKey(View(t, s), k) \/ <<s, k>> \in Targets(req[t])
  PROVE  KernelInv'
<1>1. TypeOK /\ TypeOK'
  BY DEF KernelInv
<1>2. BooksAgree'
  BY DEF KernelInv, BooksAgree, Put
<1>3. \A u \in Txns : u # t => pc'[u] = pc[u] /\ todo'[u] = todo[u]
  BY <1>1 DEF Return, TypeOK
<1>4. /\ pc'[t] = "call" /\ todo'[t] = Tail(todo[t]) /\ req' = req /\ book' = book
      /\ doc' = doc /\ Active(t)
  BY <1>1 DEF Return, Put, TypeOK, Started, Active
<1>5. /\ holder'[s] = t /\ work'[t][s] = b
      /\ \A u \in Txns, r \in Slots : u # t \/ r # s =>
           /\ holder'[r] = u <=> (holder[r] = u /\ r # s)
           /\ work'[u][r] = work[u][r]
  BY <1>1, TxnAssumption DEF Put, TypeOK, Free
<1>6. LookupStillMisses'
  <2> SUFFICES ASSUME NEW u \in Txns, pc'[u] = "write"
               PROVE  ~HasKey(View(u, Head(todo[u]).slot)', Head(todo[u])'.key)
    BY DEF LookupStillMisses
  <2> DEFINE r == Head(todo[u]).slot
  <2>1. u # t /\ pc[u] = "write" /\ todo'[u] = todo[u]
    BY <1>3, <1>4
  <2>2. r \in Slots
    BY <1>1, <2>1, HeadType DEF TypeOK, Call
  <2>3. View(u, r)' = View(u, r)
    BY <1>4, <1>5, <2>1, <2>2, TxnAssumption DEF View, Free
  <2> QED BY <2>1, <2>3 DEF KernelInv, LookupStillMisses
<1>7. WorkSound'
  <2> SUFFICES ASSUME NEW u \in Txns, NEW r \in Slots, holder'[r] = u
               PROVE  /\ Active(u)'
                      /\ Sound(work'[u][r])
                      /\ Continues(book'[r], work'[u][r])
                      /\ \A k \in Keys : HasKey(work'[u][r], k) =>
                           HasKey(book'[r], k) \/ <<r, k>> \in Targets(req'[u])
    BY DEF WorkSound
  <2>1. CASE u = t /\ r = s
    <3>1. View(t, s) \in Slot /\ book[s] \in Slot
      BY <1>1, ViewType DEF TypeOK
    <3>2. Continues(book[s], b)
      BY <3>1, ViewSound, ContinuesTrans
    <3>3. \A k \in Keys : HasKey(b, k) =>
            HasKey(book[s], k) \/ <<s, k>> \in Targets(req[t])
      BY ViewSound
    <3> QED BY <2>1, <1>4, <1>5, <3>2, <3>3 DEF Active
  <2>2. CASE u # t \/ r # s
    <3>1. holder[r] = u /\ work'[u][r] = work[u][r]
      BY <2>2, <1>5
    <3>2. Active(u)'
      BY <3>1, <1>3, <1>4 DEF KernelInv, WorkSound, Active
    <3> QED BY <3>1, <3>2, <1>4 DEF KernelInv, WorkSound
  <2> QED BY <2>1, <2>2
<1>8. TodoOfRequest'
  <2> SUFFICES ASSUME NEW u \in Txns
               PROVE  Targets(todo'[u]) \subseteq Targets(req'[u])
    BY DEF TodoOfRequest
  <2>1. Targets(Tail(todo[t])) \subseteq Targets(todo[t])
    BY <1>1, TailTargets DEF TypeOK
  <2> QED BY <2>1, <1>3, <1>4 DEF KernelInv, TodoOfRequest
<1>9. AdjustsOfRequest'
  <2> SUFFICES ASSUME NEW u \in Txns
               PROVE  AdjustTargets(todo'[u]) \subseteq AdjustTargets(req'[u])
    BY DEF AdjustsOfRequest
  <2>1. AdjustTargets(Tail(todo[t])) \subseteq AdjustTargets(todo[t])
    BY <1>1, TailAdjusts DEF TypeOK
  <2> QED BY <2>1, <1>3, <1>4 DEF KernelInv, AdjustsOfRequest
<1>10. RequestsDrawn' /\ DocumentsLocked'
  BY <1>3, <1>4 DEF KernelInv, RequestsDrawn, DocumentsLocked, Active, Started
<1> QED BY <1>1, <1>2, <1>6, <1>7, <1>8, <1>9, <1>10 DEF KernelInv

(* A step of t that moves its pc and todo and writes nothing.              *)
LEMMA QuietKernel ==
  ASSUME KernelInv, TypeOK', NEW t \in Txns, UNCHANGED <<book, work, holder, doc, req>>,
         Started(t), Started(t)',
         \A u \in Txns : u # t => pc'[u] = pc[u] /\ todo'[u] = todo[u],
         Targets(todo'[t]) \subseteq Targets(todo[t]),
         AdjustTargets(todo'[t]) \subseteq AdjustTargets(todo[t]),
         pc'[t] = "write" =>
           ~HasKey(View(t, Head(todo'[t]).slot), Head(todo'[t]).key)
  PROVE  KernelInv'
<1>1. BooksAgree'
  BY DEF KernelInv, BooksAgree
<1>2. \A u \in Txns : (Active(u)' <=> Active(u)) /\ (Started(u)' <=> Started(u))
  BY DEF Active, Started
<1>3. WorkSound'
  BY <1>2 DEF KernelInv, WorkSound
<1>4. RequestsDrawn' /\ DocumentsLocked'
  BY <1>2 DEF KernelInv, RequestsDrawn, DocumentsLocked
<1>5. TodoOfRequest' /\ AdjustsOfRequest'
  BY DEF KernelInv, TodoOfRequest, AdjustsOfRequest
<1>6. LookupStillMisses'
  BY DEF KernelInv, LookupStillMisses, View
<1> QED BY <1>1, <1>3, <1>4, <1>5, <1>6 DEF KernelInv

(* t ends, and the slots it held become what it saw or stay as they were.  *)
LEMMA ReleaseKernel ==
  ASSUME KernelInv, TypeOK', NEW t \in Txns, NEW o \in {"done", "aborted"},
         Active(t), Release(t, o),
         book' = book \/ (Started(t) /\ book' = [s \in Slots |-> View(t, s)])
  PROVE  KernelInv'
<1>1. TypeOK
  BY DEF KernelInv
<1>2. /\ \A u \in Txns : u # t => pc'[u] = pc[u] /\ todo'[u] = todo[u]
      /\ ~Active(t)' /\ pc'[t] # "write" /\ todo'[t] = << >>
      /\ req' = req /\ doc' = doc /\ ~Started(t)'
  BY <1>1 DEF Release, TypeOK, Active, Started
<1>3. \A u \in Txns, s \in Slots :
        /\ holder'[s] = u <=> (u # t /\ holder[s] = u)
        /\ u # t => work'[u][s] = work[u][s]
  BY <1>1, TxnAssumption DEF Release, TypeOK
<1>4. \A s \in Slots : book'[s] = book[s] \/ (holder[s] = t /\ book'[s] = work[t][s])
  BY DEF View
<1>5. \A s \in Slots, k \in Keys : HasKey(book'[s], k) =>
        HasKey(book[s], k) \/ (Started(t) /\ <<s, k>> \in Targets(req[t]))
  BY <1>4 DEF KernelInv, WorkSound
<1>6. BooksAgree'
  BY <1>4 DEF KernelInv, BooksAgree, WorkSound
<1>7. LookupStillMisses'
  <2> SUFFICES ASSUME NEW u \in Txns, pc'[u] = "write"
               PROVE  ~HasKey(View(u, Head(todo[u]).slot)', Head(todo[u])'.key)
    BY DEF LookupStillMisses
  <2> DEFINE c == Head(todo[u])
  <2>1. /\ u # t /\ pc[u] = "write" /\ todo'[u] = todo[u] /\ todo[u] # << >>
        /\ Started(u) /\ Adjusts(c)
    BY <1>1, <1>2 DEF TypeOK, Started, Adjusts
  <2>2. c \in Call /\ c.slot \in Slots /\ c.key \in Keys
    BY <1>1, <2>1, HeadType DEF Call
  <2>3. <<c.slot, c.key>> \in AdjustTargets(req[u])
    BY <1>1, <2>1, TailAdjusts DEF TypeOK, KernelInv, AdjustsOfRequest
  <2>4. Started(t) => <<c.slot, c.key>> \notin Targets(req[t])
    BY <2>1, <2>3, AdjustsApart
  <2>5. ~HasKey(View(u, c.slot), c.key)
    BY <2>1 DEF KernelInv, LookupStillMisses
  <2>6. CASE holder[c.slot] = u
    BY <2>1, <2>2, <2>5, <2>6, <1>3 DEF View
  <2>7. CASE holder[c.slot] # u
    <3>1. ~HasKey(book[c.slot], c.key)
      BY <2>5, <2>7 DEF View
    <3>2. ~HasKey(book'[c.slot], c.key)
      BY <3>1, <2>2, <2>4, <1>5
    <3> QED BY <3>2, <2>1, <2>2, <2>7, <1>3 DEF View
  <2> QED BY <2>6, <2>7
<1>8. WorkSound'
  <2> SUFFICES ASSUME NEW u \in Txns, NEW s \in Slots, holder'[s] = u
               PROVE  /\ Active(u)'
                      /\ Sound(work'[u][s])
                      /\ Continues(book'[s], work'[u][s])
                      /\ \A k \in Keys : HasKey(work'[u][s], k) =>
                           HasKey(book'[s], k) \/ <<s, k>> \in Targets(req'[u])
    BY DEF WorkSound
  <2>1. u # t /\ holder[s] = u /\ work'[u][s] = work[u][s]
    BY <1>3
  <2>2. book'[s] = book[s]
    BY <2>1, <1>4
  <2> QED BY <2>1, <2>2, <1>2 DEF KernelInv, WorkSound, Active
<1>9. TodoOfRequest' /\ AdjustsOfRequest'
  <2>1. Targets(<< >>) = {} /\ AdjustTargets(<< >>) = {}
    BY DEF Targets, AdjustTargets
  <2> QED BY <2>1, <1>2 DEF KernelInv, TodoOfRequest, AdjustsOfRequest
<1>10. RequestsDrawn' /\ DocumentsLocked'
  BY <1>2 DEF KernelInv, RequestsDrawn, DocumentsLocked, Active, Started
<1> QED BY <1>6, <1>7, <1>8, <1>9, <1>10 DEF KernelInv

(* Only an attempt in flight is rolled back.                               *)
LEMMA RollbackActive ==
  ASSUME NEW t \in Txns, Reject(t) \/ DeadlockAbort(t) \/ Fail(t)
  PROVE  Active(t) /\ Rollback(t)
<1>1. CASE Reject(t) BY <1>1 DEF Reject, Wants, Calls, Active
<1>2. CASE DeadlockAbort(t) BY <1>2 DEF DeadlockAbort, WaitsFor, Wants, Calls, Active
<1>3. CASE Fail(t) BY <1>3 DEF Fail
<1> QED BY <1>1, <1>2, <1>3

(* Every step keeps the invariant.                                         *)
LEMMA StepKernel ==
  ASSUME KernelInv, [Next]_vars
  PROVE  KernelInv'
<1>0. TypeOK /\ TypeOK'
  BY StepType DEF KernelInv
<1>1. CASE UNCHANGED vars
  BY <1>1, <1>0 DEF vars, KernelInv, BooksAgree, LookupStillMisses, WorkSound,
        TodoOfRequest, AdjustsOfRequest, RequestsDrawn, DocumentsLocked,
        View, Active, Started
<1>2. ASSUME NEW t \in Txns, Begin(t) PROVE KernelInv'
  <2>1. PICK r, d :
          /\ r \in Requests /\ d = Drawn(t, r.calls)
          /\ doc' = [doc EXCEPT ![t] = r.doc]
          /\ req' = [req EXCEPT ![t] = d]
          /\ todo' = [todo EXCEPT ![t] = d]
          /\ pc' = [pc EXCEPT ![t] = IF r.doc = NoDoc THEN "call" ELSE "wait"]
    BY <1>2 DEF Begin
  <2>2. /\ pc[t] = "idle" /\ pc'[t] \in {"call", "wait"}
        /\ pc'[t] = "call" => r.doc = NoDoc
        /\ req'[t] = d /\ todo'[t] = d /\ doc'[t] = r.doc
        /\ \A u \in Txns : u # t =>
             pc'[u] = pc[u] /\ req'[u] = req[u] /\ todo'[u] = todo[u] /\ doc'[u] = doc[u]
        /\ book' = book /\ work' = work /\ holder' = holder
    BY <1>2, <2>1, <1>0 DEF Begin, TypeOK
  <2>3. BooksAgree'
    BY <2>2 DEF KernelInv, BooksAgree
  <2>4. LookupStillMisses'
    BY <2>2 DEF KernelInv, LookupStillMisses, View
  <2>5. WorkSound'
    BY <2>2 DEF KernelInv, WorkSound, Active
  <2>6. TodoOfRequest' /\ AdjustsOfRequest'
    BY <2>2 DEF KernelInv, TodoOfRequest, AdjustsOfRequest
  <2>7. RequestsDrawn'
    BY <2>1, <2>2 DEF KernelInv, RequestsDrawn, Active
  <2>8. DocumentsLocked'
    BY <2>1, <2>2 DEF KernelInv, DocumentsLocked, Started
  <2> QED BY <1>0, <2>3, <2>4, <2>5, <2>6, <2>7, <2>8 DEF KernelInv
<1>2b. ASSUME NEW t \in Txns, LockDocument(t) PROVE KernelInv'
  <2>1. /\ pc[t] = "wait" /\ pc'[t] = "call" /\ DocumentFree(t)
        /\ \A u \in Txns : u # t => pc'[u] = pc[u]
        /\ UNCHANGED <<book, work, holder, doc, req, todo>>
    BY <1>2b, <1>0 DEF LockDocument, TypeOK
  <2>2. BooksAgree' /\ WorkSound' /\ TodoOfRequest' /\ AdjustsOfRequest' /\ RequestsDrawn'
    BY <2>1 DEF KernelInv, BooksAgree, WorkSound, TodoOfRequest, AdjustsOfRequest,
          RequestsDrawn, Active
  <2>3. LookupStillMisses'
    BY <2>1 DEF KernelInv, LookupStillMisses, View
  <2>4. DocumentsLocked'
    BY <2>1 DEF KernelInv, DocumentsLocked, DocumentFree, Started
  <2> QED BY <1>0, <2>2, <2>3, <2>4 DEF KernelInv
<1>3. ASSUME NEW t \in Txns, AdjustHit(t) PROVE KernelInv'
  <2>1. /\ pc[t] = "call" /\ pc'[t] = "call" /\ todo[t] # << >>
        /\ todo'[t] = Tail(todo[t])
        /\ \A u \in Txns : u # t => pc'[u] = pc[u] /\ todo'[u] = todo[u]
        /\ UNCHANGED <<book, work, holder, doc, req>>
    BY <1>3, <1>0 DEF AdjustHit, Calls, Return, TypeOK
  <2>2. /\ Targets(todo'[t]) \subseteq Targets(todo[t])
        /\ AdjustTargets(todo'[t]) \subseteq AdjustTargets(todo[t])
    BY <2>1, <1>0, TailTargets, TailAdjusts DEF TypeOK
  <2> QED BY <2>1, <2>2, <1>0, QuietKernel DEF Started
<1>4. ASSUME NEW t \in Txns, AdjustMiss(t) PROVE KernelInv'
  <2>1. /\ pc[t] = "call" /\ pc'[t] = "write" /\ todo' = todo
        /\ \A u \in Txns : u # t => pc'[u] = pc[u]
        /\ UNCHANGED <<book, work, holder, doc, req>>
        /\ ~HasKey(View(t, Head(todo[t]).slot), Head(todo[t]).key)
    BY <1>4, <1>0 DEF AdjustMiss, Calls, TypeOK
  <2> QED BY <2>1, <1>0, QuietKernel DEF Started
<1>5. ASSUME NEW t \in Txns, RecountRead(t) PROVE KernelInv'
  <2>1. PICK c, c2, q :
          /\ q = todo[t] /\ c = Head(q) /\ c.kind = "recount"
          /\ c2 = [c EXCEPT !.kind = "adjust", !.qty = c.qty - OnHand(t, c.slot)]
          /\ pc[t] = "call" /\ pc' = pc /\ q # << >>
          /\ todo' = [todo EXCEPT ![t] = <<c2>> \o Tail(q)]
          /\ UNCHANGED <<book, work, holder, doc, req>>
    BY <1>5 DEF RecountRead, Calls
  <2>2. /\ q \in Seq(Call) /\ c \in Call /\ c.slot \in Slots
        /\ todo'[t] = <<c2>> \o Tail(q)
        /\ \A u \in Txns : u # t => todo'[u] = todo[u]
    BY <2>1, <1>0, HeadType DEF TypeOK, Call
  <2>3. OnHand(t, c.slot) \in Int
    BY <2>2, <1>0, OnHandType
  <2>4. PICK d \in Int : d = c.qty - OnHand(t, c.slot)
    BY <2>2, <2>3 DEF Call
  <2>5. c2 = [c EXCEPT !.kind = "adjust", !.qty = d]
    BY <2>1, <2>4
  <2>6. c2 \in Call /\ c2.slot = c.slot /\ c2.key = c.key
    BY <2>2, <2>5 DEF Call, Kinds
  <2>7. /\ Targets(<<c2>> \o Tail(q)) \subseteq Targets(q)
        /\ AdjustTargets(<<c2>> \o Tail(q)) \subseteq AdjustTargets(q)
    <3>1. Adjusts(Head(q)) /\ c2.slot = Head(q).slot /\ c2.key = Head(q).key /\ q # << >>
      BY <2>1, <2>6 DEF Adjusts
    <3> QED BY <2>2, <2>6, <3>1, RecountTargets
  <2> QED BY <2>1, <2>2, <2>7, <1>0, QuietKernel DEF Started
<1>6. ASSUME NEW t \in Txns, AdjustWrite(t) PROVE KernelInv'
  <2> DEFINE c == Head(todo[t])
             b == View(t, c.slot)
             b2 == [qty |-> b.qty + c.qty, rows |-> LedgerWrite(b, c)]
  <2>1. /\ Started(t) /\ todo[t] # << >> /\ Free(t, c.slot)
        /\ b.qty + c.qty >= 0 /\ Put(t, c.slot, b2) /\ Return(t)
        /\ ~HasKey(b, c.key)
    BY <1>6, <1>0 DEF AdjustWrite, TypeOK, Started, KernelInv, LookupStillMisses
  <2>2. c \in Call /\ c.slot \in Slots /\ c.key \in Keys /\ c.qty \in Int
    BY <2>1, <1>0, HeadType DEF Call
  <2>3. b2 = Posted(b, c, c.qty)
    BY <2>1 DEF LedgerWrite, Posted
  <2>4. <<c.slot, c.key>> \in Targets(req[t])
    BY <2>1, <1>0, TailTargets DEF TypeOK, KernelInv, TodoOfRequest
  <2>5. b \in Slot /\ Sound(b)
    BY <2>2, <1>0, ViewType, ViewSound
  <2> HIDE DEF b2, b, c
  <2>6. b2 \in Slot /\ Sound(b2) /\ Continues(b, b2)
    BY <2>1, <2>2, <2>3, <2>5, PostedType, PostedSound
  <2>7. \A k \in Keys : HasKey(b2, k) => HasKey(b, k) \/ <<c.slot, k>> \in Targets(req[t])
    BY <2>2, <2>3, <2>4, <2>5, PostedKeys
  <2> QED BY <2>1, <2>2, <2>6, <2>7, <1>0, PutKernel DEF b
<1>7. ASSUME NEW t \in Txns, OutboundWrite(t) PROVE KernelInv'
  <2> DEFINE c == Head(todo[t])
             b == View(t, c.slot)
             b2 == Posted(b, c, -c.qty)
  <2>1. /\ Started(t) /\ todo[t] # << >> /\ Free(t, c.slot)
        /\ b.qty >= c.qty /\ Put(t, c.slot, b2) /\ Return(t)
        /\ ~HasKey(b, c.key)
    BY <1>7 DEF OutboundWrite, Calls, Started
  <2>2. c \in Call /\ c.slot \in Slots /\ c.key \in Keys /\ c.qty \in Int
    BY <2>1, <1>0, HeadType DEF Call
  <2>4. <<c.slot, c.key>> \in Targets(req[t])
    BY <2>1, <1>0, TailTargets DEF TypeOK, KernelInv, TodoOfRequest
  <2>5. b \in Slot /\ b.qty \in Nat /\ Sound(b)
    BY <2>2, <1>0, ViewType, ViewSound DEF Slot
  <2> HIDE DEF b, c
  <2>6. b2 \in Slot /\ Sound(b2) /\ Continues(b, b2)
    BY <2>1, <2>2, <2>5, PostedType, PostedSound
  <2>7. \A k \in Keys : HasKey(b2, k) => HasKey(b, k) \/ <<c.slot, k>> \in Targets(req[t])
    BY <2>2, <2>4, <2>5, PostedKeys
  <2> HIDE DEF b2
  <2> QED BY <2>1, <2>2, <2>6, <2>7, <1>0, PutKernel DEF b
<1>8. ASSUME NEW t \in Txns, InboundOperationWrite(t) PROVE KernelInv'
  <2> DEFINE c == Head(todo[t])
             b == View(t, c.slot)
             b2 == Posted(b, c, c.qty)
  <2>1. /\ Started(t) /\ todo[t] # << >> /\ Free(t, c.slot)
        /\ c.kind = "inbound_op" /\ Put(t, c.slot, b2) /\ Return(t)
        /\ ~HasKey(b, c.key)
    BY <1>8 DEF InboundOperationWrite, Calls, Started
  <2>2. c \in Call
    BY <2>1, <1>0, HeadType
  <2>4. <<c.slot, c.key>> \in Targets(req[t])
    BY <2>1, <1>0, TailTargets DEF TypeOK, KernelInv, TodoOfRequest
  <2> HIDE DEF c
  <2>3. c.slot \in Slots /\ c.key \in Keys /\ c.qty \in Int /\ c.qty >= 0
    BY <2>1, <2>2 DEF Call
  <2>5. b \in Slot /\ b.qty \in Nat /\ Sound(b)
    BY <2>3, <1>0, ViewType, ViewSound DEF Slot
  <2> HIDE DEF b
  <2>6. b2 \in Slot /\ Sound(b2) /\ Continues(b, b2)
    BY <2>1, <2>2, <2>3, <2>5, PostedType, PostedSound
  <2>7. \A k \in Keys : HasKey(b2, k) => HasKey(b, k) \/ <<c.slot, k>> \in Targets(req[t])
    BY <2>2, <2>3, <2>4, <2>5, PostedKeys
  <2> HIDE DEF b2
  <2> QED BY <2>1, <2>3, <2>6, <2>7, <1>0, PutKernel DEF b
<1>9. ASSUME NEW t \in Txns, Reject(t) \/ DeadlockAbort(t) \/ Fail(t) PROVE KernelInv'
  BY <1>9, <1>0, RollbackActive, ReleaseKernel DEF Rollback
<1>10. ASSUME NEW t \in Txns, Commit(t) PROVE KernelInv'
  BY <1>10, <1>0, ReleaseKernel DEF Commit, Active, Started
<1> QED BY <1>1, <1>2, <1>2b, <1>3, <1>4, <1>5, <1>6, <1>7, <1>8, <1>9, <1>10
        DEF Next, Step

(* However attempts overlap, those at one order or document too, the       *)
(* balance of every slot is the end of its ledger chain in every committed *)
(* state, and the lookup adjust_lot_impl makes before the lock is never    *)
(* stale under it.                                                         *)
THEOREM BooksAlwaysAgree == Spec => [](BooksAgree /\ LookupStillMisses)
<1>1. Init => KernelInv
  BY InitKernel
<1>2. KernelInv /\ [Next]_vars => KernelInv'
  BY StepKernel
<1>3. KernelInv => BooksAgree /\ LookupStillMisses
  BY DEF KernelInv
<1> QED BY <1>1, <1>2, <1>3, PTL DEF Spec

(* Every step of the kernel is a step of the abstract book or leaves it.   *)
LEMMA StepPosts ==
  ASSUME KernelInv, [Next]_vars
  PROVE  [Abstract!Post]_book
<1>1. KernelInv'
  BY StepKernel
<1>2. ASSUME NEW t \in Txns, Commit(t) PROVE Abstract!Post
  <2>1. book' \in [Slots -> Slot] /\ \A s \in Slots : Sound(book'[s])
    BY <1>1 DEF KernelInv, TypeOK, BooksAgree
  <2>2. \A s \in Slots : book'[s] = View(t, s)
    BY <1>2 DEF Commit
  <2>3. \A s \in Slots : Continues(book[s], book'[s])
    BY <2>2, ViewSound
  <2> QED BY <2>1, <2>3
          DEF Abstract!Post, Abstract!Slot, Abstract!Row, Slot, Row,
              Abstract!Sound, Abstract!Chained, Abstract!KeysOnce, Abstract!After,
              Abstract!Continues, Sound, Chained, KeysOnce, After, Continues
<1>3. ASSUME NEW t \in Txns, ~Commit(t), Begin(t) \/ Step(t) \/ Fail(t)
      PROVE  book' = book
  BY <1>3 DEF Step, Begin, LockDocument, AdjustHit, AdjustMiss, AdjustWrite, RecountRead,
        OutboundWrite, InboundOperationWrite, Reject, DeadlockAbort, Fail,
        Rollback, Put
<1>4. CASE UNCHANGED vars
  BY <1>4 DEF vars
<1> QED BY <1>2, <1>3, <1>4 DEF Next

(* The kernel with its locks, transactions, failures and retries           *)
(* implements the abstract book: balances that agree with the ledger and a *)
(* ledger that is only added to, however attempts overlap.                 *)
THEOREM KernelImplementsBook == Spec => AbstractSpec
<1>1. Init => Abstract!Init
  BY DEF Init, Abstract!Init, Abstract!EmptySlot, EmptySlot
<1>2. Init => KernelInv
  BY InitKernel
<1>3. KernelInv /\ [Next]_vars => KernelInv'
  BY StepKernel
<1>4. KernelInv /\ [Next]_vars => [Abstract!Post]_book
  BY StepPosts
<1> QED BY <1>1, <1>2, <1>3, <1>4, PTL DEF Spec, AbstractSpec, Abstract!Spec

-----------------------------------------------------------------------------
(* Documents are written as a whole.                                       *)

(* A working copy has the keys of the committed slot and some of the       *)
(* request's.                                                              *)
WorkKeys ==
  \A t \in Txns, s \in Slots : holder[s] = t =>
    /\ Active(t)
    /\ \A k : HasKey(book[s], k) => HasKey(work[t][s], k)
    /\ \A k : HasKey(work[t][s], k) => HasKey(book[s], k) \/ <<s, k>> \in Targets(req[t])

(* A line an attempt has behind it is in the ledger it sees.               *)
LinesPosted ==
  \A t \in Txns : Active(t) =>
    \A n \in DOMAIN req[t] : Posts(req[t][n]) =>
      \/ HasKey(View(t, req[t][n].slot), req[t][n].key)
      \/ \E m \in DOMAIN todo[t] : todo[t][m] = req[t][n]

DocInv == TypeOK /\ TodoOfRequest /\ WorkKeys /\ LinesPosted /\ AllOrNothing

(* What is to be done is at the head of the calls or in their tail.        *)
LEMMA HeadOrTail ==
  ASSUME NEW q \in Seq(Call), q # << >>, NEW m \in DOMAIN q
  PROVE  q[m] = Head(q) \/ \E j \in DOMAIN Tail(q) : Tail(q)[j] = q[m]
<1>1. Len(q) \in Nat /\ DOMAIN q = 1..Len(q) /\ Head(q) = q[1]
  OBVIOUS
<1>2. CASE m = 1
  BY <1>1, <1>2
<1>3. CASE m # 1
  <2>1. m - 1 \in DOMAIN Tail(q) /\ Tail(q)[m - 1] = q[m]
    BY <1>1, <1>3
  <2> QED BY <2>1
<1> QED BY <1>2, <1>3

(* The keys of a slot after adjust_lot_impl has written, whether the row   *)
(* was inserted or the one that is there was patched.                      *)
LEMMA AdjustKeys ==
  ASSUME NEW b \in Slot, NEW c \in Call, NEW k, NEW x,
         x = [qty |-> b.qty + c.qty, rows |-> LedgerWrite(b, c)]
  PROVE  HasKey(x, k) <=> (HasKey(b, k) \/ k = c.key)
<1>1. CASE HasKey(b, c.key)
  <2>1. x.rows = [n \in DOMAIN b.rows |-> Patched(b.rows[n], c)]
    BY <1>1 DEF LedgerWrite
  <2>2. \A n \in DOMAIN b.rows : b.rows[n] \in Row
    BY DEF Slot
  <2>3. ASSUME NEW row \in Row PROVE Patched(row, c).key = row.key
    <3>1. [row EXCEPT !.meta = TRUE].key = row.key
      BY DEF Row
    <3> QED BY <3>1 DEF Patched
  <2>4. DOMAIN x.rows = DOMAIN b.rows /\ \A n \in DOMAIN b.rows : x.rows[n].key = b.rows[n].key
    BY <2>1, <2>2, <2>3
  <2> QED BY <1>1, <2>4 DEF HasKey
<1>2. CASE ~HasKey(b, c.key)
  <2>1. x.rows = Posted(b, c, c.qty).rows
    BY <1>2 DEF LedgerWrite
  <2>2. c.qty \in Int
    BY DEF Call
  <2>3. b.rows \in Seq(Row)
    BY DEF Slot
  <2>4. PICK row : row.key = c.key /\ x.rows = Append(b.rows, row)
    BY <2>1 DEF Posted
  <2>5. /\ DOMAIN x.rows = 1..(Len(b.rows) + 1) /\ DOMAIN b.rows = 1..Len(b.rows)
        /\ Len(b.rows) \in Nat /\ x.rows[Len(b.rows) + 1] = row
        /\ \A n \in DOMAIN b.rows : x.rows[n] = b.rows[n]
    BY <2>3, <2>4
  <2> QED BY <2>4, <2>5 DEF HasKey
<1> QED BY <1>1, <1>2

(* A step of t that moves its pc and its calls and writes nothing.         *)
LEMMA QuietDoc ==
  ASSUME DocInv, TypeOK', NEW t \in Txns, UNCHANGED <<book, work, holder, req>>,
         Active(t), Active(t)',
         \A u \in Txns : u # t => pc'[u] = pc[u] /\ todo'[u] = todo[u],
         Targets(todo'[t]) \subseteq Targets(todo[t]),
         \A m \in DOMAIN todo[t] : Posts(todo[t][m]) =>
           \/ HasKey(View(t, todo[t][m].slot), todo[t][m].key)
           \/ \E j \in DOMAIN todo'[t] : todo'[t][j] = todo[t][m]
  PROVE  DocInv'
<1>1. \A u \in Txns : Active(u)' <=> Active(u)
  BY DEF Active
<1>2. WorkKeys'
  BY <1>1 DEF DocInv, WorkKeys
<1>3. TodoOfRequest'
  BY DEF DocInv, TodoOfRequest
<1>4. AllOrNothing'
  <2>1. \A u \in Txns : pc'[u] = "done" <=> pc[u] = "done"
    BY DEF Active
  <2> QED BY <2>1 DEF DocInv, AllOrNothing
<1>5. LinesPosted'
  <2> SUFFICES ASSUME NEW u \in Txns, Active(u)
               PROVE  \A n \in DOMAIN req[u] : Posts(req[u][n]) =>
                        \/ HasKey(View(u, req[u][n].slot), req[u][n].key)
                        \/ \E m \in DOMAIN todo'[u] : todo'[u][m] = req[u][n]
    BY <1>1 DEF LinesPosted, View
  <2>1. \A n \in DOMAIN req[u] : Posts(req[u][n]) =>
          \/ HasKey(View(u, req[u][n].slot), req[u][n].key)
          \/ \E m \in DOMAIN todo[u] : todo[u][m] = req[u][n]
    BY DEF DocInv, LinesPosted
  <2> QED BY <2>1
<1> QED BY <1>2, <1>3, <1>4, <1>5 DEF DocInv

(* A write under the lock: the call's key is in the slot from here on.     *)
LEMMA PutDoc ==
  ASSUME DocInv, TypeOK', NEW t \in Txns, NEW s \in Slots, NEW b \in Slot,
         Active(t), Free(t, s), Put(t, s, b), Return(t), todo[t] # << >>,
         NEW c, c = Head(todo[t]), c.slot = s,
         \A k : HasKey(b, k) <=> (HasKey(View(t, s), k) \/ k = c.key)
  PROVE  DocInv'
<1>1. TypeOK /\ todo[t] \in Seq(Call)
  BY DEF DocInv, TypeOK
<1>2. /\ \A u \in Txns : u # t => pc'[u] = pc[u] /\ todo'[u] = todo[u]
      /\ pc'[t] = "call" /\ todo'[t] = Tail(todo[t]) /\ req' = req /\ book' = book
  BY <1>1 DEF Return, Put, TypeOK
<1>3. /\ holder'[s] = t /\ work'[t][s] = b
      /\ \A u \in Txns, r \in Slots : u # t \/ r # s =>
           /\ holder'[r] = u <=> (holder[r] = u /\ r # s)
           /\ work'[u][r] = work[u][r]
  BY <1>1, TxnAssumption DEF Put, TypeOK, Free
<1>4. \A u \in Txns : Active(u)' <=> Active(u)
  BY <1>2 DEF Active
<1>5. <<s, c.key>> \in Targets(req[t])
  BY <1>1, TailTargets DEF DocInv, TodoOfRequest
<1>6. \A k : HasKey(book[s], k) => HasKey(View(t, s), k)
  BY DEF DocInv, WorkKeys, View
<1>7. \A k : HasKey(View(t, s), k) => HasKey(book[s], k) \/ <<s, k>> \in Targets(req[t])
  BY DEF DocInv, WorkKeys, View
<1>8. WorkKeys'
  <2> SUFFICES ASSUME NEW u \in Txns, NEW r \in Slots, holder'[r] = u
               PROVE  /\ Active(u)
                      /\ \A k : HasKey(book[r], k) => HasKey(work'[u][r], k)
                      /\ \A k : HasKey(work'[u][r], k) =>
                           HasKey(book[r], k) \/ <<r, k>> \in Targets(req[u])
    BY <1>2, <1>4 DEF WorkKeys
  <2>1. CASE u = t /\ r = s
    BY <1>3, <1>5, <1>6, <1>7, <2>1
  <2>2. CASE u # t \/ r # s
    BY <1>3, <2>2 DEF DocInv, WorkKeys
  <2> QED BY <2>1, <2>2
<1>9. TodoOfRequest'
  BY <1>1, <1>2, TailTargets DEF DocInv, TodoOfRequest
<1>10. AllOrNothing'
  <2>1. \A u \in Txns : pc'[u] = "done" <=> pc[u] = "done"
    BY <1>2 DEF Active
  <2> QED BY <1>2, <2>1 DEF DocInv, AllOrNothing
<1>11. ASSUME NEW u \in Txns, NEW r \in Slots, NEW k, HasKey(View(u, r), k)
       PROVE  HasKey(View(u, r)', k)
  <2>1. CASE u = t /\ r = s
    BY <1>3, <1>11, <2>1 DEF View
  <2>2. CASE u # t /\ r = s
    <3>1. holder[r] # u /\ holder'[r] # u
      BY <1>3, <2>2, TxnAssumption DEF Free
    <3> QED BY <1>2, <1>11, <3>1 DEF View
  <2>3. CASE r # s
    BY <1>2, <1>3, <1>11, <2>3 DEF View
  <2> QED BY <2>1, <2>2, <2>3
<1>12. HasKey(View(t, s)', c.key)
  BY <1>3 DEF View
<1>13. LinesPosted'
  <2> SUFFICES ASSUME NEW u \in Txns, Active(u), NEW n \in DOMAIN req[u], Posts(req[u][n])
               PROVE  \/ HasKey(View(u, req[u][n].slot)', req[u][n].key)
                      \/ \E m \in DOMAIN todo'[u] : todo'[u][m] = req[u][n]
    BY <1>2, <1>4 DEF LinesPosted, View
  <2>2. PICK r, k : r = req[u][n].slot /\ k = req[u][n].key
    OBVIOUS
  <2>3. r \in Slots
    <3>1. req[u] \in Seq(Call)
      BY <1>1 DEF TypeOK
    <3>2. req[u][n] \in Call
      BY <3>1
    <3> QED BY <2>2, <3>2 DEF Call
  <2>4. HasKey(View(u, r), k) \/ \E m \in DOMAIN todo[u] : todo[u][m] = req[u][n]
    BY <2>2 DEF DocInv, LinesPosted
  <2>5. CASE HasKey(View(u, r), k)
    <3>1. HasKey(View(u, r)', k)
      BY <1>11, <2>3, <2>5
    <3> QED BY <1>2, <2>2, <3>1 DEF View
  <2>6. ASSUME NEW m \in DOMAIN todo[u], todo[u][m] = req[u][n]
        PROVE  \/ HasKey(View(u, req[u][n].slot)', req[u][n].key)
               \/ \E j \in DOMAIN todo'[u] : todo'[u][j] = req[u][n]
    <3>1. CASE u # t
      BY <1>2, <2>6, <3>1
    <3>2. CASE u = t
      <4>1. \/ req[u][n] = c
            \/ \E j \in DOMAIN Tail(todo[t]) : Tail(todo[t])[j] = req[u][n]
        BY <1>1, <2>6, <3>2, HeadOrTail
      <4>2. CASE req[u][n] = c
        BY <1>2, <1>12, <3>2, <4>2 DEF View
      <4> QED BY <1>2, <3>2, <4>1, <4>2
    <3> QED BY <3>1, <3>2
  <2> QED BY <2>4, <2>5, <2>6
<1> QED BY <1>8, <1>9, <1>10, <1>13 DEF DocInv

(* t ends, and the slots it held become what it saw or stay as they were.  *)
LEMMA ReleaseDoc ==
  ASSUME DocInv, TypeOK', NEW t \in Txns, NEW o \in {"done", "aborted"}, Release(t, o),
         book' = book \/ book' = [s \in Slots |-> View(t, s)],
         AllOrNothing'
  PROVE  DocInv'
<1>1. TypeOK
  BY DEF DocInv
<1>2. /\ \A u \in Txns : u # t => pc'[u] = pc[u] /\ todo'[u] = todo[u] /\ work'[u] = work[u]
      /\ pc'[t] = o /\ todo'[t] = << >> /\ req' = req
      /\ \A s \in Slots : holder'[s] = (IF holder[s] = t THEN NoTxn ELSE holder[s])
  BY <1>1 DEF Release, TypeOK
<1>3. ASSUME NEW u \in Txns, Active(u)' PROVE u # t /\ Active(u)
  BY <1>2, <1>3 DEF Active
<1>4. ASSUME NEW s \in Slots
      PROVE  /\ holder[s] # t => book'[s] = book[s]
             /\ \A k : HasKey(book[s], k) => HasKey(book'[s], k)
  BY DEF View, DocInv, WorkKeys
<1>5. ASSUME NEW u \in Txns, NEW s \in Slots, holder'[s] = u
      PROVE  /\ holder[s] = u /\ u # t /\ work'[u][s] = work[u][s] /\ book'[s] = book[s]
             /\ Active(u) /\ Active(u)'
  <2>1. holder[s] = u /\ u # t
    BY <1>2, <1>5, TxnAssumption
  <2>2. Active(u)
    BY <2>1 DEF DocInv, WorkKeys
  <2> QED BY <1>2, <1>4, <2>1, <2>2 DEF Active
<1>6. WorkKeys'
  BY <1>2, <1>5 DEF DocInv, WorkKeys
<1>7. TodoOfRequest'
  BY <1>2 DEF DocInv, TodoOfRequest, Targets
<1>8. ASSUME NEW u \in Txns, Active(u)', NEW s \in Slots, NEW k, HasKey(View(u, s), k)
      PROVE  HasKey(View(u, s)', k)
  <2>1. u # t
    BY <1>3, <1>8
  <2>2. CASE holder[s] = u
    BY <1>2, <1>8, <2>1, <2>2 DEF View
  <2>3. CASE holder[s] # u
    <3>1. holder'[s] # u
      BY <1>2, <2>3, TxnAssumption
    <3> QED BY <1>4, <1>8, <2>3, <3>1 DEF View
  <2> QED BY <2>2, <2>3
<1>9. LinesPosted'
  <2> SUFFICES ASSUME NEW u \in Txns, Active(u)'
               PROVE  \A n \in DOMAIN req[u] : Posts(req[u][n]) =>
                        \/ HasKey(View(u, req[u][n].slot)', req[u][n].key)
                        \/ \E m \in DOMAIN todo'[u] : todo'[u][m] = req[u][n]
    BY <1>2 DEF LinesPosted, View
  <2>1. u # t /\ Active(u) /\ todo'[u] = todo[u]
    BY <1>2, <1>3
  <2> SUFFICES ASSUME NEW n \in DOMAIN req[u], Posts(req[u][n]),
                      ~ \E m \in DOMAIN todo[u] : todo[u][m] = req[u][n]
               PROVE  HasKey(View(u, req[u][n].slot)', req[u][n].key)
    BY <2>1
  <2>2. PICK r, k : r = req[u][n].slot /\ k = req[u][n].key
    OBVIOUS
  <2>3. r \in Slots
    <3>1. req[u] \in Seq(Call)
      BY <1>1 DEF TypeOK
    <3>2. req[u][n] \in Call
      BY <3>1
    <3> QED BY <2>2, <3>2 DEF Call
  <2>4. HasKey(View(u, r), k)
    BY <2>1, <2>2 DEF DocInv, LinesPosted
  <2>5. HasKey(View(u, r)', k)
    BY <1>8, <2>3, <2>4
  <2> QED BY <1>2, <2>2, <2>5 DEF View
<1> QED BY <1>6, <1>7, <1>9 DEF DocInv

(* A commit brings all the lines of its request, and nothing else.         *)
LEMMA CommitDoc ==
  ASSUME DocInv, TypeOK', NEW t \in Txns, Commit(t)
  PROVE  DocInv'
<1>1. /\ Active(t) /\ todo[t] = << >> /\ book' = [s \in Slots |-> View(t, s)]
      /\ Release(t, "done")
  BY DEF Commit, Active
<1>2. /\ pc'[t] = "done" /\ req' = req
      /\ \A u \in Txns : u # t => pc'[u] = pc[u]
  BY <1>1 DEF Release, DocInv, TypeOK
<1>3. ASSUME NEW u \in Txns, NEW n \in DOMAIN req[u] PROVE req[u][n].slot \in Slots
  <2>1. req[u] \in Seq(Call)
    BY DEF DocInv, TypeOK
  <2>2. req[u][n] \in Call
    BY <2>1
  <2> QED BY <2>2 DEF Call
<1>4. \A n \in DOMAIN req[t] : Posts(req[t][n]) =>
        HasKey(book'[req[t][n].slot], req[t][n].key)
  <2>1. DOMAIN todo[t] = {}
    BY <1>1
  <2> QED BY <1>1, <1>3, <2>1 DEF DocInv, LinesPosted
<1>5. ASSUME NEW s \in Slots, NEW k
      PROVE  /\ HasKey(book[s], k) => HasKey(book'[s], k)
             /\ HasKey(book'[s], k) => HasKey(book[s], k) \/ <<s, k>> \in Targets(req[t])
  BY <1>1 DEF View, DocInv, WorkKeys
<1>6. ASSUME NEW u \in Txns, pc'[u] = "done", NEW n \in DOMAIN req[u], Posts(req[u][n])
      PROVE  HasKey(book'[req[u][n].slot], req[u][n].key)
  <2>1. CASE u = t
    BY <1>4, <1>6, <2>1
  <2>2. CASE u # t
    <3>1. HasKey(book[req[u][n].slot], req[u][n].key)
      BY <1>2, <1>6, <2>2 DEF DocInv, AllOrNothing
    <3> QED BY <1>3, <1>5, <3>1
  <2> QED BY <2>1, <2>2
<1>7. ASSUME NEW s \in Slots, NEW n \in DOMAIN book'[s].rows
      PROVE  \E u \in Txns : pc'[u] = "done" /\ <<s, book'[s].rows[n].key>> \in Targets(req[u])
  <2>1. PICK k : k = book'[s].rows[n].key
    OBVIOUS
  <2>2. HasKey(book'[s], k)
    BY <2>1 DEF HasKey
  <2>3. CASE HasKey(book[s], k)
    <3>1. PICK m \in DOMAIN book[s].rows : book[s].rows[m].key = k
      BY <2>3 DEF HasKey
    <3>2. PICK u \in Txns : pc[u] = "done" /\ <<s, k>> \in Targets(req[u])
      BY <3>1 DEF DocInv, AllOrNothing
    <3>3. u # t
      BY <1>1, <3>2 DEF Active
    <3> QED BY <1>2, <2>1, <3>2, <3>3
  <2>4. CASE ~HasKey(book[s], k)
    BY <1>2, <1>5, <2>1, <2>2, <2>4
  <2> QED BY <2>3, <2>4
<1>8. AllOrNothing'
  BY <1>2, <1>6, <1>7 DEF AllOrNothing
<1> QED BY <1>1, <1>8, ReleaseDoc

(* A rollback leaves the documents that are there.                         *)
LEMMA RollbackDoc ==
  ASSUME DocInv, TypeOK', NEW t \in Txns, Active(t), Rollback(t)
  PROVE  DocInv'
<1>1. \A u \in Txns : pc'[u] = "done" <=> pc[u] = "done"
  BY DEF Rollback, Release, Active, DocInv, TypeOK
<1>2. AllOrNothing'
  BY <1>1 DEF Rollback, Release, DocInv, AllOrNothing
<1> QED BY <1>2, ReleaseDoc DEF Rollback

(* Each step keeps the documents whole.                                    *)
LEMMA StepDoc ==
  ASSUME DocInv, [Next]_vars
  PROVE  DocInv'
<1>1. TypeOK /\ TypeOK'
  BY StepType DEF DocInv
<1>2. CASE UNCHANGED vars
  BY <1>1, <1>2 DEF vars, DocInv, TodoOfRequest, WorkKeys, LinesPosted, AllOrNothing, Active, View
<1>3. ASSUME NEW t \in Txns, Begin(t) PROVE DocInv'
  <2>1. PICK r, d :
          /\ d = Drawn(t, r.calls)
          /\ req' = [req EXCEPT ![t] = d]
          /\ todo' = [todo EXCEPT ![t] = d]
          /\ pc' = [pc EXCEPT ![t] = IF r.doc = NoDoc THEN "call" ELSE "wait"]
    BY <1>3 DEF Begin
  <2>2. /\ pc[t] = "idle" /\ pc'[t] \in {"call", "wait"} /\ req'[t] = d /\ todo'[t] = d
        /\ \A u \in Txns : u # t => pc'[u] = pc[u] /\ todo'[u] = todo[u] /\ req'[u] = req[u]
        /\ UNCHANGED <<book, work, holder>>
    BY <1>1, <1>3, <2>1 DEF Begin, TypeOK
  <2>3. ~Active(t) /\ \A u \in Txns : u # t => (Active(u)' <=> Active(u))
    BY <2>2 DEF Active
  <2>4. WorkKeys'
    BY <2>2, <2>3 DEF DocInv, WorkKeys
  <2>5. TodoOfRequest'
    BY <2>2 DEF DocInv, TodoOfRequest
  <2>6. AllOrNothing'
    <3>1. \A u \in Txns : /\ pc'[u] = "done" <=> pc[u] = "done"
                          /\ pc[u] = "done" => req'[u] = req[u]
      BY <2>2
    <3> QED BY <2>2, <3>1 DEF DocInv, AllOrNothing
  <2>7. LinesPosted'
    BY <2>2, <2>3 DEF DocInv, LinesPosted, View
  <2> QED BY <1>1, <2>4, <2>5, <2>6, <2>7 DEF DocInv
<1>3b. ASSUME NEW t \in Txns, LockDocument(t) PROVE DocInv'
  <2>1. /\ pc[t] = "wait" /\ pc'[t] = "call" /\ todo' = todo
        /\ \A u \in Txns : u # t => pc'[u] = pc[u]
        /\ UNCHANGED <<book, work, holder, req>>
    BY <1>1, <1>3b DEF LockDocument, TypeOK
  <2>2. Active(t) /\ Active(t)'
    BY <2>1 DEF Active
  <2> QED BY <1>1, <2>1, <2>2, QuietDoc
<1>4. ASSUME NEW t \in Txns, AdjustHit(t) PROVE DocInv'
  <2> DEFINE c == Head(todo[t])
  <2>1. /\ todo[t] # << >> /\ todo[t] \in Seq(Call) /\ pc[t] = "call"
        /\ c.kind = "adjust" /\ (IsNoop(c) \/ HasKey(View(t, c.slot), c.key))
        /\ UNCHANGED <<book, work, holder, req>>
    BY <1>1, <1>4 DEF AdjustHit, Calls, TypeOK
  <2>2. /\ pc'[t] = "call" /\ todo'[t] = Tail(todo[t])
        /\ \A u \in Txns : u # t => pc'[u] = pc[u] /\ todo'[u] = todo[u]
    BY <1>1, <1>4 DEF AdjustHit, Return, TypeOK
  <2>3. Targets(todo'[t]) \subseteq Targets(todo[t])
    BY <2>1, <2>2, TailTargets
  <2>4. Posts(c) => HasKey(View(t, c.slot), c.key)
    BY <2>1 DEF Posts
  <2>5. \A m \in DOMAIN todo[t] :
          todo[t][m] = c \/ \E j \in DOMAIN todo'[t] : todo'[t][j] = todo[t][m]
    BY <2>1, <2>2, HeadOrTail
  <2> HIDE DEF c
  <2>6. Active(t) /\ Active(t)'
    BY <2>1, <2>2 DEF Active
  <2> QED BY <1>1, <2>1, <2>2, <2>3, <2>4, <2>5, <2>6, QuietDoc
<1>5. ASSUME NEW t \in Txns, AdjustMiss(t) PROVE DocInv'
  <2>1. /\ pc[t] = "call" /\ pc'[t] = "write" /\ todo' = todo
        /\ \A u \in Txns : u # t => pc'[u] = pc[u]
        /\ UNCHANGED <<book, work, holder, req>>
    BY <1>1, <1>5 DEF AdjustMiss, Calls, TypeOK
  <2>2. Active(t) /\ Active(t)'
    BY <2>1 DEF Active
  <2> QED BY <1>1, <2>1, <2>2, QuietDoc
<1>6. ASSUME NEW t \in Txns, RecountRead(t) PROVE DocInv'
  <2>1. PICK c, c2 :
          /\ c = Head(todo[t]) /\ c.kind = "recount" /\ todo[t] # << >> /\ pc[t] = "call"
          /\ c2 = [c EXCEPT !.kind = "adjust", !.qty = c.qty - OnHand(t, c.slot)]
          /\ todo' = [todo EXCEPT ![t] = <<c2>> \o Tail(@)]
          /\ UNCHANGED <<book, work, holder, pc, req>>
    BY <1>6 DEF RecountRead, Calls
  <2>2. todo[t] \in Seq(Call) /\ c \in Call /\ Tail(todo[t]) \in Seq(Call)
    BY <1>1, <2>1, HeadType DEF TypeOK
  <2>3. c2.slot = c.slot /\ c2.key = c.key
    BY <2>1, <2>2 DEF Call
  <2>4. /\ todo'[t] = <<c2>> \o Tail(todo[t])
        /\ \A u \in Txns : u # t => todo'[u] = todo[u]
    BY <1>1, <2>1 DEF TypeOK
  <2>5. /\ DOMAIN todo'[t] = 1..(Len(Tail(todo[t])) + 1) /\ todo'[t][1] = c2
        /\ \A j \in DOMAIN Tail(todo[t]) : todo'[t][j + 1] = Tail(todo[t])[j]
        /\ DOMAIN Tail(todo[t]) = 1..Len(Tail(todo[t])) /\ Len(Tail(todo[t])) \in Nat
    BY <2>2, <2>4
  <2>6. Targets(todo'[t]) \subseteq Targets(todo[t])
    <3>1. /\ Targets(Tail(todo[t])) \subseteq Targets(todo[t])
          /\ <<c.slot, c.key>> \in Targets(todo[t])
      BY <2>1, <2>2, TailTargets
    <3> SUFFICES ASSUME NEW n \in DOMAIN todo'[t]
                 PROVE  <<todo'[t][n].slot, todo'[t][n].key>> \in Targets(todo[t])
      BY DEF Targets
    <3>2. CASE n = 1
      BY <2>3, <2>5, <3>1, <3>2
    <3>3. CASE n # 1
      <4>1. n - 1 \in DOMAIN Tail(todo[t]) /\ todo'[t][n] = Tail(todo[t])[n - 1]
        BY <2>5, <3>3
      <4>2. <<todo'[t][n].slot, todo'[t][n].key>> \in Targets(Tail(todo[t]))
        BY <4>1 DEF Targets
      <4> QED BY <3>1, <4>2
    <3> QED BY <3>2, <3>3
  <2>7. \A m \in DOMAIN todo[t] : Posts(todo[t][m]) =>
          \E j \in DOMAIN todo'[t] : todo'[t][j] = todo[t][m]
    <3> SUFFICES ASSUME NEW m \in DOMAIN todo[t], Posts(todo[t][m])
                 PROVE  \E j \in DOMAIN todo'[t] : todo'[t][j] = todo[t][m]
      OBVIOUS
    <3>1. todo[t][m] # c
      BY <2>1 DEF Posts
    <3>2. PICK j \in DOMAIN Tail(todo[t]) : Tail(todo[t])[j] = todo[t][m]
      BY <2>1, <2>2, <3>1, HeadOrTail
    <3>3. j + 1 \in DOMAIN todo'[t] /\ todo'[t][j + 1] = todo[t][m]
      BY <2>5, <3>2
    <3> QED BY <3>3
  <2>8. Active(t) /\ Active(t)'
    BY <2>1 DEF Active
  <2> QED BY <1>1, <2>1, <2>4, <2>6, <2>7, <2>8, QuietDoc
<1>7. ASSUME NEW t \in Txns, NEW c, c = Head(todo[t]), todo[t] # << >>, Active(t),
             NEW b \in Slot, Free(t, c.slot), Put(t, c.slot, b), Return(t),
             \A k : HasKey(b, k) <=> (HasKey(View(t, c.slot), k) \/ k = c.key)
      PROVE  DocInv'
  <2>1. c.slot \in Slots
    BY <1>1, <1>7, HeadType DEF Call
  <2> QED BY <1>1, <1>7, <2>1, PutDoc
<1>8. ASSUME NEW t \in Txns, AdjustWrite(t) PROVE DocInv'
  <2>1. PICK c, b, x :
          /\ c = Head(todo[t]) /\ b = View(t, c.slot)
          /\ x = [qty |-> b.qty + c.qty, rows |-> LedgerWrite(b, c)]
          /\ pc[t] = "write" /\ Free(t, c.slot) /\ Put(t, c.slot, x) /\ Return(t)
          /\ b.qty + c.qty >= 0
    BY <1>8 DEF AdjustWrite
  <2>2. todo[t] # << >> /\ Active(t)
    BY <1>1, <2>1 DEF TypeOK, Active
  <2>3. c \in Call /\ c.slot \in Slots /\ b \in Slot
    BY <1>1, <2>1, <2>2, HeadType, ViewType DEF Call
  <2>4. \A k : HasKey(x, k) <=> (HasKey(b, k) \/ k = c.key)
    BY <2>1, <2>3, AdjustKeys
  <2>5. x \in Slot
    <3>1. work'[t][c.slot] = x
      BY <1>1, <2>1, <2>3 DEF Put, TypeOK
    <3> QED BY <1>1, <2>3, <3>1 DEF TypeOK
  <2> QED BY <1>7, <2>1, <2>2, <2>4, <2>5
<1>9. ASSUME NEW t \in Txns, NEW c, c = Head(todo[t]), Calls(t, {"outbound", "inbound_op"}),
             NEW d \in Int, View(t, c.slot).qty + d >= 0, Free(t, c.slot),
             Put(t, c.slot, Posted(View(t, c.slot), c, d)), Return(t)
      PROVE  DocInv'
  <2>1. todo[t] # << >> /\ Active(t)
    BY <1>9 DEF Calls, Active
  <2>2. c \in Call /\ c.slot \in Slots
    BY <1>1, <1>9, <2>1, HeadType DEF Call
  <2>3. PICK b \in Slot : b = View(t, c.slot)
    BY <1>1, <2>2, ViewType
  <2>4. PICK x : x = Posted(b, c, d)
    OBVIOUS
  <2>5. x \in Slot
    BY <1>9, <2>2, <2>3, <2>4, PostedType
  <2>6. \A k : HasKey(x, k) <=> (HasKey(b, k) \/ k = c.key)
    BY <2>2, <2>3, <2>4, PostedKeys
  <2> QED BY <1>7, <1>9, <2>1, <2>3, <2>4, <2>5, <2>6
<1>10. ASSUME NEW t \in Txns, OutboundWrite(t) PROVE DocInv'
  <2>1. PICK c : c = Head(todo[t])
    OBVIOUS
  <2>2. c \in Call /\ c.slot \in Slots /\ c.qty \in Int
    BY <1>1, <1>10, <2>1, HeadType DEF OutboundWrite, Calls, Call
  <2>3. View(t, c.slot).qty \in Nat
    BY <1>1, <2>2, ViewType DEF Slot
  <2>4. View(t, c.slot).qty >= c.qty
    BY <1>10, <2>1 DEF OutboundWrite
  <2>5. -c.qty \in Int /\ View(t, c.slot).qty + (-c.qty) >= 0
    BY <2>2, <2>3, <2>4
  <2> QED BY <1>9, <1>10, <2>1, <2>5 DEF OutboundWrite, Calls
<1>11. ASSUME NEW t \in Txns, InboundOperationWrite(t) PROVE DocInv'
  <2>1. PICK c : c = Head(todo[t])
    OBVIOUS
  <2>2. c \in Call /\ c.slot \in Slots /\ c.qty \in Int /\ c.qty >= 0
    BY <1>1, <1>11, <2>1, HeadType DEF InboundOperationWrite, Calls, Call
  <2>3. View(t, c.slot).qty \in Nat
    BY <1>1, <2>2, ViewType DEF Slot
  <2>4. View(t, c.slot).qty + c.qty >= 0
    BY <2>2, <2>3
  <2> QED BY <1>9, <1>11, <2>1, <2>2, <2>4 DEF InboundOperationWrite, Calls
<1>12. ASSUME NEW t \in Txns, Reject(t) \/ DeadlockAbort(t) \/ Fail(t) PROVE DocInv'
  BY <1>1, <1>12, RollbackActive, RollbackDoc
<1>13. ASSUME NEW t \in Txns, Commit(t) PROVE DocInv'
  BY <1>1, <1>13, CommitDoc
<1> QED BY <1>2, <1>3, <1>3b, <1>4, <1>5, <1>6, <1>8, <1>10, <1>11, <1>12, <1>13 DEF Next, Step

(* The empty ledger has no documents.                                      *)
LEMMA InitDoc == Init => DocInv
<1> SUFFICES ASSUME Init PROVE DocInv
  OBVIOUS
<1>1. TypeOK
  BY InitType
<1>2. \A s \in Slots : \A k : ~HasKey(book[s], k)
  BY DEF Init, EmptySlot, HasKey
<1>3. AllOrNothing
  BY <1>2 DEF Init, AllOrNothing, EmptySlot
<1>4. TodoOfRequest /\ WorkKeys /\ LinesPosted
  BY TxnAssumption DEF Init, TodoOfRequest, WorkKeys, LinesPosted, Active
<1> QED BY <1>1, <1>3, <1>4 DEF DocInv

(* The ledger holds the committed requests, each with all of its lines,    *)
(* and nothing of any other, whatever was refused, failed or retried in    *)
(* between, and however attempts overlap.                                  *)
THEOREM DocumentsAreWhole == Spec => []AllOrNothing
<1>1. Init => DocInv
  BY InitDoc
<1>2. DocInv /\ [Next]_vars => DocInv'
  BY StepDoc
<1>3. DocInv => AllOrNothing
  BY DEF DocInv
<1> QED BY <1>1, <1>2, <1>3, PTL DEF Spec
=============================================================================
