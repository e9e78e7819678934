--------------------------- MODULE PeripheryProofs --------------------------
(***************************************************************************)
(* The components around the stock: the handoff to Logistics and the       *)
(* shipping records, the users, the projection of PMS's master data, the   *)
(* import of projected orders, and the projection it reads them from.      *)
(***************************************************************************)
EXTENDS ShippingRecords, AdminUsers, ItemProjection, OrderImport, OrderProjection, SumProofs,
        SequenceTheorems

USE HandoffAssumption

HandoffInv == TypeOK /\ StatusesAgree

(* Nothing is handed over at the start.                                    *)
LEMMA InitHandoff == Init => HandoffInv
BY DEF Init, HandoffInv, TypeOK, StatusesAgree, NoRecord, Record, Imported

(* A completing submit.                                                    *)
LEMMA UpsertKeeps ==
  ASSUME NEW d \in Docs, NEW ev \in Nat \ {0}, HandoffInv, Upsert(d, ev)
  PROVE  HandoffInv'
BY DEF HandoffInv, TypeOK, StatusesAgree, Upsert, Upserted, Record, Imported

(* A reported import.                                                      *)
LEMMA ImportSuccessKeeps ==
  ASSUME NEW d \in Docs, NEW id \in RequestIds, HandoffInv, ImportSuccess(d, id)
  PROVE  HandoffInv'
BY DEF HandoffInv, TypeOK, StatusesAgree, ImportSuccess, Record, Imported,
       Exists, NoRecord

(* A reported failure.                                                     *)
LEMMA ImportFailureKeeps ==
  ASSUME NEW d \in Docs, HandoffInv, ImportFailure(d)
  PROVE  HandoffInv'
BY DEF HandoffInv, TypeOK, StatusesAgree, ImportFailure, Record, Imported,
       Exists, NoRecord

(* Reported parcels.                                                       *)
LEMMA ShippingResultsKeeps ==
  ASSUME NEW d \in Docs, NEW id \in RequestIds \cup {None},
         NEW pkgs \in (SUBSET Packages) \ {{}},
         HandoffInv, ShippingResults(d, id, pkgs)
  PROVE  HandoffInv'
<1>1. handoff[d] \in Record /\ handoff[d].id \in RequestIds
  BY DEF HandoffInv, TypeOK, StatusesAgree, ShippingResults, Record
<1>2. Coalesce(id, handoff[d].id) = handoff[d].id
  BY <1>1 DEF ShippingResults, SameRequest, Coalesce
<1>3. TypeOK'
  <2>1. [exp |-> handoff[d].exp, log |-> "COMPLETED",
         id |-> handoff[d].id, ev |-> handoff[d].ev] \in Record
    BY <1>1 DEF Record, Imported
  <2>2. handoff' \in [Docs -> Record]
    BY <1>2, <2>1 DEF HandoffInv, TypeOK, ShippingResults
  <2>3. parcels \in [Docs -> SUBSET Packages] /\ pkgs \in SUBSET Packages
    BY DEF HandoffInv, TypeOK
  <2>4. parcels[d] \cup pkgs \in SUBSET Packages
    BY <2>3
  <2>5. parcels' = [parcels EXCEPT ![d] = parcels[d] \cup pkgs]
    BY DEF ShippingResults
  <2>6. parcels' \in [Docs -> SUBSET Packages]
    BY <2>3, <2>4, <2>5
  <2> QED BY <2>2, <2>6 DEF TypeOK
<1>4. parcels'[d] # {}
  <2>1. parcels'[d] = parcels[d] \cup pkgs
    BY DEF HandoffInv, TypeOK, ShippingResults
  <2>2. pkgs # {}
    OBVIOUS
  <2> QED BY <2>1, <2>2
<1>5. ASSUME NEW e \in Docs, e # d
      PROVE  handoff'[e] = handoff[e] /\ parcels'[e] = parcels[e]
  BY <1>5 DEF HandoffInv, TypeOK, ShippingResults
<1>6. /\ handoff'[d].exp = "EXPORTED" /\ handoff'[d].log = "COMPLETED"
      /\ handoff'[d].id = handoff[d].id
  BY <1>1, <1>2 DEF HandoffInv, TypeOK, ShippingResults
<1>7. StatusesAgree'
  BY <1>1, <1>4, <1>5, <1>6 DEF HandoffInv, StatusesAgree, Imported
<1> QED BY <1>3, <1>7 DEF HandoffInv

(* Every step keeps the invariant.                                         *)
LEMMA StepHandoff == HandoffInv /\ [Next]_handoffVars => HandoffInv'
<1> SUFFICES ASSUME HandoffInv, [Next]_handoffVars PROVE HandoffInv'
  OBVIOUS
<1>1. CASE UNCHANGED handoffVars
  BY <1>1 DEF HandoffInv, TypeOK, StatusesAgree, handoffVars
<1>2. ASSUME NEW d \in Docs, Callback(d) PROVE HandoffInv'
  BY <1>2, ImportSuccessKeeps, ImportFailureKeeps, ShippingResultsKeeps
     DEF Callback
<1>3. ASSUME NEW d \in Docs, NEW ev \in Nat \ {0}, Upsert(d, ev) PROVE HandoffInv'
  BY <1>3, UpsertKeeps
<1> QED BY <1>1, <1>2, <1>3 DEF Next

(* However callbacks are repeated, delayed and reordered, the two status   *)
(* columns, the request identity and the parcels of a row agree.           *)
THEOREM HandoffStatusesAgree == Spec => [](TypeOK /\ StatusesAgree)
<1>1. HandoffInv => TypeOK /\ StatusesAgree
  BY DEF HandoffInv
<1> QED BY <1>1, InitHandoff, StepHandoff, PTL DEF Spec

(* One step never takes back what Logistics has imported.                  *)
LEMMA StepFinal ==
  ASSUME HandoffInv, [Next]_handoffVars
  PROVE  \A d \in Docs : handoff[d].exp = "EXPORTED" =>
           /\ handoff'[d].exp = "EXPORTED"
           /\ handoff'[d].id = handoff[d].id
           /\ handoff[d].log = "COMPLETED" => handoff'[d].log = "COMPLETED"
<1> DEFINE Keeps(d) ==
      handoff[d].exp = "EXPORTED" =>
        /\ handoff'[d].exp = "EXPORTED"
        /\ handoff'[d].id = handoff[d].id
        /\ handoff[d].log = "COMPLETED" => handoff'[d].log = "COMPLETED"
<1> SUFFICES ASSUME NEW d \in Docs PROVE Keeps(d)
  OBVIOUS
<1>1. CASE UNCHANGED handoffVars
  BY <1>1 DEF handoffVars
<1>2. ASSUME NEW e \in Docs, NEW id \in RequestIds, ImportSuccess(e, id)
      PROVE  Keeps(d)
  BY <1>2 DEF ImportSuccess, HandoffInv, TypeOK, Record
<1>3. ASSUME NEW e \in Docs, ImportFailure(e) PROVE Keeps(d)
  BY <1>3 DEF ImportFailure, HandoffInv, TypeOK, Record
<1>4. ASSUME NEW e \in Docs, NEW id \in RequestIds \cup {None},
             NEW pkgs \in (SUBSET Packages) \ {{}}, ShippingResults(e, id, pkgs)
      PROVE  Keeps(d)
  <2>1. handoff[e].id \in RequestIds
    BY <1>4 DEF ShippingResults, HandoffInv, TypeOK, StatusesAgree, Record
  <2> QED BY <1>4, <2>1 DEF ShippingResults, SameRequest, Coalesce, HandoffInv,
                           TypeOK, Record
<1>5. ASSUME NEW e \in Docs, NEW ev \in Nat \ {0}, Upsert(e, ev) PROVE Keeps(d)
  BY <1>5 DEF Upsert, Upserted, HandoffInv, TypeOK, Record, Imported
<1> HIDE DEF Keeps
<1> QED BY <1>1, <1>2, <1>3, <1>4, <1>5 DEF Next, Callback

(* An import that was reported is final, whatever the later callbacks and  *)
(* completions say.                                                        *)
THEOREM ImportStaysFinal == Spec => ImportIsFinal
<1>1. HandoffInv /\ [Next]_handoffVars =>
        [\A d \in Docs : handoff[d].exp = "EXPORTED" =>
           /\ handoff'[d].exp = "EXPORTED"
           /\ handoff'[d].id = handoff[d].id
           /\ handoff[d].log = "COMPLETED" => handoff'[d].log = "COMPLETED"]_handoffVars
  BY StepFinal
<1> QED BY <1>1, InitHandoff, StepHandoff, PTL DEF Spec, ImportIsFinal

HIDE HandoffAssumption

-----------------------------------------------------------------------------
(* The sync of shipping facts.  What a sync in flight has read: its page   *)
(* has every fact between the id it was given and the page's last one, if  *)
(* it has no filter.                                                       *)
PageInv(s) ==
  /\ s.after \in Nat /\ s.page \subseteq DOMAIN facts
  /\ \A i \in s.page : i > s.after
  /\ s.only = Docs =>
       \A n \in s.page : \A i \in DOMAIN facts : i > s.after /\ i <= n => i \in s.page

SyncRow == [pc : {"idle", "fetch", "apply"}, after : Nat, only : SUBSET Docs, page : SUBSET Nat]

Covered ==
  jumped \/ \A x \in Package \ late :
              \A i \in 1..cursor : facts[i] = x => record[x] >= i

RecordsInv ==
  /\ RecordsTypeOK /\ Covered
  /\ factSync \in [FactSyncs -> SyncRow]
  /\ \A p \in FactSyncs : PageInv(factSync[p])

(* At the start there are no facts, and nothing is read.                   *)
LEMMA RecordsInvInit ==
  ASSUME AllInit
  PROVE  RecordsInv
<1>1. facts = << >> /\ Len(facts) = 0 /\ DOMAIN facts = {} /\ facts \in Seq(Package)
  BY DEF AllInit
<1>2. NoSync \in SyncRow /\ NoSync.page = {} /\ NoSync.after = 0
  BY DEF NoSync, SyncRow
<1>3. \A p \in FactSyncs : factSync[p] = NoSync
  BY DEF AllInit
<1>4. PageInv(NoSync)
  BY <1>2 DEF PageInv
<1>5. RecordsTypeOK
  <2>1. record \in [Package -> -1..Len(facts)] /\ cursor \in 0..Len(facts)
    BY <1>1 DEF AllInit
  <2>2. Len(facts) <= MaxFacts
    BY <1>1, RecordsAssumption
  <2>3. late \subseteq Package /\ jumped \in BOOLEAN
    BY DEF AllInit
  <2>4. \A p \in FactSyncs : factSync[p].page \subseteq DOMAIN facts
    BY <1>2, <1>3
  <2> QED BY <1>1, <2>1, <2>2, <2>3, <2>4 DEF RecordsTypeOK
<1>6. Covered
  BY DEF AllInit, Covered
<1>7. factSync \in [FactSyncs -> SyncRow]
  BY <1>2 DEF AllInit
<1> QED BY <1>3, <1>4, <1>5, <1>6, <1>7 DEF RecordsInv

(* A step of a sync that writes nothing.                                   *)
LEMMA SyncBecomes ==
  ASSUME RecordsInv, NEW p \in FactSyncs, NEW s \in SyncRow, PageInv(s),
         factSync' = [factSync EXCEPT ![p] = s],
         UNCHANGED <<facts, record, cursor, jumped, late>>
  PROVE  RecordsInv'
<1>1. /\ factSync' \in [FactSyncs -> SyncRow]
      /\ \A q \in FactSyncs : factSync'[q] = IF q = p THEN s ELSE factSync[q]
  BY DEF RecordsInv
<1>2. \A z : PageInv(z) => PageInv(z)'
  BY DEF PageInv
<1>3. \A q \in FactSyncs : PageInv(factSync[q])'
  <2> TAKE q \in FactSyncs
  <2>1. PICK z : z = factSync'[q]
    OBVIOUS
  <2>2. PageInv(z)
    BY <1>1, <2>1 DEF RecordsInv
  <2> QED BY <1>2, <2>1, <2>2 DEF PageInv
<1>4. \A q \in FactSyncs : factSync'[q].page \subseteq DOMAIN facts
  BY <1>3 DEF PageInv
<1>5. RecordsTypeOK' /\ Covered'
  BY <1>4 DEF RecordsInv, RecordsTypeOK, Covered
<1> QED BY <1>1, <1>3, <1>5 DEF RecordsInv

(* The facts are a sequence, the cursor a position in it.                  *)
LEMMA FactsAre ==
  ASSUME RecordsInv
  PROVE  /\ facts \in Seq(Package) /\ Len(facts) \in Nat /\ DOMAIN facts = 1..Len(facts)
         /\ cursor \in 0..Len(facts) /\ cursor \in Nat
         /\ DOMAIN facts \in SUBSET Nat
         /\ \A S : S \subseteq DOMAIN facts => S \in SUBSET Nat /\ IsFiniteSet(S)
<1>1. facts \in Seq(Package) /\ cursor \in 0..Len(facts)
  BY DEF RecordsInv, RecordsTypeOK
<1>2. Len(facts) \in Nat /\ DOMAIN facts = 1..Len(facts)
  BY <1>1
<1>3. IsFiniteSet(DOMAIN facts)
  BY <1>2, FS_Interval
<1>4. ASSUME NEW S, S \subseteq DOMAIN facts PROVE S \in SUBSET Nat /\ IsFiniteSet(S)
  BY <1>2, <1>3, <1>4, FS_Subset
<1> QED BY <1>1, <1>2, <1>4

(* A sync begins behind the cursor, or behind an id that is given.         *)
LEMMA RecLoadCursor ==
  ASSUME RecordsInv, NEW p \in FactSyncs, NEW after \in 0..Len(facts), NEW only \in SUBSET Docs,
         LoadCursor(p, after, only)
  PROVE  RecordsInv'
<1>1. PICK s : s = [pc |-> "fetch", after |-> after, only |-> only, page |-> {}]
  OBVIOUS
<1>2. s \in SyncRow /\ s.page = {} /\ s.after = after
  BY <1>1, FactsAre DEF SyncRow
<1>3. PageInv(s)
  BY <1>2, FactsAre DEF PageInv
<1>4. factSync' = [factSync EXCEPT ![p] = s] /\ UNCHANGED <<facts, record, cursor, jumped, late>>
  BY <1>1 DEF LoadCursor
<1> QED BY <1>2, <1>3, <1>4, SyncBecomes

(* A sync that fails leaves nothing.                                       *)
LEMMA RecSyncFail ==
  ASSUME RecordsInv, NEW p \in FactSyncs, SyncFail(p)
  PROVE  RecordsInv'
<1>1. PICK s : s = NoSync
  OBVIOUS
<1>2. s \in SyncRow /\ s.page = {} /\ s.after = 0
  BY <1>1 DEF SyncRow, NoSync
<1>3. PageInv(s)
  BY <1>2 DEF PageInv
<1>4. factSync' = [factSync EXCEPT ![p] = s] /\ UNCHANGED <<facts, record, cursor, jumped, late>>
  BY <1>1 DEF SyncFail
<1> QED BY <1>2, <1>3, <1>4, SyncBecomes

(* The first ids of a set that a page has room for: it passes none over.   *)
LEMMA PageFirst ==
  ASSUME NEW S \in SUBSET Nat, IsFiniteSet(S),
         NEW page, page = {i \in S : Cardinality({j \in S : j < i}) < PageLimit}
  PROVE  \A n \in page : \A i \in S : i <= n => i \in page
<1>0. PICK k \in Nat : k = PageLimit
  BY RecordsAssumption
<1> SUFFICES ASSUME NEW n \in page, NEW i \in S, i <= n PROVE i \in page
  OBVIOUS
<1> DEFINE A == {j \in S : j < i}
           B == {j \in S : j < n}
<1>1. n \in Nat /\ i \in Nat /\ Cardinality(B) < k
  BY <1>0
<1>2. A \subseteq B /\ B \subseteq S
  <2>1. \A j \in S : j < i => j < n
    <3> TAKE j \in S
    <3>1. j \in Nat
      OBVIOUS
    <3> QED BY <1>1, <3>1
  <2> QED BY <2>1
<1>3. IsFiniteSet(B)
  BY <1>2, FS_Subset
<1>4. IsFiniteSet(A) /\ Cardinality(A) <= Cardinality(B)
  BY <1>2, <1>3, FS_Subset
<1>5. Cardinality(A) \in Nat /\ Cardinality(B) \in Nat
  BY <1>3, <1>4, FS_CardinalityType
<1>6. Cardinality(A) < k
  BY <1>1, <1>4, <1>5
<1> QED BY <1>0, <1>6

(* The page that is read has no gaps.                                      *)
LEMMA RecFetchFacts ==
  ASSUME RecordsInv, NEW p \in FactSyncs, FetchFacts(p)
  PROVE  RecordsInv'
<1> DEFINE s0 == factSync[p]
           page == FactsAfter(s0.after, s0.only)
           next == {i \in DOMAIN facts : i > s0.after /\ facts[i][1] \in s0.only}
<1>1. PICK s : s = [s0 EXCEPT !.pc = "apply", !.page = page]
  OBVIOUS
<1>2. s0 \in SyncRow /\ s0.after \in Nat /\ s0.only \in SUBSET Docs
  BY DEF RecordsInv, SyncRow
<1>3. page = {i \in next : Cardinality({j \in next : j < i}) < PageLimit}
  BY DEF FactsAfter
<1>4. page \subseteq next /\ next \subseteq DOMAIN facts
  BY <1>3
<1>5. next \in SUBSET Nat /\ IsFiniteSet(next)
  BY <1>4, FactsAre
<1> HIDE DEF page
<1>6. \A n \in page : \A i \in next : i <= n => i \in page
  <2>1. PICK S, pg : S = next /\ pg = page
    OBVIOUS
  <2>2. S \in SUBSET Nat /\ IsFiniteSet(S)
    BY <1>5, <2>1
  <2>3. pg = {i \in S : Cardinality({j \in S : j < i}) < PageLimit}
    BY <1>3, <2>1
  <2>4. \A n \in pg : \A i \in S : i <= n => i \in pg
    BY <2>2, <2>3, PageFirst
  <2> HIDE DEF next
  <2> QED BY <2>1, <2>4
<1>7. s \in SyncRow /\ s.page = page /\ s.after = s0.after /\ s.only = s0.only
  BY <1>1, <1>2, <1>4, FactsAre DEF SyncRow
<1>8. PageInv(s)
  <2>1. \A i \in DOMAIN facts : facts[i][1] \in Docs
    BY FactsAre DEF Package
  <2>2. s.only = Docs => \A i \in DOMAIN facts : i > s.after => i \in next
    BY <1>7, <2>1
  <2> QED BY <1>2, <1>4, <1>6, <1>7, <2>2 DEF PageInv
<1>9. factSync' = [factSync EXCEPT ![p] = s]
  <2>1. factSync' = [factSync EXCEPT ![p].pc = "apply", ![p].page = page]
    BY DEF FetchFacts, page
  <2> QED BY <1>1, <2>1
<1>10. UNCHANGED <<facts, record, cursor, jumped, late>>
  BY DEF FetchFacts
<1> HIDE DEF s0
<1> QED BY <1>7, <1>8, <1>9, <1>10, SyncBecomes

(* A new fact is behind every page that was read, and behind the cursor.   *)
LEMMA RecAddFact ==
  ASSUME RecordsInv, NEW x \in Package, AddFact(x)
  PROVE  RecordsInv'
<1>1. /\ facts' = Append(facts, x) /\ Len(facts) < MaxFacts
      /\ UNCHANGED <<record, cursor, factSync, jumped, late>>
  BY DEF AddFact
<1>2. /\ facts' \in Seq(Package) /\ Len(facts') = Len(facts) + 1
      /\ DOMAIN facts' = 1..(Len(facts) + 1)
      /\ \A i \in DOMAIN facts : facts'[i] = facts[i]
  BY <1>1, FactsAre
<1>3. DOMAIN facts \subseteq DOMAIN facts'
  BY <1>2, FactsAre
<1>4. RecordsTypeOK'
  <2>1. record' \in [Package -> -1..Len(facts')] /\ cursor' \in 0..Len(facts')
    BY <1>1, <1>2, FactsAre DEF RecordsInv, RecordsTypeOK
  <2>2. Len(facts') <= MaxFacts
    BY <1>1, <1>2, FactsAre, RecordsAssumption
  <2> QED BY <1>1, <1>2, <1>3, <2>1, <2>2 DEF RecordsInv, RecordsTypeOK
<1>5. Covered'
  BY <1>1, <1>2, FactsAre DEF RecordsInv, Covered
<1>6. ASSUME NEW s \in SyncRow, PageInv(s) PROVE PageInv(s)'
  <2>1. ASSUME s.only = Docs, NEW n \in s.page, NEW i \in DOMAIN facts', i > s.after, i <= n
        PROVE  i \in s.page
    <3>1. n \in DOMAIN facts
      BY <1>6 DEF PageInv
    <3>2. i \in DOMAIN facts
      BY <1>2, <2>1, <3>1, FactsAre
    <3> QED BY <1>6, <2>1, <3>2 DEF PageInv
  <2> QED BY <1>3, <1>6, <2>1 DEF PageInv
<1>7. \A q \in FactSyncs : PageInv(factSync[q])'
  <2> TAKE q \in FactSyncs
  <2>1. PICK z \in SyncRow : z = factSync[q]
    BY DEF RecordsInv
  <2>2. PageInv(z)'
    BY <1>6, <2>1 DEF RecordsInv
  <2> QED BY <1>1, <2>1, <2>2 DEF PageInv
<1> QED BY <1>1, <1>4, <1>5, <1>7 DEF RecordsInv

(* A page is upserted.                                                     *)
LEMMA RecApply ==
  ASSUME RecordsInv, NEW p \in FactSyncs, Apply(p)
  PROVE  RecordsInv'
<1> DEFINE page == factSync[p].page
           At(x) == {i \in page : facts[i] = x}
<1>1. /\ record' = [x \in Package |-> IF At(x) = {} THEN record[x] ELSE Max(At(x))]
      /\ cursor' = IF page = {} THEN cursor ELSE Max(page)
      /\ jumped' = (jumped
           \/ (page # {} /\ (factSync[p].after # cursor \/ factSync[p].only # Docs)))
      /\ late' = {x \in late : At(x) = {}}
      /\ factSync' = [factSync EXCEPT ![p] = NoSync] /\ facts' = facts
  BY DEF Apply, NextCursor
<1>2. page \subseteq DOMAIN facts /\ PageInv(factSync[p])
  BY DEF RecordsInv, RecordsTypeOK
<1>3. page # {} => Max(page) \in page /\ \A n \in page : Max(page) >= n
  BY <1>2, FactsAre, MaxIs
<1>4. \A x : At(x) # {} => Max(At(x)) \in At(x) /\ \A n \in At(x) : Max(At(x)) >= n
  <2> TAKE x
  <2>1. At(x) \in SUBSET Nat /\ IsFiniteSet(At(x))
    <3>1. At(x) \subseteq DOMAIN facts
      BY <1>2
    <3> QED BY <3>1, FactsAre
  <2> HIDE DEF At
  <2> QED BY <2>1, MaxIs
<1>5. \A x : At(x) \subseteq page /\ \A i \in page : facts[i] = x => i \in At(x)
  OBVIOUS
<1>6. record \in [Package -> -1..Len(facts)]
  BY DEF RecordsInv, RecordsTypeOK
<1> HIDE DEF At, page
<1>7. record' \in [Package -> -1..Len(facts)]
  <2>1. \A x : At(x) # {} => Max(At(x)) \in -1..Len(facts)
    BY <1>2, <1>4, <1>5, FactsAre
  <2> QED BY <1>1, <1>6, <2>1
<1>8. cursor' \in 0..Len(facts)
  BY <1>1, <1>2, <1>3, FactsAre
<1>9. NoSync \in SyncRow /\ NoSync.page = {} /\ NoSync.after = 0
  BY DEF SyncRow, NoSync
<1>10. /\ factSync' \in [FactSyncs -> SyncRow]
       /\ \A q \in FactSyncs : factSync'[q] = IF q = p THEN NoSync ELSE factSync[q]
  BY <1>1, <1>9 DEF RecordsInv
<1>11. \A q \in FactSyncs : PageInv(factSync[q])'
  <2> TAKE q \in FactSyncs
  <2>1. PICK z : z = factSync'[q]
    OBVIOUS
  <2>2. PageInv(NoSync)
    BY <1>9 DEF PageInv
  <2>3. PageInv(z)
    BY <1>10, <2>1, <2>2 DEF RecordsInv
  <2> QED BY <1>1, <2>1, <2>3 DEF PageInv
<1>12. RecordsTypeOK'
  <2>1. \A q \in FactSyncs : factSync'[q].page \subseteq DOMAIN facts'
    BY <1>11 DEF PageInv
  <2>2. late' \subseteq Package /\ jumped' \in BOOLEAN
    BY <1>1 DEF RecordsInv, RecordsTypeOK
  <2> QED BY <1>1, <1>7, <1>8, <2>1, <2>2 DEF RecordsInv, RecordsTypeOK
<1>13. ASSUME ~jumped', NEW x \in Package \ late', NEW i \in 1..cursor', facts[i] = x
       PROVE  record'[x] >= i
  <2>1. ~jumped /\ (page # {} => factSync[p].after = cursor /\ factSync[p].only = Docs)
    BY <1>1, <1>13
  <2>2. record'[x] = IF At(x) = {} THEN record[x] ELSE Max(At(x))
    BY <1>1
  <2>3. i \in DOMAIN facts /\ i \in Nat
    BY <1>8, FactsAre
  <2>4. CASE At(x) = {}
    <3>1. x \notin late
      BY <1>1, <2>4
    <3>2. i \notin page
      BY <1>5, <1>13, <2>4
    <3>3. i <= cursor
      <4>1. CASE page = {}
        BY <1>1, <4>1
      <4>2. CASE page # {}
        <5>1. i <= Max(page) /\ Max(page) \in page
          BY <1>1, <1>3, <4>2, <2>3, FactsAre
        <5>2. ~(i > cursor)
          BY <1>2, <2>1, <2>3, <3>2, <4>2, <5>1 DEF PageInv, page
        <5> QED BY <5>2, <2>3, FactsAre
      <4> QED BY <4>1, <4>2
    <3> QED BY <2>1, <2>2, <2>3, <2>4, <3>1, <3>3, FactsAre, <1>13 DEF RecordsInv, Covered
  <2>5. CASE At(x) # {}
    <3>1. Max(At(x)) \in page /\ \A n \in At(x) : Max(At(x)) >= n
      BY <1>4, <1>5, <2>5
    <3>2. Max(At(x)) > cursor
      BY <1>2, <2>1, <3>1 DEF PageInv, page
    <3>3. Max(At(x)) \in Nat
      BY <1>2, <3>1, FactsAre
    <3>4. CASE i <= cursor
      BY <2>2, <2>3, <2>5, <3>2, <3>3, <3>4, FactsAre
    <3>5. CASE i > cursor
      <4>1. page # {}
        BY <3>1
      <4>2. i <= Max(page) /\ Max(page) \in page
        BY <1>1, <1>3, <4>1, <2>3, FactsAre
      <4>3. i \in page
        BY <1>2, <2>1, <2>3, <3>5, <4>1, <4>2 DEF PageInv, page
      <4> QED BY <1>5, <1>13, <2>2, <2>5, <3>1, <4>3
    <3> QED BY <3>4, <3>5, <2>3, FactsAre
  <2> QED BY <2>4, <2>5
<1>14. Covered'
  BY <1>1, <1>13 DEF Covered
<1> QED BY <1>10, <1>11, <1>12, <1>14 DEF RecordsInv

(* A callback brings data of a time.                                       *)
LEMMA RecReportResults ==
  ASSUME RecordsInv, NEW d \in Docs, NEW id, NEW pkgs, NEW t \in 0..Len(facts),
         ReportResults(d, id, pkgs, t)
  PROVE  RecordsInv'
<1> DEFINE Hit(x) == x[1] = d /\ x[2] \in pkgs
<1>1. /\ record' = [x \in Package |-> IF Hit(x) THEN t ELSE record[x]]
      /\ late' = late \cup {x \in Package : Hit(x) /\ t < record[x]}
      /\ UNCHANGED <<facts, cursor, factSync, jumped>>
  BY DEF ReportResults
<1> HIDE DEF Hit
<1>2. record \in [Package -> -1..Len(facts)] /\ t \in -1..Len(facts) /\ t \in Nat
  BY FactsAre DEF RecordsInv, RecordsTypeOK
<1>3. RecordsTypeOK'
  BY <1>1, <1>2 DEF RecordsInv, RecordsTypeOK
<1>4. Covered'
  <2> SUFFICES ASSUME ~jumped, NEW x \in Package \ late', NEW i \in 1..cursor, facts[i] = x
               PROVE  record'[x] >= i
    BY <1>1 DEF Covered
  <2>1. x \notin late /\ (Hit(x) => ~(t < record[x]))
    BY <1>1
  <2>2. record[x] >= i
    BY <2>1 DEF RecordsInv, Covered
  <2>3. record[x] \in Int /\ i \in Nat
    BY <1>2, FactsAre
  <2> QED BY <1>1, <1>2, <2>1, <2>2, <2>3
<1>5. \A q \in FactSyncs : PageInv(factSync[q])'
  BY <1>1 DEF RecordsInv, PageInv
<1> QED BY <1>1, <1>3, <1>4, <1>5 DEF RecordsInv

(* Every step keeps the invariant.                                         *)
LEMMA RecordsInvStep ==
  ASSUME RecordsInv, [AllNext]_allVars
  PROVE  RecordsInv'
<1>1. ASSUME UNCHANGED recordVars PROVE RecordsInv'
  BY <1>1 DEF recordVars, RecordsInv, RecordsTypeOK, Covered, PageInv
<1>2. ASSUME NEW p \in FactSyncs, SyncStep(p) PROVE RecordsInv'
  <2>1. cursor \in 0..Len(facts)
    BY FactsAre
  <2>2. ASSUME NEW only \in {Docs} \cup {{d} : d \in Docs} PROVE only \in SUBSET Docs
    OBVIOUS
  <2> QED BY <1>2, <2>1, <2>2, RecLoadCursor, RecFetchFacts, RecApply, RecSyncFail DEF SyncStep
<1>3. CASE RecordsNext
  <2>1. ASSUME NEW d \in Docs, ImportCallback(d) PROVE RecordsInv'
    BY <1>1, <2>1 DEF ImportCallback
  <2> QED BY <1>2, <1>3, <2>1, RecAddFact, RecReportResults, Zenon DEF RecordsNext
<1>4. CASE \E d \in Docs, ev \in Nat \ {0} : Complete(d, ev)
  BY <1>1, <1>4 DEF Complete
<1>5. CASE UNCHANGED allVars
  BY <1>1, <1>5 DEF allVars
<1> QED BY <1>3, <1>4, <1>5 DEF AllNext

(* However syncs fail, overlap and repeat each other's pages, nothing      *)
(* behind the cursor is missing or older than its last fact, but for what  *)
(* CursorCovers excepts.                                                   *)
THEOREM CursorDoesCover == RecordsSpec => []CursorCovers
<1>1. AllInit => RecordsInv
  BY RecordsInvInit
<1>2. RecordsInv /\ [AllNext]_allVars => RecordsInv'
  BY RecordsInvStep
<1>3. RecordsInv => CursorCovers
  BY DEF RecordsInv, CursorCovers, Covered
<1> QED BY <1>1, <1>2, <1>3, PTL DEF RecordsSpec

(* The shipping records are a refinement of the handoff they extend: each  *)
(* step is one of the handoff's or leaves the handoff alone.               *)
THEOREM RecordsKeepHandoff == RecordsSpec => Spec
<1>1. AllInit => Init
  BY DEF AllInit
<1>2. [AllNext]_allVars => [Next]_handoffVars
  <2> SUFFICES ASSUME [AllNext]_allVars PROVE [Next]_handoffVars
    OBVIOUS
  <2>1. ASSUME NEW d \in Docs, NEW ev \in Nat \ {0}, Complete(d, ev) PROVE Next
    BY <2>1 DEF Complete, Next
  <2>2. ASSUME NEW d \in Docs, ImportCallback(d) PROVE Next
    BY <2>2 DEF ImportCallback, Next, Callback
  <2>3. ASSUME NEW d \in Docs, NEW id \in RequestIds \cup {None},
               NEW pkgs \in (SUBSET Packages) \ {{}}, NEW t \in 0..Len(facts),
               ReportResults(d, id, pkgs, t)
        PROVE  Next
    <3>1. ShippingResults(d, id, pkgs)
      BY <2>3 DEF ReportResults
    <3> QED BY <3>1, Zenon DEF Next, Callback
  <2>4. ASSUME NEW p \in FactSyncs, SyncStep(p) PROVE UNCHANGED handoffVars
    BY <2>4 DEF SyncStep, LoadCursor, FetchFacts, Apply, SyncFail
  <2>5. ASSUME NEW x \in Package, AddFact(x) PROVE UNCHANGED handoffVars
    BY <2>5 DEF AddFact
  <2>6. CASE UNCHANGED allVars
    BY <2>6 DEF allVars
  <2> QED BY <2>1, <2>2, <2>3, <2>4, <2>5, <2>6, Zenon DEF AllNext, RecordsNext
<1> QED BY <1>1, <1>2, PTL DEF RecordsSpec, Spec

-----------------------------------------------------------------------------
(* Users: the rows and the requests in flight.                             *)
UserRow == [st : Present \cup {"none", "deleted"}, perms : SUBSET Permissions]

Ats == {"idle", "read", "guard", "write", "delete", "insert"}

ReqRow == [op : Removals \cup {"idle", "create", "enable"}, at : Ats, target : Users,
           self : BOOLEAN, final : SUBSET Permissions, st : Present \cup {"none"},
           perms : SUBSET Permissions, rows : SUBSET Permissions,
           mixed : BOOLEAN, crossed : BOOLEAN]

(* Write on a page comes with read.                                        *)
Closed(perms) == \A g \in Pages : Write(g) \in perms => Read(g) \in perms

(* What a save knows of its user: the permissions of no page it keeps are  *)
(* his, and the rows it deletes are.  What was added behind its DELETE is  *)
(* another save's.                                                         *)
Fits(r) ==
  r.op = "save" =>
    /\ Closed(r.final)
    /\ r.at = "read" => r.final \cap Unmanaged = {}
    /\ r.at # "read" =>
         /\ user[r.target].st # "none"
         /\ user[r.target].st \in Present =>
              r.final \cap Unmanaged = user[r.target].perms \cap Unmanaged
    /\ r.at \in {"delete", "insert"} =>
         /\ r.rows \subseteq user[r.target].perms
         /\ Closed(user[r.target].perms \ r.rows)
         /\ ~r.mixed => user[r.target].perms \subseteq r.rows

(* Two requests in flight: their history, and the rows two saves hold.     *)
Apart(r, s) ==
  /\ r.op = "save" /\ s.op = "save" /\ r.target = s.target =>
       /\ r.mixed /\ s.mixed
       /\ r.at = "insert" /\ s.at = "insert" => r.rows \cap s.rows = {}
  /\ r.op \in Removals /\ s.op \in Removals /\ ~r.crossed =>
       ~s.crossed /\ r.target = s.target

(* The request leaves an administrator an administrator.                   *)
Leaves(r) ==
  /\ r.at = "guard" => r.st = "active" /\ ADMIN_WRITE_PERMISSION \in r.perms
  /\ r.at \in {"write", "delete", "insert"} =>
       r.op = "save" /\ ADMIN_WRITE_PERMISSION \in r.final

(* There is another administrator than t, or none in flight takes t.       *)
Kept(t) ==
  \/ \E v \in Users \ {t} : IsAdmin(v)
  \/ IsAdmin(t) /\ \A q \in Requests : req[q].op \in Removals => Leaves(req[q])

UserTypes ==
  /\ user \in [Users -> UserRow] /\ req \in [Requests -> ReqRow]
  /\ \A u \in Users : user[u].st \notin Present => user[u].perms = {}
  /\ \A p \in Requests : req[p].at \in {"delete", "insert"} => req[p].op = "save"

UsersInv ==
  /\ AdminAssumption /\ UserTypes
  /\ \A p \in Requests : Fits(req[p])
  /\ \A p, q \in Requests : p # q => Apart(req[p], req[q])
  /\ \A p \in Requests : req[p].op \in Removals /\ ~req[p].crossed => Kept(req[p].target)

-----------------------------------------------------------------------------
(* The permissions.                                                        *)
LEMMA PermissionsAre ==
  ASSUME AdminAssumption
  PROVE  /\ ADMIN_WRITE_PERMISSION \in Permissions /\ Unmanaged \subseteq Permissions
         /\ \A g \in Pages : /\ Read(g) \in Permissions /\ Write(g) \in Permissions
                             /\ Read(g) \notin Unmanaged /\ Write(g) \notin Unmanaged
         /\ \A perms \in SUBSET Permissions : Preserved(perms) \subseteq Unmanaged
         /\ \A perms \in SUBSET Permissions : Preserved(perms) = perms \cap Unmanaged
BY DEF AdminAssumption, ADMIN_WRITE_PERMISSION, Permissions, Managed, Preserved

(* What a save asks for is closed, and no permission of no page.           *)
LEMMA DesiredIs ==
  ASSUME AdminAssumption, NEW pages \in Cells
  PROVE  /\ Desired(pages) \subseteq Permissions /\ Closed(Desired(pages))
         /\ Desired(pages) \cap Unmanaged = {}
<1>1. \A x \in Desired(pages) : x \in Managed
  BY DEF Desired, Managed
<1>2. Closed(Desired(pages))
  BY DEF Desired, Closed, Read, Write
<1> QED BY <1>1, <1>2 DEF AdminAssumption, Permissions

(* Permissions of no page do not open what is closed.                      *)
LEMMA ClosedUnion ==
  ASSUME AdminAssumption, NEW A, NEW B, Closed(A), B \subseteq Unmanaged
  PROVE  Closed(A \cup B)
BY PermissionsAre DEF Closed

(* A request that is not there.                                            *)
LEMMA IdleRow ==
  ASSUME AdminAssumption
  PROVE  /\ Idle \in ReqRow /\ Idle.op = "idle" /\ Idle.at = "idle" /\ Idle.target = Root
         /\ Idle.final = {} /\ Idle.rows = {} /\ Idle.perms = {} /\ Idle.st = "none"
         /\ Idle.self = FALSE /\ Idle.mixed = FALSE /\ Idle.crossed = FALSE
BY DEF AdminAssumption, Idle, ReqRow, Removals, Ats, Present

(* What the invariant says of one request.                                 *)
LEMMA RequestRow ==
  ASSUME UsersInv, NEW p \in Requests
  PROVE  /\ req[p] \in ReqRow /\ req[p].target \in Users /\ user[req[p].target] \in UserRow
         /\ Fits(req[p])
BY DEF UsersInv, UserTypes, ReqRow

(* A step of one request that writes no user.                              *)
LEMMA Becomes ==
  ASSUME UsersInv, NEW p \in Requests, NEW r \in ReqRow, UNCHANGED user,
         req' = [req EXCEPT ![p] = r],
         Fits(r), r.at \in {"delete", "insert"} => r.op = "save",
         \/ r.op = "idle"
         \/ /\ r.op = req[p].op /\ r.target = req[p].target
            /\ r.mixed = req[p].mixed /\ r.crossed = req[p].crossed,
         \A q \in Requests \ {p} :
           req[q].op = "save" /\ req[q].target = r.target
             /\ r.op = "save" /\ r.at = "insert" /\ req[q].at = "insert"
             => r.rows \cap req[q].rows = {},
         r.op \in Removals /\ Leaves(req[p]) /\ IsAdmin(r.target) =>
           Leaves(r) \/ \E v \in Users \ {r.target} : IsAdmin(v)
  PROVE  UsersInv'
<1>1. /\ req' \in [Requests -> ReqRow] /\ req'[p] = r
      /\ \A q \in Requests \ {p} : req'[q] = req[q]
  BY DEF UsersInv, UserTypes
<1>2. /\ \A s : Fits(s) => Fits(s)'
      /\ \A s : Leaves(s)' = Leaves(s)
      /\ \A s, t : Apart(s, t)' = Apart(s, t)
      /\ \A u : IsAdmin(u)' = IsAdmin(u)
  BY DEF Fits, Leaves, Apart, IsAdmin
<1>3. AdminAssumption' /\ UserTypes'
  BY <1>1 DEF UsersInv, UserTypes, AdminAssumption, UserRow, ReqRow
<1>4. \A q \in Requests : Fits(req[q])'
  <2> TAKE q \in Requests
  <2>1. PICK s : s = req'[q]
    OBVIOUS
  <2>2. Fits(s)
    BY <1>1, <2>1 DEF UsersInv
  <2> QED BY <1>2, <2>1, <2>2 DEF Fits
<1>5. \A q \in Requests \ {p} : Apart(r, req[q]) /\ Apart(req[q], r)
  <2> TAKE q \in Requests \ {p}
  <2>1. Apart(req[p], req[q]) /\ Apart(req[q], req[p])
    BY DEF UsersInv
  <2>2. CASE r.op = "idle"
    BY <2>2 DEF Apart, Removals
  <2>3. CASE r.op # "idle"
    BY <2>1, <2>3 DEF Apart
  <2> QED BY <2>2, <2>3
<1>6. \A q, o \in Requests : q # o => Apart(req[q], req[o])'
  <2> TAKE q, o \in Requests
  <2>1. PICK s, t : s = req'[q] /\ t = req'[o]
    OBVIOUS
  <2>2. q # o => Apart(s, t)
    BY <1>1, <1>5, <2>1 DEF UsersInv
  <2> QED BY <1>2, <2>1, <2>2 DEF Apart
<1>7. \A q \in Requests : req'[q].op \in Removals /\ ~req'[q].crossed => Kept(req[q].target)'
  <2> SUFFICES ASSUME NEW q \in Requests, req'[q].op \in Removals, ~req'[q].crossed
               PROVE  Kept(req[q].target)'
    OBVIOUS
  <2>1. PICK t : t = req'[q].target
    OBVIOUS
  <2>2. req[q].op \in Removals /\ ~req[q].crossed /\ req[q].target = t
    BY <1>1, <2>1 DEF Removals
  <2>3. Kept(t)
    BY <2>2 DEF UsersInv
  <2>4. r.op \in Removals => r.target = t
    <3>1. CASE p = q
      BY <3>1, <1>1, <2>1
    <3>2. CASE p # q
      BY <3>2, <1>5, <2>2, <1>1, <2>1 DEF Apart
    <3> QED BY <3>1, <3>2
  <2>5. CASE \E v \in Users \ {t} : IsAdmin(v)
    BY <2>5, <1>2, <2>1 DEF Kept
  <2>6. CASE IsAdmin(t) /\ \A o \in Requests : req[o].op \in Removals => Leaves(req[o])
    <3>1. CASE r.op \in Removals /\ ~Leaves(r)
      <4>1. req[p].op \in Removals
        BY <3>1 DEF Removals
      <4>2. \E v \in Users \ {t} : IsAdmin(v)
        BY <4>1, <3>1, <2>6, <2>4
      <4> QED BY <4>2, <1>2, <2>1 DEF Kept
    <3>2. CASE r.op \in Removals => Leaves(r)
      <4>1. \A o \in Requests : req'[o].op \in Removals => Leaves(req[o])'
        <5> TAKE o \in Requests
        <5>1. PICK s : s = req'[o]
          OBVIOUS
        <5>2. s.op \in Removals => Leaves(s)
          BY <1>1, <5>1, <2>6, <3>2
        <5> QED BY <1>2, <5>1, <5>2 DEF Leaves
      <4> QED BY <4>1, <2>6, <1>2, <2>1 DEF Kept
    <3> QED BY <3>1, <3>2
  <2> QED BY <2>3, <2>5, <2>6 DEF Kept
<1> QED BY <1>3, <1>4, <1>6, <1>7 DEF UsersInv

(* A request that is refused leaves everything as it was.                  *)
LEMMA StepFail ==
  ASSUME UsersInv, NEW p \in Requests, Fail(p)
  PROVE  UsersInv'
<1>1. PICK r : r = Idle
  OBVIOUS
<1>2. AdminAssumption
  BY DEF UsersInv
<1>3. r \in ReqRow /\ r.op = "idle" /\ r.at = "idle"
  BY <1>1, <1>2, IdleRow
<1>4. UNCHANGED user /\ req' = [req EXCEPT ![p] = r] /\ Fits(r)
  BY <1>1, <1>3 DEF Fail, Fits
<1> QED BY <1>3, <1>4, Becomes DEF Removals

(* The target is read, and a save adds the permissions of no page it       *)
(* keeps.                                                                  *)
LEMMA StepReadTarget ==
  ASSUME UsersInv, NEW p \in Requests, ReadTarget(p)
  PROVE  UsersInv'
<1> DEFINE r0 == req[p]
           u == user[r0.target]
           f == IF r0.op = "save" THEN r0.final \cup Preserved(u.perms) ELSE r0.final
<1>1. PICK r : r = [r0 EXCEPT !.at = "guard", !.st = u.st, !.perms = u.perms, !.final = f]
  OBVIOUS
<1>2. /\ r0 \in ReqRow /\ u \in UserRow /\ Fits(r0) /\ AdminAssumption
      /\ r0.at = "read" /\ u.st \in Present
  BY RequestRow DEF ReadTarget, UsersInv
<1>3. Preserved(u.perms) \subseteq Unmanaged /\ Preserved(u.perms) = u.perms \cap Unmanaged
      /\ f \in SUBSET Permissions
  BY <1>2, PermissionsAre DEF UserRow, ReqRow
<1> HIDE DEF f
<1>4. /\ r \in ReqRow /\ r.op = r0.op /\ r.target = r0.target /\ r.mixed = r0.mixed
      /\ r.crossed = r0.crossed /\ r.at = "guard" /\ r.st = u.st /\ r.perms = u.perms
      /\ r.final = f
  BY <1>1, <1>2, <1>3 DEF ReqRow, UserRow, Ats
<1>5. UNCHANGED user /\ req' = [req EXCEPT ![p] = r]
  <2>1. f = IF r0.op = "save" THEN r0.final \cup Preserved(u.perms) ELSE r0.final
    BY DEF f
  <2>2. r = [r0 EXCEPT !.at = "guard", !.st = u.st, !.perms = u.perms,
                 !.final = IF r0.op = "save" THEN @ \cup Preserved(u.perms) ELSE @]
    BY <1>1, <2>1
  <2> QED BY <2>2 DEF ReadTarget
<1>6. Fits(r)
  <2> SUFFICES ASSUME r.op = "save" PROVE Fits(r)
    BY DEF Fits
  <2>1. Closed(r0.final) /\ r0.final \cap Unmanaged = {}
    BY <1>2, <1>4 DEF Fits
  <2>2. f = r0.final \cup Preserved(u.perms)
    BY <1>4 DEF f
  <2>3. Closed(f)
    BY <1>2, <1>3, <2>1, <2>2, ClosedUnion
  <2>4. f \cap Unmanaged = u.perms \cap Unmanaged
    BY <1>3, <2>1, <2>2
  <2>5. u.st # "none"
    BY <1>2 DEF Present
  <2> QED BY <1>4, <2>3, <2>4, <2>5 DEF Fits
<1>7. r.op \in Removals /\ IsAdmin(r.target) => Leaves(r)
  BY <1>4 DEF Leaves, IsAdmin
<1> HIDE DEF r0, u
<1> QED BY <1>4, <1>5, <1>6, <1>7, Becomes DEF r0

(* The guard lets a request through: somebody else is an administrator,    *)
(* as it sees the rows, or the request leaves its target one.              *)
LEMMA StepGuard ==
  ASSUME UsersInv, NEW p \in Requests, Guard(p)
  PROVE  UsersInv'
<1> DEFINE r0 == req[p]
<1>1. PICK r : r = [r0 EXCEPT !.at = "write"]
  OBVIOUS
<1>2. /\ r0 \in ReqRow /\ Fits(r0) /\ AdminAssumption /\ r0.at = "guard" /\ MayGoOn(r0)
  BY RequestRow DEF Guard, UsersInv
<1>4. /\ r \in ReqRow /\ r.op = r0.op /\ r.target = r0.target /\ r.mixed = r0.mixed
      /\ r.crossed = r0.crossed /\ r.at = "write" /\ r.final = r0.final
  BY <1>1, <1>2 DEF ReqRow, Ats
<1>5. UNCHANGED user /\ req' = [req EXCEPT ![p] = r]
  BY <1>1 DEF Guard, Goto
<1>6. Fits(r)
  BY <1>2, <1>4 DEF Fits
<1>7. ASSUME r.op \in Removals, Leaves(r0)
      PROVE  Leaves(r) \/ \E v \in Users \ {r.target} : IsAdmin(v)
  <2>1. r0.st = "active" /\ ADMIN_WRITE_PERMISSION \in r0.perms
    BY <1>2, <1>7 DEF Leaves
  <2>2. CASE TakesAdmin(r0)
    <3>1. Cardinality(Admins) > 1
      BY <1>2, <2>1, <2>2 DEF MayGoOn
    <3>2. CASE Admins \subseteq {r.target}
      <4>1. Cardinality(Admins) <= 1
        <5>1. IsFiniteSet({r.target}) /\ Cardinality({r.target}) = 1
          BY FS_Singleton
        <5>2. IsFiniteSet(Admins) /\ Cardinality(Admins) <= Cardinality({r.target})
          BY <3>2, <5>1, FS_Subset
        <5> QED BY <5>1, <5>2
      <4>2. Cardinality(Admins) \in Nat
        <5>1. IsFiniteSet(Admins)
          BY <3>2, FS_Singleton, FS_Subset
        <5> QED BY <5>1, FS_CardinalityType
      <4> QED BY <3>1, <4>1, <4>2
    <3>3. CASE ~(Admins \subseteq {r.target})
      BY <3>3 DEF Admins
    <3> QED BY <3>2, <3>3
  <2>3. CASE ~TakesAdmin(r0)
    <3>1. r0.op = "save" /\ ADMIN_WRITE_PERMISSION \in r0.final
      BY <2>1, <2>3, <1>4, <1>7 DEF TakesAdmin, Removals
    <3> QED BY <3>1, <1>4 DEF Leaves
  <2> QED BY <2>2, <2>3
<1> HIDE DEF r0
<1>8. r.op \in Removals /\ Leaves(r0) /\ IsAdmin(r.target) =>
           Leaves(r) \/ \E v \in Users \ {r.target} : IsAdmin(v)
  BY <1>7
<1>9. \A q \in Requests \ {p} :
        req[q].op = "save" /\ req[q].target = r.target
          /\ r.op = "save" /\ r.at = "insert" /\ req[q].at = "insert"
          => r.rows \cap req[q].rows = {}
  BY <1>4
<1>10. r.at \in {"delete", "insert"} => r.op = "save"
  BY <1>4
<1> QED BY <1>4, <1>5, <1>6, <1>8, <1>9, <1>10, Becomes DEF r0

(* A save reads the rows it will delete.                                   *)
LEMMA StepSaveBegin ==
  ASSUME UsersInv, NEW p \in Requests, SaveBegin(p)
  PROVE  UsersInv'
<1> DEFINE r0 == req[p]
           u == user[r0.target]
<1>1. PICK r : r = [r0 EXCEPT !.at = "delete", !.perms = {}, !.rows = u.perms]
  OBVIOUS
<1>2. /\ r0 \in ReqRow /\ u \in UserRow /\ Fits(r0) /\ AdminAssumption
      /\ r0.op = "save" /\ r0.at = "write" /\ u.st \in Present
  BY RequestRow DEF SaveBegin, Is, UsersInv
<1>4. /\ r \in ReqRow /\ r.op = r0.op /\ r.target = r0.target /\ r.mixed = r0.mixed
      /\ r.crossed = r0.crossed /\ r.at = "delete" /\ r.rows = u.perms
      /\ r.final = r0.final
  BY <1>1, <1>2 DEF ReqRow, UserRow, Ats
<1>5. UNCHANGED user /\ req' = [req EXCEPT ![p] = r]
  BY <1>1 DEF SaveBegin, Seen
<1>6. Fits(r)
  BY <1>2, <1>4 DEF Fits, Closed
<1>7. Leaves(r0) => Leaves(r)
  BY <1>2, <1>4 DEF Leaves
<1>8. \A q \in Requests \ {p} :
        req[q].op = "save" /\ req[q].target = r.target
          /\ r.op = "save" /\ r.at = "insert" /\ req[q].at = "insert"
          => r.rows \cap req[q].rows = {}
  BY <1>4
<1>9. r.op = "save"
  BY <1>2, <1>4
<1>10. /\ r \in ReqRow /\ r.op = req[p].op /\ r.target = req[p].target
       /\ r.mixed = req[p].mixed /\ r.crossed = req[p].crossed
  BY <1>4
<1>11. Leaves(req[p]) => Leaves(r)
  BY <1>7
<1> HIDE DEF r0, u
<1> QED BY <1>10, <1>11, <1>5, <1>6, <1>8, <1>9, Becomes

(* Its DELETE: the rows are gone for others when it commits.               *)
LEMMA StepSaveDelete ==
  ASSUME UsersInv, NEW p \in Requests, SaveDelete(p)
  PROVE  UsersInv'
<1> DEFINE r0 == req[p]
<1>1. PICK r : r = [r0 EXCEPT !.at = "insert"]
  OBVIOUS
<1>2. /\ r0 \in ReqRow /\ Fits(r0) /\ r0.op = "save" /\ r0.at = "delete"
  BY RequestRow DEF SaveDelete, Is
<1>4. /\ r \in ReqRow /\ r.op = r0.op /\ r.target = r0.target /\ r.mixed = r0.mixed
      /\ r.crossed = r0.crossed /\ r.at = "insert" /\ r.rows = r0.rows
      /\ r.final = r0.final
  BY <1>1, <1>2 DEF ReqRow, Ats
<1>5. UNCHANGED user /\ req' = [req EXCEPT ![p] = r]
  BY <1>1 DEF SaveDelete, Goto
<1>6. Fits(r)
  BY <1>2, <1>4 DEF Fits
<1>7. Leaves(r0) => Leaves(r)
  BY <1>2, <1>4 DEF Leaves
<1>8. \A q \in Requests \ {p} :
        req[q].op = "save" /\ req[q].target = r.target
          /\ r.op = "save" /\ r.at = "insert" /\ req[q].at = "insert"
          => r.rows \cap req[q].rows = {}
  BY <1>4 DEF SaveDelete, Holders, Is
<1>9. r.op = "save"
  BY <1>2, <1>4
<1>10. /\ r \in ReqRow /\ r.op = req[p].op /\ r.target = req[p].target
       /\ r.mixed = req[p].mixed /\ r.crossed = req[p].crossed
  BY <1>4
<1>11. Leaves(req[p]) => Leaves(r)
  BY <1>7
<1> HIDE DEF r0
<1> QED BY <1>10, <1>11, <1>5, <1>6, <1>8, <1>9, Becomes

(* What a request that arrives does: it is new, and marks those it meets.  *)
LEMMA RequestIs ==
  ASSUME UsersInv, NEW p \in Requests, NEW a \in Users, NEW t \in Users,
         NEW op \in Removals \cup {"create", "enable"}, NEW final \in SUBSET Permissions,
         Request(p, a, t, op, final)
  PROVE  /\ req[p].op = "idle" /\ IsAdmin(a) /\ UNCHANGED user
         /\ req' \in [Requests -> ReqRow]
         /\ req'[p].op = op /\ req'[p].target = t /\ req'[p].final = final
         /\ req'[p].at \in {"read", "write"} /\ (op # "create" => req'[p].at = "read")
         /\ \A q \in Requests \ {p} :
              /\ req'[q].op = req[q].op /\ req'[q].at = req[q].at
              /\ req'[q].target = req[q].target /\ req'[q].final = req[q].final
              /\ req'[q].st = req[q].st /\ req'[q].perms = req[q].perms
              /\ req'[q].rows = req[q].rows
              /\ req[q].mixed => req'[q].mixed
              /\ req[q].crossed => req'[q].crossed
              /\ op = "save" /\ req[q].op = "save" /\ req[q].target = t =>
                   req'[q].mixed /\ req'[p].mixed
              /\ op \in Removals /\ req[q].op \in Removals =>
                   /\ ~req'[q].crossed => req[q].target = t
                   /\ ~req'[p].crossed => req[q].target = t /\ ~req[q].crossed
              /\ req'[q].crossed => \/ req[q].crossed
                                    \/ op \in Removals /\ req[q].target # t
         /\ req'[p].crossed => \E q \in Requests \ {p} :
              /\ op \in Removals /\ req[q].op \in Removals
              /\ req[q].target # t \/ req[q].crossed
<1> DEFINE r == [Idle EXCEPT !.op = op, !.target = t, !.final = final,
                   !.self = (op = "save" /\ a = t),
                   !.at = IF op = "create" THEN "write" ELSE "read"]
           n == [r EXCEPT !.mixed   = \E o \in Requests : Mixes(r, req[o]),
                          !.crossed = \E o \in Requests : Crosses(r, req[o])]
           m(q) == [req[q] EXCEPT !.mixed   = @ \/ Mixes(r, req[q]),
                                  !.crossed = @ \/ Crosses(r, req[q])]
<1>1. /\ AdminAssumption /\ req[p] = Idle /\ IsAdmin(a) /\ UNCHANGED user
      /\ req' = [q \in Requests |-> IF q = p THEN n ELSE m(q)]
  BY DEF Request, UsersInv
<1>2. /\ r \in ReqRow /\ r.op = op /\ r.target = t /\ r.final = final
      /\ r.at \in {"read", "write"} /\ (op # "create" => r.at = "read")
      /\ r.crossed = FALSE
  BY <1>1, IdleRow DEF ReqRow, Ats
<1> HIDE DEF r
<1>3. /\ n \in ReqRow /\ n.op = op /\ n.target = t /\ n.final = final /\ n.at = r.at
      /\ n.mixed = (\E o \in Requests : Mixes(r, req[o]))
      /\ n.crossed = (\E o \in Requests : Crosses(r, req[o]))
  BY <1>2 DEF ReqRow
<1> HIDE DEF n
<1>4. ASSUME NEW q \in Requests
      PROVE  /\ m(q) \in ReqRow
             /\ m(q).op = req[q].op /\ m(q).at = req[q].at
             /\ m(q).target = req[q].target /\ m(q).final = req[q].final
             /\ m(q).st = req[q].st /\ m(q).perms = req[q].perms
             /\ m(q).rows = req[q].rows
             /\ m(q).mixed = (req[q].mixed \/ Mixes(r, req[q]))
             /\ m(q).crossed = (req[q].crossed \/ Crosses(r, req[q]))
  <2>1. req[q] \in ReqRow
    BY RequestRow
  <2>2. Mixes(r, req[q]) \in BOOLEAN /\ Crosses(r, req[q]) \in BOOLEAN
    BY <2>1 DEF Mixes, Crosses, ReqRow
  <2> QED BY <2>1, <2>2 DEF ReqRow
<1> HIDE DEF m
<1>5. /\ req'[p] = n /\ \A q \in Requests \ {p} : req'[q] = m(q)
      /\ req' \in [Requests -> ReqRow]
  BY <1>1, <1>3, <1>4
<1>6. /\ \A q \in Requests : Mixes(r, req[q]) <=>
           op = "save" /\ req[q].op = "save" /\ req[q].target = t
      /\ \A q \in Requests : Crosses(r, req[q]) <=>
           /\ op \in Removals /\ req[q].op \in Removals
           /\ req[q].target # t \/ req[q].crossed
  BY <1>2 DEF Mixes, Crosses
<1>7. req[p].op = "idle"
  BY <1>1, IdleRow
<1>8. ASSUME NEW q \in Requests \ {p}
      PROVE  /\ req'[q].op = req[q].op /\ req'[q].at = req[q].at
             /\ req'[q].target = req[q].target /\ req'[q].final = req[q].final
             /\ req'[q].st = req[q].st /\ req'[q].perms = req[q].perms
             /\ req'[q].rows = req[q].rows
             /\ req[q].mixed => req'[q].mixed
             /\ req[q].crossed => req'[q].crossed
             /\ op = "save" /\ req[q].op = "save" /\ req[q].target = t =>
                  req'[q].mixed /\ req'[p].mixed
             /\ op \in Removals /\ req[q].op \in Removals =>
                  /\ ~req'[q].crossed => req[q].target = t
                  /\ ~req'[p].crossed => req[q].target = t /\ ~req[q].crossed
             /\ req'[q].crossed => \/ req[q].crossed
                                   \/ op \in Removals /\ req[q].target # t
  <2>1. req'[q] = m(q) /\ req'[p] = n
    BY <1>5
  <2>2. /\ m(q).mixed = (req[q].mixed \/ Mixes(r, req[q]))
        /\ m(q).crossed = (req[q].crossed \/ Crosses(r, req[q]))
    BY <1>4
  <2>3. /\ Mixes(r, req[q]) => n.mixed
        /\ Crosses(r, req[q]) => n.crossed
    BY <1>3
  <2>4. /\ Mixes(r, req[q]) <=> op = "save" /\ req[q].op = "save" /\ req[q].target = t
        /\ Crosses(r, req[q]) <=>
             /\ op \in Removals /\ req[q].op \in Removals
             /\ req[q].target # t \/ req[q].crossed
    BY <1>6
  <2>5. /\ req'[q].op = req[q].op /\ req'[q].at = req[q].at
        /\ req'[q].target = req[q].target /\ req'[q].final = req[q].final
        /\ req'[q].st = req[q].st /\ req'[q].perms = req[q].perms
        /\ req'[q].rows = req[q].rows
    BY <2>1, <1>4
  <2>6. /\ req[q].mixed => req'[q].mixed
        /\ req[q].crossed => req'[q].crossed
        /\ op = "save" /\ req[q].op = "save" /\ req[q].target = t =>
             req'[q].mixed /\ req'[p].mixed
    BY <2>1, <2>2, <2>3, <2>4
  <2>7. /\ op \in Removals /\ req[q].op \in Removals =>
             /\ ~req'[q].crossed => req[q].target = t
             /\ ~req'[p].crossed => req[q].target = t /\ ~req[q].crossed
        /\ req'[q].crossed => \/ req[q].crossed
                              \/ op \in Removals /\ req[q].target # t
    BY <2>1, <2>2, <2>3, <2>4
  <2> QED BY <2>5, <2>6, <2>7
<1>9. req'[p].crossed => \E q \in Requests \ {p} :
        /\ op \in Removals /\ req[q].op \in Removals
        /\ req[q].target # t \/ req[q].crossed
  <2> SUFFICES ASSUME req'[p].crossed
               PROVE  \E q \in Requests \ {p} :
                        /\ op \in Removals /\ req[q].op \in Removals
                        /\ req[q].target # t \/ req[q].crossed
    OBVIOUS
  <2>1. PICK o \in Requests : Crosses(r, req[o])
    BY <1>3, <1>5
  <2>2. o # p
    BY <2>1, <1>6, <1>7 DEF Removals
  <2> QED BY <2>1, <2>2, <1>6
<1> QED BY <1>1, <1>2, <1>3, <1>5, <1>7, <1>8, <1>9

(* A request arrives. Those in flight for another target are crossed with  *)
(* it from here on, if both can take an administrator away.                *)
LEMMA StepRequest ==
  ASSUME UsersInv, NEW p \in Requests, NEW a \in Users, NEW t \in Users,
         NEW op \in Removals \cup {"create", "enable"}, NEW final \in SUBSET Permissions,
         Closed(final), final \cap Unmanaged = {},
         Request(p, a, t, op, final)
  PROVE  UsersInv'
<1>1. PICK new : new = req'
  OBVIOUS
<1>2. /\ req[p].op = "idle" /\ IsAdmin(a) /\ UNCHANGED user
      /\ new \in [Requests -> ReqRow]
      /\ new[p].op = op /\ new[p].target = t /\ new[p].final = final
      /\ new[p].at \in {"read", "write"} /\ (op # "create" => new[p].at = "read")
  BY <1>1, RequestIs
<1>3. ASSUME NEW q \in Requests \ {p}
      PROVE  /\ new[q].op = req[q].op /\ new[q].at = req[q].at
             /\ new[q].target = req[q].target /\ new[q].final = req[q].final
             /\ new[q].st = req[q].st /\ new[q].perms = req[q].perms
             /\ new[q].rows = req[q].rows
             /\ req[q].mixed => new[q].mixed
             /\ req[q].crossed => new[q].crossed
             /\ op = "save" /\ req[q].op = "save" /\ req[q].target = t =>
                  new[q].mixed /\ new[p].mixed
             /\ op \in Removals /\ req[q].op \in Removals =>
                  /\ ~new[q].crossed => req[q].target = t
                  /\ ~new[p].crossed => req[q].target = t /\ ~req[q].crossed
             /\ new[q].crossed => \/ req[q].crossed
                                  \/ op \in Removals /\ req[q].target # t
  BY <1>1, RequestIs
<1>31. new[p].crossed => \E q \in Requests \ {p} :
         /\ op \in Removals /\ req[q].op \in Removals
         /\ req[q].target # t \/ req[q].crossed
  BY <1>1, RequestIs
<1>4. /\ \A s : Fits(s) => Fits(s)'
      /\ \A s : Leaves(s)' = Leaves(s)
      /\ \A s, u : Apart(s, u)' = Apart(s, u)
      /\ \A u : IsAdmin(u)' = IsAdmin(u)
  BY <1>2 DEF Fits, Leaves, Apart, IsAdmin
<1>5. AdminAssumption' /\ UserTypes'
  BY <1>1, <1>2, <1>3 DEF UsersInv, UserTypes, AdminAssumption, UserRow, ReqRow
<1>6. \A q \in Requests : Fits(req[q])'
  <2> TAKE q \in Requests
  <2>1. Fits(new[q])
    <3>1. CASE q = p
      BY <3>1, <1>2 DEF Fits, Removals
    <3>2. CASE q # p
      <4>1. Fits(req[q]) /\ new[q] \in ReqRow /\ req[q] \in ReqRow
        BY <1>2 DEF UsersInv, UserTypes
      <4> QED BY <3>2, <4>1, <1>3 DEF Fits, ReqRow
    <3> QED BY <3>1, <3>2
  <2>2. PICK s : s = new[q]
    OBVIOUS
  <2> QED BY <1>1, <1>4, <2>1, <2>2 DEF Fits
<1>7. ASSUME NEW q \in Requests \ {p}
      PROVE  Apart(new[p], new[q]) /\ Apart(new[q], new[p])
  <2>1. Apart(new[p], new[q])
    <3>1. new[p].at # "insert"
      BY <1>2
    <3> QED BY <1>2, <1>3, <3>1 DEF Apart
  <2>2. Apart(new[q], new[p])
    <3>1. new[p].at # "insert"
      BY <1>2
    <3>2. ASSUME op \in Removals, req[q].op \in Removals, ~new[q].crossed
          PROVE  ~new[p].crossed /\ req[q].target = t
      <4>1. req[q].target = t /\ ~req[q].crossed
        BY <3>2, <1>3
      <4>2. \A o \in Requests \ {p} : req[o].op \in Removals =>
              req[o].target = t /\ ~req[o].crossed
        <5> TAKE o \in Requests \ {p}
        <5>1. CASE o = q
          BY <5>1, <4>1
        <5>2. CASE o # q
          <6>1. Apart(req[q], req[o])
            BY <5>2 DEF UsersInv
          <6> QED BY <6>1, <4>1, <3>2 DEF Apart
        <5> QED BY <5>1, <5>2
      <4> QED BY <4>1, <4>2, <1>31
    <3> QED BY <1>2, <1>3, <3>1, <3>2 DEF Apart
  <2> QED BY <2>1, <2>2
<1>8. ASSUME NEW q \in Requests \ {p}, NEW o \in Requests \ {p}, q # o
      PROVE  Apart(new[q], new[o])
  <2>1. Apart(req[q], req[o])
    BY <1>8 DEF UsersInv
  <2>2. CASE req[q].op = "save" /\ req[o].op = "save" /\ req[q].target = req[o].target
    BY <2>1, <2>2, <1>3 DEF Apart, Removals
  <2>3. CASE ~(req[q].op = "save" /\ req[o].op = "save" /\ req[q].target = req[o].target)
    <3>1. ~(new[q].op = "save" /\ new[o].op = "save" /\ new[q].target = new[o].target)
      BY <2>3, <1>3
    <3>2. ASSUME new[q].op \in Removals, new[o].op \in Removals, ~new[q].crossed
          PROVE  ~new[o].crossed /\ new[q].target = new[o].target
      BY <2>1, <3>2, <1>3 DEF Apart
    <3> QED BY <3>1, <3>2 DEF Apart
  <2> QED BY <2>2, <2>3
<1>9. \A q, o \in Requests : q # o => Apart(req[q], req[o])'
  <2> TAKE q, o \in Requests
  <2>1. PICK s, u : s = new[q] /\ u = new[o]
    OBVIOUS
  <2>2. q # o => Apart(s, u)
    BY <1>7, <1>8, <2>1
  <2> QED BY <1>1, <1>4, <2>1, <2>2 DEF Apart
<1>10. ASSUME NEW q \in Requests, new[q].op \in Removals, ~new[q].crossed
       PROVE  \/ \E v \in Users \ {new[q].target} : IsAdmin(v)
              \/ /\ IsAdmin(new[q].target)
                 /\ \A o \in Requests : new[o].op \in Removals => Leaves(new[o])
  <2> DEFINE k == new[q].target
  <2>1. ASSUME NEW s \in Requests \ {p}, req[s].op \in Removals, ~req[s].crossed, req[s].target = k
        PROVE  \/ \E v \in Users \ {k} : IsAdmin(v)
               \/ IsAdmin(k) /\ \A o \in Requests : new[o].op \in Removals => Leaves(new[o])
    <3>1. Kept(k)
      BY <2>1 DEF UsersInv
    <3>2. CASE \E v \in Users \ {k} : IsAdmin(v)
      BY <3>2
    <3>3. CASE IsAdmin(k) /\ \A o \in Requests : req[o].op \in Removals => Leaves(req[o])
      <4>1. Leaves(new[p]) \/ new[p].op \notin Removals
        BY <1>2 DEF Leaves, Removals
      <4>2. \A o \in Requests \ {p} : new[o].op \in Removals => Leaves(new[o])
        BY <3>3, <1>3 DEF Leaves
      <4> QED BY <3>3, <4>1, <4>2
    <3> QED BY <3>1, <3>2, <3>3 DEF Kept
  <2>2. CASE q # p
    BY <2>1, <2>2, <1>10, <1>3
  <2>3. CASE q = p
    <3>1. op \in Removals /\ k = t
      BY <2>3, <1>10, <1>2
    <3>2. CASE a # t
      BY <3>1, <3>2, <1>2
    <3>3. CASE a = t /\ \E s \in Requests \ {p} : req[s].op \in Removals
      <4>1. PICK s \in Requests \ {p} : req[s].op \in Removals
        BY <3>3
      <4>2. ~req[s].crossed /\ req[s].target = k
        BY <4>1, <3>1, <2>3, <1>10, <1>3
      <4> QED BY <4>1, <4>2, <2>1
    <3>4. CASE a = t /\ \A s \in Requests \ {p} : req[s].op \notin Removals
      <4>1. Leaves(new[p])
        BY <3>1, <1>2 DEF Leaves, Removals
      <4>2. \A o \in Requests : new[o].op \in Removals => Leaves(new[o])
        BY <3>4, <4>1, <1>3
      <4> QED BY <3>1, <3>4, <4>2, <1>2
    <3> QED BY <3>2, <3>3, <3>4
  <2> QED BY <2>2, <2>3
<1>11. ASSUME NEW q \in Requests, req'[q].op \in Removals, ~req'[q].crossed
       PROVE  Kept(req[q].target)'
  <2>1. PICK k : k = new[q].target
    OBVIOUS
  <2>2. CASE \E v \in Users \ {k} : IsAdmin(v)
    BY <2>1, <2>2, <1>1, <1>4 DEF Kept
  <2>3. CASE IsAdmin(k) /\ \A o \in Requests : new[o].op \in Removals => Leaves(new[o])
    <3>1. \A o \in Requests : req'[o].op \in Removals => Leaves(req[o])'
      <4> TAKE o \in Requests
      <4>1. PICK s : s = new[o]
        OBVIOUS
      <4>2. s.op \in Removals => Leaves(s)
        BY <2>3, <4>1
      <4> QED BY <1>1, <1>4, <4>1, <4>2 DEF Leaves
    <3> QED BY <2>1, <2>3, <3>1, <1>1, <1>4 DEF Kept
  <2> QED BY <1>1, <1>10, <1>11, <2>1, <2>2, <2>3
<1> QED BY <1>5, <1>6, <1>9, <1>11 DEF UsersInv

(* A step that writes a user ends its request; others lose the rows that   *)
(* are gone.                                                               *)
Lost(p, u, gone) ==
  /\ req' \in [Requests -> ReqRow] /\ req'[p].op = "idle" /\ req'[p].at = "idle"
  /\ \A q \in Requests \ {p} :
       /\ req'[q].op = req[q].op /\ req'[q].at = req[q].at
       /\ req'[q].target = req[q].target /\ req'[q].final = req[q].final
       /\ req'[q].st = req[q].st /\ req'[q].perms = req[q].perms
       /\ req'[q].mixed = req[q].mixed /\ req'[q].crossed = req[q].crossed
       /\ req'[q].rows = IF req[q].target = u /\ req[q].at = "delete"
                         THEN req[q].rows \ gone ELSE req[q].rows

(* What the end of a request does to the other requests: they may be       *)
(* mixed, and saves lose the rows that are gone.                           *)
LEMMA EndedLost ==
  ASSUME UsersInv, NEW p \in Requests, NEW u, NEW gone, Ended(p, u, gone)
  PROVE  Lost(p, u, gone)
<1>1. Idle \in ReqRow /\ Idle.op = "idle" /\ Idle.at = "idle"
  BY IdleRow DEF UsersInv
<1>2. ASSUME NEW q \in Requests \ {p}
      PROVE  /\ req'[q] \in ReqRow
             /\ req'[q].op = req[q].op /\ req'[q].at = req[q].at
             /\ req'[q].target = req[q].target /\ req'[q].final = req[q].final
             /\ req'[q].st = req[q].st /\ req'[q].perms = req[q].perms
             /\ req'[q].mixed = req[q].mixed /\ req'[q].crossed = req[q].crossed
             /\ req'[q].rows = IF req[q].target = u /\ req[q].at = "delete"
                               THEN req[q].rows \ gone ELSE req[q].rows
  <2>1. req[q] \in ReqRow
    BY RequestRow
  <2>2. CASE req[q].target = u /\ req[q].at = "delete"
    <3>1. req'[q] = [req[q] EXCEPT !.rows = @ \ gone]
      BY <2>2 DEF Ended
    <3> QED BY <2>1, <2>2, <3>1 DEF ReqRow
  <2>3. CASE ~(req[q].target = u /\ req[q].at = "delete")
    <3>1. req'[q] = req[q]
      BY <2>3 DEF Ended
    <3> QED BY <2>1, <2>3, <3>1
  <2> QED BY <2>2, <2>3
<1>3. req'[p] = Idle /\ req' = [q \in Requests |-> req'[q]]
  BY DEF Ended
<1>4. req' \in [Requests -> ReqRow]
  <2>1. PICK new : new = req'
    OBVIOUS
  <2>2. new = [q \in Requests |-> new[q]] /\ \A q \in Requests : new[q] \in ReqRow
    BY <1>1, <1>2, <1>3, <2>1
  <2>3. new \in [Requests -> ReqRow]
    BY <2>2
  <2> QED BY <2>1, <2>3
<1> QED BY <1>1, <1>2, <1>3, <1>4 DEF Lost

(* The end of a request that takes no rows from others.                    *)
LEMMA IdleLost ==
  ASSUME UsersInv, NEW p \in Requests, NEW u, req' = [req EXCEPT ![p] = Idle]
  PROVE  Lost(p, u, {})
<1>1. Idle \in ReqRow /\ Idle.op = "idle" /\ Idle.at = "idle"
  BY IdleRow DEF UsersInv
<1>2. req \in [Requests -> ReqRow]
  BY DEF UsersInv, UserTypes
<1>3. /\ req' \in [Requests -> ReqRow] /\ req'[p] = Idle
      /\ \A q \in Requests \ {p} : req'[q] = req[q]
  BY <1>1, <1>2
<1> QED BY <1>1, <1>3 DEF Lost

(* A request ends with a write of its target. One step for every request   *)
(* that writes: what it leaves to show are the saves of the same target.   *)
LEMMA Writes ==
  ASSUME UsersInv, NEW p \in Requests, NEW u \in Users, NEW w \in UserRow, NEW gone,
         u = req[p].target, user' = [user EXCEPT ![u] = w], Lost(p, u, gone),
         w.st \notin Present => w.perms = {},
         \A q \in Requests \ {p} :
           req[q].op = "save" /\ req[q].target = u => Fits(req[q])',
         IsAdmin(u) /\ (req[p].op \in Removals => Leaves(req[p])) => IsAdmin(u)'
  PROVE  UsersInv'
<1>1. PICK new : new = req'
  OBVIOUS
<1>2. /\ new \in [Requests -> ReqRow] /\ new[p].op = "idle" /\ new[p].at = "idle"
      /\ \A q \in Requests \ {p} :
           /\ new[q].op = req[q].op /\ new[q].at = req[q].at
           /\ new[q].target = req[q].target /\ new[q].final = req[q].final
           /\ new[q].st = req[q].st /\ new[q].perms = req[q].perms
           /\ new[q].mixed = req[q].mixed /\ new[q].crossed = req[q].crossed
           /\ req[q].at # "delete" => new[q].rows = req[q].rows
  BY <1>1 DEF Lost
<1>3. /\ \A s : Leaves(s)' = Leaves(s)
      /\ \A s, o : Apart(s, o)' = Apart(s, o)
  BY DEF Leaves, Apart
<1>4. /\ user \in [Users -> UserRow] /\ user' \in [Users -> UserRow]
      /\ user'[u] = w /\ \A v \in Users \ {u} : user'[v] = user[v]
      /\ \A v \in Users \ {u} : IsAdmin(v)' = IsAdmin(v)
  BY DEF UsersInv, UserTypes, IsAdmin
<1>5. AdminAssumption' /\ UserTypes'
  <2>1. \A q \in Requests : new[q].at \in {"delete", "insert"} => new[q].op = "save"
    BY <1>2 DEF UsersInv, UserTypes
  <2> QED BY <1>1, <1>2, <1>4, <2>1 DEF UsersInv, UserTypes, AdminAssumption, UserRow, ReqRow
<1>6. \A q \in Requests : Fits(req[q])'
  <2> TAKE q \in Requests
  <2>1. CASE q = p
    BY <2>1, <1>1, <1>2 DEF Fits
  <2>2. CASE q # p /\ req[q].op = "save" /\ req[q].target = u
    BY <2>2
  <2>3. CASE q # p /\ req[q].op # "save"
    BY <2>3, <1>1, <1>2 DEF Fits
  <2>4. CASE q # p /\ req[q].op = "save" /\ req[q].target # u
    <3>1. Fits(req[q]) /\ req[q] \in ReqRow
      BY <2>4, RequestRow
    <3>2. req'[q].rows = req[q].rows
      BY <2>4 DEF Lost
    <3>3. user'[req[q].target] = user[req[q].target]
      BY <2>4, <1>4, <3>1 DEF ReqRow
    <3>4. /\ req'[q].op = req[q].op /\ req'[q].at = req[q].at
          /\ req'[q].target = req[q].target /\ req'[q].final = req[q].final
          /\ req'[q].mixed = req[q].mixed
      BY <2>4, <1>1, <1>2
    <3> QED BY <3>1, <3>2, <3>3, <3>4 DEF Fits
  <2> QED BY <2>1, <2>2, <2>3, <2>4
<1>7. \A q, o \in Requests : q # o => Apart(req[q], req[o])'
  <2> TAKE q, o \in Requests
  <2>1. PICK s, t : s = new[q] /\ t = new[o]
    OBVIOUS
  <2>2. ASSUME q # o PROVE Apart(s, t)
    <3>1. CASE q = p \/ o = p
      BY <3>1, <1>2, <2>1 DEF Apart, Removals
    <3>2. CASE q # p /\ o # p
      <4>1. Apart(req[q], req[o])
        BY <2>2 DEF UsersInv
      <4>2. s.at = "insert" => s.rows = req[q].rows
        BY <3>2, <1>2, <2>1
      <4>3. t.at = "insert" => t.rows = req[o].rows
        BY <3>2, <1>2, <2>1
      <4>4. /\ s.op = req[q].op /\ s.at = req[q].at /\ s.target = req[q].target
            /\ s.mixed = req[q].mixed /\ s.crossed = req[q].crossed
            /\ t.op = req[o].op /\ t.at = req[o].at /\ t.target = req[o].target
            /\ t.mixed = req[o].mixed /\ t.crossed = req[o].crossed
        BY <3>2, <1>2, <2>1
      <4> QED BY <4>1, <4>2, <4>3, <4>4 DEF Apart
    <3> QED BY <3>1, <3>2
  <2> QED BY <1>1, <1>3, <2>1, <2>2 DEF Apart
<1>8. ASSUME NEW q \in Requests, req'[q].op \in Removals, ~req'[q].crossed
      PROVE  Kept(req[q].target)'
  <2>1. PICK k : k = new[q].target
    OBVIOUS
  <2>2. /\ q # p /\ req[q].op \in Removals /\ ~req[q].crossed /\ k = req[q].target
        /\ k \in Users
    <3>1. q # p
      BY <1>1, <1>2, <1>8 DEF Removals
    <3> QED BY <3>1, <1>1, <1>2, <1>8, <2>1 DEF ReqRow
  <2>3. Kept(k)
    BY <2>2 DEF UsersInv
  <2>4. req[p].op \in Removals => k = u
    <3>1. Apart(req[q], req[p])
      BY <2>2 DEF UsersInv
    <3> QED BY <3>1, <2>2 DEF Apart
  <2>5. CASE \E v \in Users \ {k} : IsAdmin(v) /\ v # u
    BY <2>5, <2>1, <1>1, <1>4 DEF Kept
  <2>6. CASE k # u /\ IsAdmin(u)
    <3>1. IsAdmin(u)'
      BY <2>4, <2>6
    <3> QED BY <3>1, <2>6, <2>1, <1>1 DEF Kept
  <2>7. CASE IsAdmin(k) /\ \A o \in Requests : req[o].op \in Removals => Leaves(req[o])
    <3>1. IsAdmin(k)'
      BY <2>7, <1>4, <2>2
    <3>2. \A o \in Requests : req'[o].op \in Removals => Leaves(req[o])'
      <4> TAKE o \in Requests
      <4>1. PICK s : s = new[o]
        OBVIOUS
      <4>2. s.op \in Removals => Leaves(s)
        <5>1. CASE o = p
          BY <5>1, <4>1, <1>2 DEF Removals
        <5>2. CASE o # p
          <6>1. req[o].op \in Removals => Leaves(req[o])
            BY <2>7
          <6> QED BY <5>2, <6>1, <4>1, <1>2 DEF Leaves
        <5> QED BY <5>1, <5>2
      <4> QED BY <1>1, <1>3, <4>1, <4>2 DEF Leaves
    <3> QED BY <3>1, <3>2, <2>1, <1>1 DEF Kept
  <2> QED BY <2>3, <2>5, <2>6, <2>7 DEF Kept
<1> QED BY <1>5, <1>6, <1>7, <1>8 DEF UsersInv

(* A user is enabled or disabled.                                          *)
LEMMA StepSetActive ==
  ASSUME UsersInv, NEW p \in Requests, SetActive(p)
  PROVE  UsersInv'
<1> DEFINE r == req[p]
<1>0. PICK u : u = r.target
  OBVIOUS
<1> DEFINE st == IF r.op = "enable" THEN "active" ELSE "inactive"
<1>1. /\ r \in ReqRow /\ u \in Users /\ user[u] \in UserRow /\ user[u].st \in Present
      /\ r.op \in {"enable", "disable"} /\ r.at = "write"
      /\ user' = [user EXCEPT ![u].st = IF st = r.st THEN @ ELSE st]
      /\ Lost(p, u, {})
  BY <1>0, RequestRow, IdleLost DEF SetActive, Is
<1>2. PICK w : w = [user[u] EXCEPT !.st = IF st = r.st THEN user[u].st ELSE st]
  OBVIOUS
<1>3. /\ w \in UserRow /\ w.st \in Present /\ w.perms = user[u].perms
      /\ w.st \in {user[u].st, st}
  BY <1>1, <1>2 DEF UserRow, Present
<1>4. user' = [user EXCEPT ![u] = w]
  BY <1>1, <1>2
<1>5. user'[u] = w
  BY <1>1, <1>4 DEF UsersInv, UserTypes
<1>6. ASSUME NEW q \in Requests \ {p}, req[q].op = "save", req[q].target = u
      PROVE  Fits(req[q])'
  <2>1. Fits(req[q]) /\ req[q] \in ReqRow
    BY RequestRow
  <2>2. req'[q].rows = req[q].rows
    BY <1>1, <2>1 DEF Lost, ReqRow
  <2>3. /\ req'[q].op = req[q].op /\ req'[q].at = req[q].at
        /\ req'[q].target = u /\ req'[q].final = req[q].final
        /\ req'[q].mixed = req[q].mixed
    BY <1>1, <1>6 DEF Lost
  <2>4. w.st # "none"
    BY <1>3 DEF Present
  <2>5. /\ Closed(req[q].final)
        /\ req[q].at = "read" => req[q].final \cap Unmanaged = {}
        /\ req[q].at # "read" => req[q].final \cap Unmanaged = w.perms \cap Unmanaged
        /\ req[q].at \in {"delete", "insert"} =>
             /\ req[q].rows \subseteq w.perms
             /\ Closed(w.perms \ req[q].rows)
             /\ ~req[q].mixed => w.perms \subseteq req[q].rows
    BY <1>1, <1>3, <1>6, <2>1 DEF Fits
  <2> QED BY <1>5, <2>2, <2>3, <2>4, <2>5 DEF Fits
<1>7. IsAdmin(u) /\ (r.op \in Removals => Leaves(r)) => IsAdmin(u)'
  <2>1. CASE r.op = "disable"
    BY <2>1, <1>1 DEF Leaves, Removals
  <2>2. CASE r.op = "enable"
    BY <2>2, <1>3, <1>5 DEF IsAdmin
  <2> QED BY <1>1, <2>1, <2>2
<1>8. w.st \notin Present => w.perms = {}
  BY <1>3
<1> HIDE DEF r, st
<1>9. PICK gone : gone = {}
  OBVIOUS
<1>10. Lost(p, u, gone)
  BY <1>1, <1>9
<1> QED BY <1>0, <1>1, <1>3, <1>4, <1>6, <1>7, <1>8, <1>10, Writes DEF r

(* A user is deleted, with the permissions.                                *)
LEMMA StepDeleteUser ==
  ASSUME UsersInv, NEW p \in Requests, DeleteUser(p)
  PROVE  UsersInv'
<1> DEFINE r == req[p]
<1>0. PICK u : u = r.target
  OBVIOUS
<1>1. /\ r \in ReqRow /\ u \in Users /\ user[u] \in UserRow /\ user[u].st \in Present
      /\ r.op = "delete" /\ r.at = "write"
      /\ \A q \in Holders(p, u) : req[q].rows = {}
      /\ user' = [user EXCEPT ![u] = Removed(u)]
      /\ Lost(p, u, user[u].perms)
  BY <1>0, RequestRow, EndedLost DEF DeleteUser, Is
<1>2. PICK w : w = Removed(u)
  OBVIOUS
<1>3. w \in UserRow /\ w.st = "deleted" /\ w.perms = {} /\ w.st \notin Present
  BY <1>2 DEF UserRow, Present, Removed
<1>4. user' = [user EXCEPT ![u] = w]
  BY <1>1, <1>2
<1>5. user'[u] = w
  BY <1>1, <1>4 DEF UsersInv, UserTypes
<1>6. ASSUME NEW q \in Requests \ {p}, req[q].op = "save", req[q].target = u
      PROVE  Fits(req[q])'
  <2>1. Fits(req[q]) /\ req[q] \in ReqRow
    BY RequestRow
  <2>2. req[q].at \in {"delete", "insert"} => req'[q].rows = {}
    <3>1. CASE req[q].at = "delete"
      BY <1>1, <1>6, <2>1, <3>1 DEF Lost, Fits
    <3>2. CASE req[q].at = "insert"
      BY <1>1, <1>6, <3>2 DEF Lost, Holders, Is
    <3> QED BY <3>1, <3>2
  <2>3. /\ req'[q].op = req[q].op /\ req'[q].at = req[q].at
        /\ req'[q].target = u /\ req'[q].final = req[q].final
    BY <1>1, <1>6 DEF Lost
  <2>4. Closed({})
    BY DEF Closed
  <2>5. /\ Closed(req[q].final)
        /\ req[q].at = "read" => req[q].final \cap Unmanaged = {}
    BY <1>6, <2>1 DEF Fits
  <2> QED BY <1>3, <1>5, <2>2, <2>3, <2>4, <2>5 DEF Fits
<1>7. IsAdmin(u) /\ (r.op \in Removals => Leaves(r)) => IsAdmin(u)'
  BY <1>1 DEF Leaves, Removals
<1>8. w.st \notin Present => w.perms = {}
  BY <1>3
<1>9. PICK gone : gone = user[u].perms
  OBVIOUS
<1>10. Lost(p, u, gone)
  BY <1>1, <1>9
<1> HIDE DEF r
<1> QED BY <1>0, <1>1, <1>3, <1>4, <1>6, <1>7, <1>8, <1>10, Writes DEF r

(* A user is created with given permissions.                               *)
LEMMA StepCreateUser ==
  ASSUME UsersInv, NEW p \in Requests, NEW given \in Grants, CreateUser(p, given)
  PROVE  UsersInv'
<1> DEFINE r == req[p]
<1>0. PICK u : u = r.target
  OBVIOUS
<1>1. /\ r \in ReqRow /\ u \in Users /\ user[u] \in UserRow /\ user[u].st = "none"
      /\ r.op = "create" /\ r.at = "write"
      /\ user' = [user EXCEPT ![u] = [st |-> "active", perms |-> given]]
      /\ Lost(p, u, {})
  BY <1>0, RequestRow, IdleLost DEF CreateUser, Is
<1>2. PICK w : w = [st |-> "active", perms |-> given]
  OBVIOUS
<1>3. given \subseteq Permissions
  BY DEF UsersInv, AdminAssumption
<1>31. w \in UserRow /\ w.st = "active" /\ w.st \in Present
  BY <1>2, <1>3 DEF UserRow, Present
<1>4. user' = [user EXCEPT ![u] = w]
  BY <1>1, <1>2
<1>6. ASSUME NEW q \in Requests \ {p}, req[q].op = "save", req[q].target = u
      PROVE  Fits(req[q])'
  <2>1. Fits(req[q]) /\ req[q] \in ReqRow
    BY RequestRow
  <2>2. req[q].at = "read"
    BY <1>1, <1>6, <2>1 DEF Fits
  <2>3. /\ req'[q].op = req[q].op /\ req'[q].at = "read"
        /\ req'[q].target = u /\ req'[q].final = req[q].final
    BY <1>1, <1>6, <2>2 DEF Lost
  <2>5. Closed(req[q].final) /\ req[q].final \cap Unmanaged = {}
    BY <1>6, <2>1, <2>2 DEF Fits
  <2> QED BY <2>3, <2>5 DEF Fits
<1>7. IsAdmin(u) /\ (r.op \in Removals => Leaves(r)) => IsAdmin(u)'
  BY <1>1 DEF IsAdmin
<1>8. w.st \notin Present => w.perms = {}
  BY <1>31
<1> HIDE DEF r
<1>9. PICK gone : gone = {}
  OBVIOUS
<1>10. Lost(p, u, gone)
  BY <1>1, <1>9
<1> QED BY <1>0, <1>1, <1>31, <1>4, <1>6, <1>7, <1>8, <1>10, Writes DEF r

(* The rows of two saves of one user: what is neither's stays closed.      *)
LEMMA BetweenSaves ==
  ASSUME NEW old, NEW final, NEW mine, NEW other,
         Closed(old \ mine), Closed(old \ other), Closed(final),
         other \cap final = {}
  PROVE  Closed(((old \ mine) \cup final) \ other)
<1>1. ((old \ mine) \cup final) \ other = ((old \ mine) \ other) \cup final
  BY Zenon
<1>2. Closed((old \ mine) \ other)
  BY DEF Closed
<1>3. Closed(((old \ mine) \ other) \cup final)
  BY <1>2 DEF Closed
<1> QED BY <1>1, <1>3, Zenon

(* A save commits: what it kept, what others added behind its DELETE, and  *)
(* what it adds.                                                           *)
LEMMA StepSaveInsert ==
  ASSUME UsersInv, NEW p \in Requests, SaveInsert(p)
  PROVE  UsersInv'
<1> DEFINE r == req[p]
<1>0. PICK u : u = r.target
  OBVIOUS
<1> DEFINE old == user[u].perms
<1>1. /\ r \in ReqRow /\ u \in Users /\ user[u] \in UserRow /\ user[u].st \in Present
      /\ r.op = "save" /\ r.at = "insert" /\ Fits(r)
      /\ \A q \in Holders(p, u) : req[q].rows \cap r.final = {}
      /\ (old \ r.rows) \cap r.final = {}
      /\ user' = [user EXCEPT ![u].perms = (old \ r.rows) \cup r.final]
      /\ Lost(p, u, r.rows)
  BY <1>0, RequestRow, EndedLost DEF SaveInsert, Is
<1>2. PICK w : w = [user[u] EXCEPT !.perms = (old \ r.rows) \cup r.final]
  OBVIOUS
<1>3. /\ w \in UserRow /\ w.st = user[u].st /\ w.perms = (old \ r.rows) \cup r.final
  BY <1>1, <1>2 DEF UserRow, ReqRow
<1>4. user' = [user EXCEPT ![u] = w]
  BY <1>1, <1>2
<1>5. user'[u] = w
  BY <1>1, <1>4 DEF UsersInv, UserTypes
<1>51. /\ r.final \cap Unmanaged = old \cap Unmanaged
       /\ r.rows \subseteq old /\ Closed(old \ r.rows) /\ Closed(r.final)
  BY <1>0, <1>1 DEF Fits
<1>52. w.perms \cap Unmanaged = old \cap Unmanaged
  BY <1>3, <1>51
<1>6. ASSUME NEW q \in Requests \ {p}, req[q].op = "save", req[q].target = u
      PROVE  Fits(req[q])'
  <2>1. Fits(req[q]) /\ req[q] \in ReqRow
    BY RequestRow
  <2>2. /\ Closed(req[q].final)
        /\ req[q].at = "read" => req[q].final \cap Unmanaged = {}
        /\ req[q].at # "read" => req[q].final \cap Unmanaged = old \cap Unmanaged
        /\ req[q].at \in {"delete", "insert"} =>
             /\ req[q].rows \subseteq old
             /\ Closed(old \ req[q].rows)
    BY <1>1, <1>6, <2>1 DEF Fits
  <2>3. Apart(req[q], r) /\ Apart(r, req[q])
    BY <1>6 DEF UsersInv
  <2>4. req[q].mixed
    BY <1>0, <2>3, <1>1, <1>6 DEF Apart
  <2>5. PICK rows : rows = req'[q].rows
    OBVIOUS
  <2>6. req[q].at = "delete" => rows = req[q].rows \ r.rows
    BY <1>1, <1>6, <2>5 DEF Lost
  <2>7. req[q].at = "insert" =>
          rows = req[q].rows /\ rows \cap r.rows = {} /\ rows \cap r.final = {}
    BY <1>0, <1>1, <1>6, <2>3, <2>5 DEF Lost, Apart, Holders, Is
  <2>8. ASSUME req[q].at = "delete"
        PROVE  rows \subseteq w.perms /\ Closed(w.perms \ rows)
    <3>1. w.perms \ rows = ((old \ r.rows) \ req[q].rows) \cup r.final
      BY <1>1, <1>3, <2>6, <2>2, <2>8
    <3>2. Closed((old \ r.rows) \ req[q].rows)
      BY <1>51, <2>2, <2>8 DEF Closed
    <3>3. Closed(((old \ r.rows) \ req[q].rows) \cup r.final)
      BY <1>51, <3>2 DEF Closed
    <3>4. rows \subseteq w.perms
      BY <1>3, <2>2, <2>6, <2>8
    <3> QED BY <3>1, <3>3, <3>4
  <2>9. ASSUME req[q].at = "insert"
        PROVE  rows \subseteq w.perms /\ Closed(w.perms \ rows)
    <3>1. rows \subseteq w.perms
      BY <1>3, <2>2, <2>7, <2>9
    <3>2. Closed(old \ rows)
      BY <2>2, <2>7, <2>9
    <3>3. Closed(((old \ r.rows) \cup r.final) \ rows)
      BY <1>51, <3>2, <2>7, <2>9, BetweenSaves, Zenon
    <3> QED BY <1>3, <3>1, <3>3
  <2>10. /\ req'[q].op = req[q].op /\ req'[q].at = req[q].at
         /\ req'[q].target = u /\ req'[q].final = req[q].final
         /\ req'[q].mixed = req[q].mixed
    BY <1>1, <1>6 DEF Lost
  <2>11. w.st # "none"
    BY <1>1, <1>3 DEF Present
  <2> QED BY <1>5, <1>52, <2>2, <2>4, <2>5, <2>8, <2>9, <2>10, <2>11 DEF Fits
<1>7. IsAdmin(u) /\ (r.op \in Removals => Leaves(r)) => IsAdmin(u)'
  <2>1. w.st = user[u].st /\ r.final \subseteq w.perms
    BY <1>3
  <2> QED BY <1>1, <1>5, <2>1 DEF IsAdmin, Leaves, Removals
<1>8. w.st \notin Present => w.perms = {}
  BY <1>1, <1>3
<1> HIDE DEF r
<1>9. PICK gone : gone = r.rows
  OBVIOUS
<1>10. Lost(p, u, gone)
  BY <1>1, <1>9
<1> QED BY <1>0, <1>1, <1>3, <1>4, <1>6, <1>7, <1>8, <1>10, Writes DEF r

-----------------------------------------------------------------------------
(* At the start there is an administrator and no request.                  *)
LEMMA UsersInvInit ==
  ASSUME AdminAssumption, UsersInit
  PROVE  UsersInv
<1>1. Idle \in ReqRow /\ Idle.op = "idle" /\ Idle.at = "idle"
  BY IdleRow
<1>2. \A p \in Requests : req[p] = Idle
  BY DEF UsersInit
<1>3. /\ user \in [Users -> UserRow]
      /\ \A u \in Users : user[u].st \notin Present => user[u].perms = {}
  <2>1. ASSUME NEW u \in Users
        PROVE  user[u] \in UserRow /\ (user[u].st \notin Present => user[u].perms = {})
    BY DEF UsersInit, UserRow, Present
  <2>2. user = [u \in Users |-> user[u]]
    BY DEF UsersInit
  <2> QED BY <2>1, <2>2
<1>4. req \in [Requests -> ReqRow]
  BY <1>1 DEF UsersInit
<1>5. UserTypes
  BY <1>1, <1>2, <1>3, <1>4 DEF UserTypes
<1>6. Fits(Idle) /\ Apart(Idle, Idle) /\ Idle.op \notin Removals
  BY <1>1 DEF Fits, Apart, Removals
<1>7. /\ \A p \in Requests : Fits(req[p])
      /\ \A p, q \in Requests : p # q => Apart(req[p], req[q])
      /\ \A p \in Requests : req[p].op \notin Removals
  BY <1>2, <1>6
<1> QED BY <1>5, <1>7 DEF UsersInv

(* What a step is.                                                         *)
Arrives ==
  \E p \in Requests, a \in Users, t \in Users, op \in Removals \cup {"create", "enable"},
     final \in SUBSET Permissions :
    Closed(final) /\ final \cap Unmanaged = {} /\ Request(p, a, t, op, final)

Moves ==
  \E p \in Requests :
    ReadTarget(p) \/ Guard(p) \/ SaveBegin(p) \/ SaveDelete(p) \/ Fail(p)

Ends(p) ==
  \/ SaveInsert(p) \/ SetActive(p) \/ DeleteUser(p)
  \/ \E given \in Grants : CreateUser(p, given)

(* The steps of the installation: a request arrives, moves, or ends.       *)
LEMMA Steps ==
  ASSUME AdminAssumption, UsersNext
  PROVE  Arrives \/ Moves \/ \E p \in Requests : Ends(p)
<1>1. PICK p \in Requests :
    \/ \E a \in Users, t \in Users :
         \/ \E op \in {"create", "enable", "disable", "delete"} :
              Request(p, a, t, op, {})
         \/ \E pages \in Cells : Request(p, a, t, "save", Desired(pages))
    \/ ReadTarget(p) \/ Guard(p)
    \/ SaveBegin(p) \/ SaveDelete(p) \/ SaveInsert(p)
    \/ SetActive(p) \/ DeleteUser(p)
    \/ \E given \in Grants : CreateUser(p, given)
    \/ Fail(p)
  BY Zenon DEF UsersNext
<1>2. ASSUME NEW a \in Users, NEW t \in Users,
             NEW op \in {"create", "enable", "disable", "delete"}, Request(p, a, t, op, {})
      PROVE  Arrives
  <2>1. PICK final : final = {}
    OBVIOUS
  <2>2. /\ final \in SUBSET Permissions /\ Closed(final) /\ final \cap Unmanaged = {}
        /\ op \in Removals \cup {"create", "enable"} /\ Request(p, a, t, op, final)
    BY <1>2, <2>1 DEF Closed, Removals
  <2> QED BY <2>2, Zenon DEF Arrives
<1>3. ASSUME NEW a \in Users, NEW t \in Users, NEW pages \in Cells,
             Request(p, a, t, "save", Desired(pages))
      PROVE  Arrives
  <2>1. PICK final, op : final = Desired(pages) /\ op = "save"
    OBVIOUS
  <2>2. /\ final \in SUBSET Permissions /\ Closed(final) /\ final \cap Unmanaged = {}
        /\ op \in Removals \cup {"create", "enable"} /\ Request(p, a, t, op, final)
    BY <1>3, <2>1, DesiredIs DEF Removals
  <2> QED BY <2>2, Zenon DEF Arrives
<1> QED BY <1>1, <1>2, <1>3, Zenon DEF Moves, Ends

(* Every step keeps the invariant.                                         *)
LEMMA UsersInvStep ==
  ASSUME UsersInv, [UsersNext]_userVars
  PROVE  UsersInv'
<1>1. CASE Arrives
  BY <1>1, StepRequest, Zenon DEF Arrives
<1>2. CASE Moves
  BY <1>2, StepReadTarget, StepGuard, StepSaveBegin, StepSaveDelete, StepFail, Zenon DEF Moves
<1>3. CASE \E p \in Requests : Ends(p)
  BY <1>3, StepSaveInsert, StepSetActive, StepDeleteUser, StepCreateUser, Zenon DEF Ends
<1>4. CASE UNCHANGED userVars
  <2>1. user' = user /\ req' = req
    BY <1>4 DEF userVars
  <2>2. AdminAssumption' /\ UserTypes'
    BY <2>1 DEF UsersInv, UserTypes, AdminAssumption
  <2>3. \A p \in Requests : Fits(req[p])'
    BY <2>1 DEF UsersInv, Fits
  <2>4. \A p, q \in Requests : p # q => Apart(req[p], req[q])'
    BY <2>1 DEF UsersInv, Apart
  <2>5. \A t : Kept(t) => Kept(t)'
    BY <2>1 DEF Kept, IsAdmin, Leaves
  <2>6. \A p \in Requests : req'[p].op \in Removals /\ ~req'[p].crossed => Kept(req[p].target)'
    <3> SUFFICES ASSUME NEW p \in Requests, req'[p].op \in Removals, ~req'[p].crossed
                 PROVE  Kept(req[p].target)'
      OBVIOUS
    <3>1. PICK t : t = req[p].target
      OBVIOUS
    <3>2. Kept(t)
      BY <2>1, <3>1 DEF UsersInv
    <3> QED BY <2>1, <2>5, <3>1, <3>2 DEF Kept
  <2> QED BY <2>2, <2>3, <2>4, <2>6 DEF UsersInv
<1>5. AdminAssumption
  BY DEF UsersInv
<1> QED BY <1>1, <1>2, <1>3, <1>4, <1>5, Steps DEF UsersInv

(* The invariant says more than the types.                                 *)
LEMMA UsersInvTypeOK ==
  ASSUME UsersInv
  PROVE  UsersTypeOK
BY DEF UsersInv, UserTypes, UsersTypeOK, UserRow, ReqRow, Ats

-----------------------------------------------------------------------------
(* Only the last step of a request writes a user.                          *)
LEMMA OthersWriteNothing ==
  ASSUME Arrives \/ Moves
  PROVE  UNCHANGED user
<1>1. CASE Arrives
  <2>1. PICK p, a, t, op, final : Request(p, a, t, op, final)
    BY <1>1, Zenon DEF Arrives
  <2> QED BY <2>1 DEF Request
<1>2. CASE Moves
  <2>1. PICK p \in Requests :
          ReadTarget(p) \/ Guard(p) \/ SaveBegin(p) \/ SaveDelete(p) \/ Fail(p)
    BY <1>2, Zenon DEF Moves
  <2>2. ReadTarget(p) => UNCHANGED user
    BY DEF ReadTarget
  <2>3. Guard(p) \/ SaveBegin(p) \/ SaveDelete(p) \/ Fail(p) => UNCHANGED user
    BY DEF Guard, SaveBegin, SaveDelete, Fail
  <2> QED BY <2>1, <2>2, <2>3
<1> QED BY <1>1, <1>2

(* What the last step of a request writes.                                 *)
Written(p, w) ==
  LET r == req[p]  old == user[r.target] IN
  /\ user' = [user EXCEPT ![r.target] = w]
  /\ IsAdmin(r.target) /\ (r.op \in Removals => Leaves(r)) =>
       w.st = "active" /\ ADMIN_WRITE_PERMISSION \in w.perms
  /\ r.op = "save" /\ ~r.mixed => w.perms = r.final
  /\ old.st \in Present /\ w.st \in Present =>
       w.perms \cap Unmanaged = old.perms \cap Unmanaged
  /\ old.st \in Present /\ w.perms # old.perms => Closed(w.perms)

(* The end of a request writes its target only, in one of the ways         *)
(* Written names.                                                          *)
LEMMA EndWrites ==
  ASSUME UsersInv, NEW p \in Requests, Ends(p)
  PROVE  /\ \E w : Written(p, w)
         /\ req'[p] = Idle
         /\ \A q \in Requests \ {p} : req'[q].op = req[q].op
<1> DEFINE r == req[p]
           u == r.target
           old == user[u]
<1>1. r \in ReqRow /\ u \in Users /\ old \in UserRow /\ Fits(r)
  BY RequestRow
<1>2. /\ req'[p] = Idle
      /\ \A q \in Requests \ {p} : req'[q].op = req[q].op
  <2>1. CASE \E gone : Ended(p, u, gone)
    <3>1. PICK gone : Ended(p, u, gone)
      BY <2>1
    <3>2. Lost(p, u, gone)
      BY <3>1, EndedLost
    <3> QED BY <3>1, <3>2 DEF Ended, Lost
  <2>2. CASE req' = [req EXCEPT ![p] = Idle]
    BY <2>2 DEF UsersInv, UserTypes
  <2> QED BY <2>1, <2>2 DEF Ends, SaveInsert, SetActive, DeleteUser, CreateUser
<1>3. CASE SaveInsert(p)
  <2>1. /\ old.st \in Present /\ r.op = "save" /\ r.at = "insert"
        /\ user' = [user EXCEPT ![u].perms = (old.perms \ r.rows) \cup r.final]
    BY <1>3 DEF SaveInsert, Is
  <2>2. PICK w : w = [old EXCEPT !.perms = (old.perms \ r.rows) \cup r.final]
    OBVIOUS
  <2>3. w.st = old.st /\ w.perms = (old.perms \ r.rows) \cup r.final
    BY <1>1, <2>2 DEF UserRow
  <2>4. user' = [user EXCEPT ![u] = w]
    BY <2>1, <2>2
  <2>5. /\ r.final \cap Unmanaged = old.perms \cap Unmanaged
        /\ r.rows \subseteq old.perms /\ Closed(old.perms \ r.rows) /\ Closed(r.final)
        /\ ~r.mixed => old.perms \subseteq r.rows
    BY <1>1, <2>1 DEF Fits
  <2>6. Closed(w.perms)
    BY <2>3, <2>5 DEF Closed
  <2>7. w.perms \cap Unmanaged = old.perms \cap Unmanaged
    BY <2>3, <2>5
  <2>8. ~r.mixed => w.perms = r.final
    BY <2>3, <2>5
  <2>9. IsAdmin(u) /\ (r.op \in Removals => Leaves(r)) =>
          w.st = "active" /\ ADMIN_WRITE_PERMISSION \in w.perms
    BY <2>1, <2>3 DEF IsAdmin, Leaves, Removals
  <2> QED BY <1>2, <2>4, <2>6, <2>7, <2>8, <2>9 DEF Written
<1>4. CASE SetActive(p)
  <2> DEFINE st == IF r.op = "enable" THEN "active" ELSE "inactive"
  <2>1. /\ old.st \in Present /\ r.op \in {"enable", "disable"} /\ r.at = "write"
        /\ user' = [user EXCEPT ![u].st = IF st = r.st THEN @ ELSE st]
    BY <1>4 DEF SetActive, Is
  <2>2. PICK w : w = [old EXCEPT !.st = IF st = r.st THEN old.st ELSE st]
    OBVIOUS
  <2>3. w.perms = old.perms /\ w.st \in {old.st, st}
    BY <1>1, <2>2 DEF UserRow
  <2>4. user' = [user EXCEPT ![u] = w]
    BY <2>1, <2>2
  <2>5. r.op # "save" /\ (r.op = "enable" \/ (r.op \in Removals /\ ~Leaves(r)))
    BY <2>1 DEF Removals, Leaves
  <2>6. IsAdmin(u) /\ (r.op \in Removals => Leaves(r)) =>
          w.st = "active" /\ ADMIN_WRITE_PERMISSION \in w.perms
    BY <2>3, <2>5 DEF IsAdmin
  <2> QED BY <1>2, <2>3, <2>4, <2>5, <2>6 DEF Written
<1>5. CASE DeleteUser(p)
  <2>1. PICK w : w = Removed(u)
    OBVIOUS
  <2>2. /\ user' = [user EXCEPT ![u] = w] /\ r.op = "delete" /\ r.at = "write"
        /\ w.st \notin Present /\ w.perms = {}
    BY <1>5, <2>1 DEF DeleteUser, Is, Removed, Present
  <2>3. Closed(w.perms) /\ r.op \in Removals /\ ~Leaves(r)
    BY <2>2 DEF Closed, Removals, Leaves
  <2> QED BY <1>2, <2>2, <2>3 DEF Written
<1>6. CASE \E given \in Grants : CreateUser(p, given)
  <2>1. PICK given \in Grants : CreateUser(p, given)
    BY <1>6
  <2>2. PICK w : w = [st |-> "active", perms |-> given]
    OBVIOUS
  <2>3. /\ user' = [user EXCEPT ![u] = w] /\ r.op = "create" /\ old.st = "none"
    BY <2>1, <2>2 DEF CreateUser, Is
  <2>4. ~IsAdmin(u) /\ old.st \notin Present
    BY <2>3 DEF IsAdmin, Present
  <2> QED BY <1>2, <2>3, <2>4 DEF Written
<1> QED BY <1>3, <1>4, <1>5, <1>6 DEF Ends

(* The last administrator is lost only at the end of a request that was    *)
(* crossed by another.                                                     *)
LEMMA AdminRemainsStep ==
  ASSUME UsersInv, UsersNext, Admins # {}, Admins' = {}
  PROVE  \E p \in Requests : req[p].crossed /\ req'[p] = Idle
<1>1. AdminAssumption
  BY DEF UsersInv
<1>2. user' # user
  BY DEF Admins, IsAdmin
<1>3. PICK p \in Requests : Ends(p)
  BY <1>1, <1>2, Steps, OthersWriteNothing
<1>4. PICK w : Written(p, w)
  BY <1>3, EndWrites
<1>5. req'[p] = Idle /\ req[p].target \in Users
  BY <1>3, EndWrites, RequestRow
<1>6. PICK t \in Users : t = req[p].target
  BY <1>5
<1>7. /\ user \in [Users -> UserRow] /\ user' = [user EXCEPT ![t] = w]
  BY <1>4, <1>6 DEF Written, UsersInv, UserTypes
<1>8. \A v \in Users : ~IsAdmin(v)'
  BY DEF Admins
<1>9. \A v \in Users \ {t} : ~IsAdmin(v)
  BY <1>7, <1>8 DEF IsAdmin
<1>10. IsAdmin(t)
  BY <1>9 DEF Admins
<1>11. req[p].op \in Removals /\ ~Leaves(req[p])
  <2>1. ~(w.st = "active" /\ ADMIN_WRITE_PERMISSION \in w.perms)
    BY <1>7, <1>8 DEF IsAdmin
  <2> QED BY <2>1, <1>4, <1>6, <1>10 DEF Written
<1>12. ~Kept(t)
  BY <1>9, <1>11 DEF Kept
<1>13. req[p].crossed
  BY <1>6, <1>11, <1>12 DEF UsersInv
<1> QED BY <1>5, <1>13

(* A save that was not mixed with others leaves exactly what was asked.    *)
LEMMA SaveIsExactStep ==
  ASSUME UsersInv, UsersNext, NEW p \in Requests, req[p].op = "save", req'[p] = Idle,
         user'[req[p].target].perms # user[req[p].target].perms
  PROVE  req[p].mixed \/ user'[req[p].target].perms = req[p].final
<1>1. AdminAssumption
  BY DEF UsersInv
<1>2. PICK a \in Requests : Ends(a)
  BY <1>1, Steps, OthersWriteNothing
<1>3. a = p
  <2>1. req'[p].op # req[p].op
    BY <1>1, IdleRow
  <2> QED BY <2>1, <1>2, EndWrites
<1>4. PICK w : Written(p, w)
  BY <1>2, <1>3, EndWrites
<1>5. user'[req[p].target] = w
  BY <1>4, RequestRow DEF Written, UsersInv, UserTypes
<1> QED BY <1>4, <1>5 DEF Written

(* Mixed or not, saves keep the permissions of no page, and write comes    *)
(* with read.                                                              *)
LEMMA MixedSavesKeepStep ==
  ASSUME UsersInv, UsersNext, NEW u \in Users
  PROVE  /\ user[u].st \in Present /\ user'[u].st \in Present =>
              user'[u].perms \cap Unmanaged = user[u].perms \cap Unmanaged
         /\ user[u].st \in Present /\ user'[u].perms # user[u].perms =>
              \A g \in Pages :
                Write(g) \in user'[u].perms => Read(g) \in user'[u].perms
<1>1. AdminAssumption
  BY DEF UsersInv
<1>2. CASE UNCHANGED user
  BY <1>2
<1>3. CASE \E p \in Requests : Ends(p)
  <2>1. PICK p \in Requests : Ends(p)
    BY <1>3
  <2>2. PICK w : Written(p, w)
    BY <2>1, EndWrites
  <2>3. user \in [Users -> UserRow] /\ user' = [user EXCEPT ![req[p].target] = w]
    BY <2>2 DEF Written, UsersInv, UserTypes
  <2>4. CASE u # req[p].target
    BY <2>3, <2>4
  <2>5. CASE u = req[p].target
    <3>1. user'[u] = w
      BY <2>3, <2>5
    <3> QED BY <2>2, <2>5, <3>1 DEF Written, Closed
  <2> QED BY <2>4, <2>5
<1> QED BY <1>1, <1>2, <1>3, Steps, OthersWriteNothing

-----------------------------------------------------------------------------
(* Users and requests have their types, whatever requests are in flight.   *)
THEOREM UsersAreTyped == UsersSpec => []UsersTypeOK
<1>1. UsersInit => UsersInv
  BY AdminAssumption, UsersInvInit
<1>2. UsersInv /\ [UsersNext]_userVars => UsersInv'
  BY UsersInvStep
<1>3. UsersInv => UsersTypeOK
  BY UsersInvTypeOK
<1> QED BY <1>1, <1>2, <1>3, PTL DEF UsersSpec

(* The installation keeps an administrator: only two removals of           *)
(* different users that were in flight together can take the last one.     *)
THEOREM AnAdminRemains == UsersSpec => AdminRemains
<1>1. UsersInv /\ [UsersNext]_userVars =>
        [Admins # {} /\ Admins' = {} =>
           \E p \in Requests : req[p].crossed /\ req'[p] = Idle]_userVars
  BY AdminRemainsStep
<1>2. UsersInit => UsersInv
  BY AdminAssumption, UsersInvInit
<1>3. UsersInv /\ [UsersNext]_userVars => UsersInv'
  BY UsersInvStep
<1> QED BY <1>1, <1>2, <1>3, PTL DEF UsersSpec, AdminRemains

(* A save that overlaps no other write of its user leaves exactly the      *)
(* permissions it was asked for and the ones no page manages.              *)
THEOREM SavesAreExact == UsersSpec => SaveIsExact
<1>1. UsersInv /\ [UsersNext]_userVars =>
        [\A p \in Requests :
           LET u == req[p].target IN
           req[p].op = "save" /\ req'[p] = Idle /\ user'[u].perms # user[u].perms =>
             req[p].mixed \/ user'[u].perms = req[p].final]_userVars
  BY SaveIsExactStep
<1>2. UsersInit => UsersInv
  BY AdminAssumption, UsersInvInit
<1>3. UsersInv /\ [UsersNext]_userVars => UsersInv'
  BY UsersInvStep
<1> QED BY <1>1, <1>2, <1>3, PTL DEF UsersSpec, SaveIsExact

(* However saves of one user overlap, the permissions no page manages      *)
(* stay and write on a page comes with read.                               *)
THEOREM MixedSavesDoKeep == UsersSpec => MixedSavesKeep
<1>1. UsersInv /\ [UsersNext]_userVars =>
        [\A u \in Users :
           /\ user[u].st \in Present /\ user'[u].st \in Present =>
                user'[u].perms \cap Unmanaged = user[u].perms \cap Unmanaged
           /\ user[u].st \in Present /\ user'[u].perms # user[u].perms =>
                \A g \in Pages :
                  Write(g) \in user'[u].perms => Read(g) \in user'[u].perms]_userVars
  BY MixedSavesKeepStep
<1>2. UsersInit => UsersInv
  BY AdminAssumption, UsersInvInit
<1>3. UsersInv /\ [UsersNext]_userVars => UsersInv'
  BY UsersInvStep
<1> QED BY <1>1, <1>2, <1>3, PTL DEF UsersSpec, MixedSavesKeep

-----------------------------------------------------------------------------
(* The projection of PMS's rows.                                           *)
Had(r, v) == v \in 1..Len(pms[r]) /\ pms[r][v] # Nothing

Differ(r, v, x, w) == v # 0 /\ w # 0 => pms[r][v] # pms[x][w]

RowPages == UNION {[D -> Nat] : D \in SUBSET Rows}

ItemSync == [st : {"NONE", "RUNNING", "SUCCESS", "FAILED"},
             pc : {"idle", "fetch", "upsert", "commit", "finish"},
             todo : Seq(SUBSET Nat), off : Nat, page : RowPages, more : BOOLEAN,
             new : [Rows -> Nat], still : BOOLEAN]

(* In PMS a row's parent is listed.                                        *)
PmsInv ==
  /\ pms \in [Rows -> Seq(Codes \cup {Nothing})]
  /\ \A r \in Rows : Code(r) # Nothing /\ Parent[r] # Nothing => Code(Parent[r]) # Nothing

(* The projection and the syncs hold what PMS has had.                     *)
HeldInv ==
  /\ copy \in [Rows -> Nat] /\ \A r \in Rows : copy[r] = 0 \/ Had(r, copy[r])
  /\ sync \in [Syncs -> ItemSync]
  /\ \A s \in Syncs :
       /\ \A r \in Rows : sync[s].new[r] = 0 \/ Had(r, sync[s].new[r])
       /\ \A r \in DOMAIN sync[s].page : Had(r, sync[s].page[r])
       /\ \A i \in DOMAIN sync[s].todo : sync[s].todo[i] \in ToSet(Resources)
       /\ sync[s].pc \in {"fetch", "upsert"} => sync[s].todo # << >>

(* No two rows of a table have one code, in the projection, as a sync sees *)
(* it, or written by two syncs; and no row is written by two.              *)
UniqueInv ==
  /\ \A T \in ToSet(Resources) : \A r, x \in T :
       r # x =>
         /\ Differ(r, copy[r], x, copy[x])
         /\ \A s \in Syncs : Differ(r, Shown(s, r), x, Shown(s, x))
         /\ \A s, q \in Syncs : s # q => Differ(r, sync[s].new[r], x, sync[q].new[x])
  /\ \A s, q \in Syncs : \A r \in Rows :
       s # q => sync[s].new[r] = 0 \/ sync[q].new[r] = 0

(* The sync has the row as PMS has it.                                     *)
Fresh(y, r) == y.new[r] = Len(pms[r])

(* A sync of all tables over a PMS that stands still: what is behind it.   *)
StillInv(y) ==
  LET gone == Len(Resources) - Len(y.todo)
  IN  /\ y.pc \in {"fetch", "upsert", "commit"}
      /\ Len(y.todo) <= Len(Resources)
      /\ \A i \in 1..Len(y.todo) : y.todo[i] = Resources[gone + i]
      /\ \A i \in 1..gone : \A r \in Listed(Resources[i]) : Fresh(y, r)
      /\ y.pc = "commit" => y.todo = << >>
      /\ y.pc = "fetch" =>
           \A r \in Listed(Head(y.todo)) : Place(Head(y.todo), r) < y.off => Fresh(y, r)
      /\ y.pc = "upsert" =>
           /\ y.more = (y.off + FeedLimit < Cardinality(Listed(Head(y.todo))))
           /\ \A r \in DOMAIN y.page : y.page[r] = Len(pms[r])
           /\ \A r \in Listed(Head(y.todo)) :
                Place(Head(y.todo), r) < y.off + FeedLimit =>
                  r \in DOMAIN y.page \/ Fresh(y, r)

ItemsInv ==
  /\ PmsInv /\ HeldInv /\ UniqueInv /\ moved \in BOOLEAN
  /\ \A s \in Syncs : sync[s].still => StillInv(sync[s])

-----------------------------------------------------------------------------
(* The rows and their tables.                                              *)
LEMMA RowsAre ==
  /\ Rows \subseteq Nat /\ 0 \notin Rows /\ Resources \in Seq(SUBSET Nat) /\ Resources # << >>
  /\ \A T \in ToSet(Resources) : T \subseteq Rows /\ IsFiniteSet(T)
  /\ \A i \in 1..Len(Resources) : Resources[i] \in ToSet(Resources)
  /\ \A r \in Rows : r \in TableOf(r) /\ TableOf(r) \in ToSet(Resources)
  /\ \A T \in ToSet(Resources) : \A r \in T : TableOf(r) = T
  /\ FeedLimit \in Nat \ {0} /\ Parent \in [Rows -> Rows \cup {Nothing}] /\ Nothing \notin Codes
<1>1. \A T \in ToSet(Resources) : T \subseteq Rows /\ IsFiniteSet(T)
  BY ItemsAssumption DEF Rows
<1>2. \A r \in Rows : r \in TableOf(r) /\ TableOf(r) \in ToSet(Resources)
  <2> SUFFICES ASSUME NEW r \in Rows PROVE r \in TableOf(r) /\ TableOf(r) \in ToSet(Resources)
    OBVIOUS
  <2>1. \E T \in ToSet(Resources) : r \in T
    BY DEF Rows
  <2> QED BY <2>1 DEF TableOf
<1>3. \A T \in ToSet(Resources) : \A r \in T : TableOf(r) = T
  BY <1>1, <1>2, ItemsAssumption
<1>4. \A i \in 1..Len(Resources) : Resources[i] \in ToSet(Resources)
  BY ItemsAssumption DEF ToSet
<1> QED BY <1>1, <1>2, <1>3, <1>4, ItemsAssumption DEF Nothing

(* A sync that is not there.                                               *)
LEMMA IdleIs ==
  /\ \A st \in {"NONE", "RUNNING", "SUCCESS", "FAILED"} :
       /\ [IdleSync EXCEPT !.st = st] \in ItemSync
       /\ [IdleSync EXCEPT !.st = st, !.pc = "finish"] \in ItemSync
  /\ IdleSync \in ItemSync /\ IdleSync.st = "NONE" /\ IdleSync.pc = "idle"
  /\ IdleSync.todo = << >> /\ DOMAIN IdleSync.page = {} /\ IdleSync.new = [r \in Rows |-> 0]
  /\ IdleSync.still = FALSE
<1>1. NoPage \in RowPages /\ DOMAIN NoPage = {}
  <2>1. NoPage \in [{} -> Nat] /\ {} \in SUBSET Rows
    BY DEF NoPage
  <2> QED BY <2>1 DEF RowPages, NoPage
<1>2. [r \in Rows |-> 0] \in [Rows -> Nat] /\ << >> \in Seq(SUBSET Nat)
  OBVIOUS
<1> QED BY <1>1, <1>2 DEF IdleSync, ItemSync

(* As long as PMS stands still, so do its feeds.                           *)
LEMMA FeedsStand ==
  ASSUME UNCHANGED pms
  PROVE  /\ \A T : Listed(T)' = Listed(T)
         /\ \A T, r : Place(T, r)' = Place(T, r)
         /\ \A r, v : Had(r, v)' <=> Had(r, v)
         /\ \A r, v, x, w : Differ(r, v, x, w)' <=> Differ(r, v, x, w)
         /\ \A y, r : Fresh(y, r)' <=> Fresh(y, r)
<1>1. \A T : Listed(T)' = Listed(T)
  BY DEF Listed, Code, Last
<1>2. \A T, r : Place(T, r)' = Place(T, r)
  BY <1>1 DEF Place
<1> QED BY <1>1, <1>2 DEF Had, Differ, Fresh

(* And what a sync has behind it.                                          *)
LEMMA StillStands ==
  ASSUME UNCHANGED pms, NEW y, StillInv(y)
  PROVE  StillInv(y)'
BY FeedsStand, Zenon DEF StillInv

(* A step of one sync that writes no row, or takes back what it wrote.     *)
LEMMA ItemSyncBecomes ==
  ASSUME ItemsInv, NEW s \in Syncs, NEW y \in ItemSync, UNCHANGED <<pms, copy, moved>>,
         sync' = [sync EXCEPT ![s] = y],
         y.new = sync[s].new \/ y.new = [r \in Rows |-> 0],
         \A r \in DOMAIN y.page : Had(r, y.page[r]),
         \A i \in DOMAIN y.todo : y.todo[i] \in ToSet(Resources),
         y.pc \in {"fetch", "upsert"} => y.todo # << >>,
         y.still => StillInv(y)
  PROVE  ItemsInv'
<1>1. sync \in [Syncs -> ItemSync] /\ UNCHANGED pms
  BY DEF ItemsInv, HeldInv
<1>2. PICK next : next = sync'
  OBVIOUS
<1>3. /\ next \in [Syncs -> ItemSync] /\ next[s] = y
      /\ \A q \in Syncs \ {s} : next[q] = sync[q]
  BY <1>1, <1>2
<1>4. PmsInv' /\ moved' \in BOOLEAN
  BY DEF ItemsInv, PmsInv, Code, Last
<1>5. \A q \in Syncs : \A r \in Rows : next[q].new[r] = 0 \/ next[q].new[r] = sync[q].new[r]
  BY <1>3
<1>6. HeldInv'
  <2>1. \A q \in Syncs :
          /\ \A r \in Rows : next[q].new[r] = 0 \/ Had(r, next[q].new[r])
          /\ \A r \in DOMAIN next[q].page : Had(r, next[q].page[r])
          /\ \A i \in DOMAIN next[q].todo : next[q].todo[i] \in ToSet(Resources)
          /\ next[q].pc \in {"fetch", "upsert"} => next[q].todo # << >>
    <3> SUFFICES ASSUME NEW q \in Syncs
                 PROVE  /\ \A r \in Rows : next[q].new[r] = 0 \/ Had(r, next[q].new[r])
                        /\ \A r \in DOMAIN next[q].page : Had(r, next[q].page[r])
                        /\ \A i \in DOMAIN next[q].todo : next[q].todo[i] \in ToSet(Resources)
                        /\ next[q].pc \in {"fetch", "upsert"} => next[q].todo # << >>
      OBVIOUS
    <3>1. \A r \in Rows : sync[q].new[r] = 0 \/ Had(r, sync[q].new[r])
      BY DEF ItemsInv, HeldInv
    <3>2. \A r \in Rows : next[q].new[r] = 0 \/ Had(r, next[q].new[r])
      BY <1>5, <3>1
    <3>3. CASE q = s
      BY <1>3, <3>2, <3>3
    <3>4. CASE q # s
      BY <1>3, <3>2, <3>4 DEF ItemsInv, HeldInv
    <3> QED BY <3>3, <3>4
  <2>2. copy \in [Rows -> Nat] /\ \A r \in Rows : copy[r] = 0 \/ Had(r, copy[r])
    BY DEF ItemsInv, HeldInv
  <2>3. \A r, v : Had(r, v)' <=> Had(r, v)
    BY FeedsStand
  <2>4. UNCHANGED copy /\ next = sync'
    BY <1>2
  <2> QED BY <1>3, <2>1, <2>2, <2>3, <2>4 DEF HeldInv
<1>7. UniqueInv'
  <2>1. \A r, v, x, w : Differ(r, v, x, w)' <=> Differ(r, v, x, w)
    BY FeedsStand
  <2>2. UniqueInv /\ copy' = copy /\ next = sync'
    BY <1>2 DEF ItemsInv
  <2>3. \A q \in Syncs, r \in Rows : Shown(q, r)' = Shown(q, r) \/ Shown(q, r)' = copy[r]
    BY <1>5, <2>2 DEF Shown
  <2>4. \A q \in Syncs : \/ \A r \in Rows : Shown(q, r)' = Shown(q, r)
                         \/ \A r \in Rows : Shown(q, r)' = copy[r]
    <3> SUFFICES ASSUME NEW q \in Syncs
                 PROVE  \/ \A r \in Rows : Shown(q, r)' = Shown(q, r)
                        \/ \A r \in Rows : Shown(q, r)' = copy[r]
      OBVIOUS
    <3>1. next[q].new = sync[q].new \/ next[q].new = [r \in Rows |-> 0]
      BY <1>3
    <3> QED BY <2>2, <3>1 DEF Shown
  <2>5. ASSUME NEW T \in ToSet(Resources), NEW r \in T, NEW x \in T, r # x
        PROVE  /\ Differ(r, copy[r], x, copy[x])
               /\ \A q \in Syncs : Differ(r, Shown(q, r)', x, Shown(q, x)')
               /\ \A q, p \in Syncs :
                    q # p => Differ(r, next[q].new[r], x, next[p].new[x])
    <3>1. r \in Rows /\ x \in Rows
      BY RowsAre
    <3>2. /\ Differ(r, copy[r], x, copy[x])
          /\ \A q \in Syncs : Differ(r, Shown(q, r), x, Shown(q, x))
          /\ \A q, p \in Syncs : q # p => Differ(r, sync[q].new[r], x, sync[p].new[x])
      BY <2>2, <2>5 DEF UniqueInv
    <3>3. \A q, p \in Syncs :
            q # p => Differ(r, next[q].new[r], x, next[p].new[x])
      <4> SUFFICES ASSUME NEW q \in Syncs, NEW p \in Syncs, q # p
                   PROVE  Differ(r, next[q].new[r], x, next[p].new[x])
        OBVIOUS
      <4>1. next[q].new[r] = 0 \/ next[q].new[r] = sync[q].new[r]
        BY <1>5, <3>1
      <4>2. next[p].new[x] = 0 \/ next[p].new[x] = sync[p].new[x]
        BY <1>5, <3>1
      <4>3. Differ(r, sync[q].new[r], x, sync[p].new[x])
        BY <3>2
      <4> QED BY <4>1, <4>2, <4>3 DEF Differ
    <3>4. \A q \in Syncs : Differ(r, Shown(q, r)', x, Shown(q, x)')
      BY <2>4, <3>1, <3>2
    <3> QED BY <3>2, <3>3, <3>4
  <2>6. \A q, p \in Syncs : \A r \in Rows :
          q # p => next[q].new[r] = 0 \/ next[p].new[r] = 0
    BY <1>5, <2>2 DEF UniqueInv
  <2> QED BY <2>1, <2>2, <2>5, <2>6 DEF UniqueInv
<1>8. \A q \in Syncs : next[q].still => StillInv(next[q])'
  <2>1. \A q \in Syncs : next[q].still => StillInv(next[q])
    BY <1>3 DEF ItemsInv
  <2> QED BY <1>1, <2>1, StillStands
<1>9. \A q \in Syncs : sync'[q].still => StillInv(sync[q])'
  BY <1>2, <1>8
<1> QED BY <1>4, <1>6, <1>7, <1>9 DEF ItemsInv

(* A sync that ends without a commit.                                      *)
LEMMA ItemSyncEnds ==
  ASSUME ItemsInv, NEW s \in Syncs, UNCHANGED <<pms, copy, moved>>,
         NEW st \in {"NONE", "RUNNING", "SUCCESS", "FAILED"},
         sync' = [sync EXCEPT ![s] = [IdleSync EXCEPT !.st = st]]
  PROVE  ItemsInv'
<1>1. PICK y : y = [IdleSync EXCEPT !.st = st]
  OBVIOUS
<1>2. /\ y \in ItemSync /\ y.new = [r \in Rows |-> 0] /\ DOMAIN y.page = {}
      /\ y.todo = << >> /\ y.pc = "idle" /\ y.still = FALSE
  BY <1>1, IdleIs DEF ItemSync
<1>3. /\ \A r \in DOMAIN y.page : Had(r, y.page[r])
      /\ \A i \in DOMAIN y.todo : y.todo[i] \in ToSet(Resources)
  BY <1>2
<1>4. sync' = [sync EXCEPT ![s] = y]
  BY <1>1
<1> QED BY <1>2, <1>3, <1>4, ItemSyncBecomes

(* The end of a log entry.                                                 *)
LEMMA LogIs ==
  ASSUME ItemsInv, NEW s \in Syncs
  PROVE  /\ sync[s] \in ItemSync
         /\ sync[s].st \in {"NONE", "RUNNING", "SUCCESS", "FAILED"}
         /\ LogClosed(sync[s].st, "SUCCESS") \in {"NONE", "RUNNING", "SUCCESS", "FAILED"}
         /\ LogClosed(sync[s].st, "FAILED") \in {"NONE", "RUNNING", "SUCCESS", "FAILED"}
<1>1. sync[s] \in ItemSync
  BY DEF ItemsInv, HeldInv
<1> QED BY <1>1 DEF ItemSync, LogClosed

(* The log is closed, or the sync fails in one way or another.             *)
LEMMA StepEnds ==
  ASSUME ItemsInv, NEW s \in Syncs, FinishSync(s) \/ Refuse(s) \/ FailSync(s)
  PROVE  ItemsInv'
<1>1. CASE FinishSync(s)
  BY <1>1, LogIs, ItemSyncEnds DEF FinishSync
<1>2. CASE Refuse(s)
  BY <1>2, LogIs, ItemSyncEnds DEF Refuse, RolledBack
<1>3. CASE FailSync(s)
  BY <1>3, LogIs, ItemSyncEnds DEF FailSync, RolledBack
<1> QED BY <1>1, <1>2, <1>3

(* A sync begins with the first table.                                     *)
LEMMA StepStart ==
  ASSUME ItemsInv, NEW s \in Syncs, StartAll(s) \/ StartOne(s)
  PROVE  ItemsInv'
<1>1. PICK sel \in Seq(SUBSET Nat), st \in {"NONE", "RUNNING"} :
        /\ StartSync(s, sel, st) /\ sel # << >>
        /\ \A i \in DOMAIN sel : sel[i] \in ToSet(Resources)
  <2>1. CASE StartAll(s)
    BY <2>1, RowsAre DEF StartAll, ToSet
  <2>2. ASSUME NEW i \in DOMAIN Resources, StartSync(s, <<Resources[i]>>, "RUNNING")
        PROVE  \E sel \in Seq(SUBSET Nat) : \E st \in {"NONE", "RUNNING"} :
                 /\ StartSync(s, sel, st) /\ sel # << >>
                 /\ \A j \in DOMAIN sel : sel[j] \in ToSet(Resources)
    <3>1. i \in 1..Len(Resources) /\ Resources[i] \in SUBSET Nat
      BY RowsAre
    <3>2. PICK sel : sel = <<Resources[i]>>
      OBVIOUS
    <3>3. /\ sel \in Seq(SUBSET Nat) /\ sel # << >>
          /\ \A j \in DOMAIN sel : sel[j] \in ToSet(Resources)
      BY <3>1, <3>2, RowsAre
    <3>4. StartSync(s, sel, "RUNNING")
      BY <2>2, <3>2
    <3> QED BY <3>3, <3>4
  <2> QED BY <2>1, <2>2 DEF StartOne
<1>0. PICK b \in BOOLEAN : b = (sel = Resources)
  OBVIOUS
<1>2. PICK y : y = [IdleSync EXCEPT !.st = st, !.pc = "fetch", !.todo = sel, !.still = b]
  OBVIOUS
<1>3. /\ y \in ItemSync /\ y.new = [r \in Rows |-> 0] /\ DOMAIN y.page = {} /\ y.todo = sel
      /\ y.pc = "fetch" /\ y.off = 0 /\ y.still = b
  <2>1. IdleSync.off = 0 /\ IdleSync \in ItemSync
    BY IdleIs DEF IdleSync
  <2> QED BY <1>1, <1>2, <2>1, IdleIs DEF ItemSync
<1>4. y.still => StillInv(y)
  <2> SUFFICES ASSUME y.todo = Resources PROVE StillInv(y)
    BY <1>0, <1>3
  <2>1. Resources \in Seq(SUBSET Nat) /\ Len(Resources) \in Nat
    BY RowsAre
  <2>2. \A r \in Listed(Head(y.todo)) : ~ (Place(Head(y.todo), r) < y.off)
    <3> SUFFICES ASSUME NEW r \in Listed(Head(y.todo))
                 PROVE  ~ (Place(Head(y.todo), r) < 0)
      BY <1>3
    <3>1. Head(y.todo) \in ToSet(Resources)
      BY RowsAre
    <3>2. IsFiniteSet({q \in Listed(Head(y.todo)) : q < r})
      BY <3>1, RowsAre, FS_Subset DEF Listed
    <3>3. Place(Head(y.todo), r) \in Nat
      BY <3>2, FS_CardinalityType DEF Place
    <3> QED BY <3>3
  <2> QED BY <1>3, <2>1, <2>2 DEF StillInv
<1>5. /\ UNCHANGED <<pms, copy, moved>> /\ sync' = [sync EXCEPT ![s] = y]
      /\ \A r \in DOMAIN y.page : Had(r, y.page[r])
      /\ \A i \in DOMAIN y.todo : y.todo[i] \in ToSet(Resources)
      /\ y.todo # << >>
  BY <1>0, <1>1, <1>2, <1>3 DEF StartSync
<1> QED BY <1>3, <1>4, <1>5, ItemSyncBecomes

(* The place of a row in its feed.                                         *)
LEMMA PlaceIs ==
  ASSUME NEW T \in ToSet(Resources), NEW r \in Listed(T)
  PROVE  /\ Place(T, r) \in Nat /\ Cardinality(Listed(T)) \in Nat
         /\ Place(T, r) < Cardinality(Listed(T))
<1> DEFINE before == {q \in Listed(T) : q < r}
<1>1. IsFiniteSet(Listed(T)) /\ r \in Nat
  BY RowsAre, FS_Subset DEF Listed
<1>2. before \subseteq Listed(T) /\ before # Listed(T)
  BY <1>1
<1>3. IsFiniteSet(before) /\ Cardinality(before) < Cardinality(Listed(T))
  <2> HIDE DEF before
  <2>1. IsFiniteSet(before) /\ Cardinality(before) <= Cardinality(Listed(T))
    BY <1>1, <1>2, FS_Subset
  <2>2. Cardinality(before) # Cardinality(Listed(T))
    BY <1>1, <1>2, FS_Subset
  <2> QED BY <1>1, <2>1, <2>2, FS_CardinalityType
<1> QED BY <1>1, <1>3, FS_CardinalityType DEF Place

(* A page is read.                                                         *)
LEMMA StepFetch ==
  ASSUME ItemsInv, NEW s \in Syncs, FetchPage(s)
  PROVE  ItemsInv'
<1> DEFINE y0 == sync[s]
<1>1. /\ y0 \in ItemSync /\ y0.todo \in Seq(SUBSET Nat) /\ y0.todo # << >>
      /\ y0.pc = "fetch"
      /\ \A i \in DOMAIN y0.todo : y0.todo[i] \in ToSet(Resources)
  BY DEF ItemsInv, HeldInv, ItemSync, FetchPage
<1>2. PICK T : T = Head(y0.todo)
  OBVIOUS
<1>3. PICK part : part = {r \in Listed(T) : Place(T, r) >= y0.off
                                           /\ Place(T, r) < y0.off + FeedLimit}
  OBVIOUS
<1>4. PICK pg : pg = [r \in part |-> Len(pms[r])]
  OBVIOUS
<1>5. PICK m \in BOOLEAN : m = (y0.off + FeedLimit < Cardinality(Listed(T)))
  <2>1. CASE y0.off + FeedLimit < Cardinality(Listed(T))
    <3>1. (y0.off + FeedLimit < Cardinality(Listed(T))) = TRUE
      BY <2>1
    <3> QED BY <3>1
  <2>2. CASE ~ (y0.off + FeedLimit < Cardinality(Listed(T)))
    <3>1. T \in ToSet(Resources)
      BY <1>1, <1>2, RowsAre
    <3>2. IsFiniteSet(Listed(T))
      BY <3>1, RowsAre, FS_Subset DEF Listed
    <3>3. Cardinality(Listed(T)) \in Nat /\ y0.off \in Nat /\ FeedLimit \in Nat
      BY <1>1, <3>2, RowsAre, FS_CardinalityType DEF ItemSync
    <3>4. (y0.off + FeedLimit < Cardinality(Listed(T))) = FALSE
      BY <2>2, <3>3
    <3> QED BY <3>4
  <2> QED BY <2>1, <2>2
<1>6. PICK y : y = [y0 EXCEPT !.pc = "upsert", !.page = pg, !.more = m]
  OBVIOUS
<1>7. T \in ToSet(Resources) /\ T \subseteq Rows
  BY <1>1, <1>2, RowsAre
<1>8. part \subseteq Listed(T) /\ Listed(T) \subseteq Rows /\ pg \in [part -> Nat]
      /\ \A r \in part : Had(r, Len(pms[r]))
  <2>1. part \subseteq Listed(T) /\ Listed(T) \subseteq Rows
    BY <1>3, <1>7 DEF Listed
  <2>2. \A r \in Listed(T) : Had(r, Len(pms[r])) /\ Len(pms[r]) \in Nat
    BY <2>1 DEF Listed, Code, Had, Last, ItemsInv, PmsInv
  <2> QED BY <1>4, <2>1, <2>2
<1>9. pg \in RowPages
  <2>1. part \in SUBSET Rows
    BY <1>8
  <2> QED BY <1>8, <2>1 DEF RowPages
<1>10. /\ y \in ItemSync /\ y.pc = "upsert" /\ y.page = pg /\ y.more = m
       /\ y.new = y0.new /\ y.todo = y0.todo /\ y.off = y0.off /\ y.still = y0.still
  BY <1>1, <1>5, <1>6, <1>9 DEF ItemSync
<1>11. sync' = [sync EXCEPT ![s] = y] /\ UNCHANGED <<pms, copy, moved>>
  BY <1>2, <1>3, <1>4, <1>5, <1>6 DEF FetchPage
<1>12. \A r \in DOMAIN y.page : Had(r, y.page[r])
  BY <1>4, <1>8, <1>10
<1>13. y.still => StillInv(y)
  <2> SUFFICES ASSUME y0.still PROVE StillInv(y)
    BY <1>10
  <2>1. StillInv(y0)
    BY DEF ItemsInv
  <2>2. \A r \in DOMAIN y.page : y.page[r] = Len(pms[r])
    BY <1>4, <1>10
  <2>3. ASSUME NEW r \in Listed(T), Place(T, r) < y.off + FeedLimit
        PROVE  r \in DOMAIN y.page \/ Fresh(y, r)
    <3>1. CASE Place(T, r) < y0.off
      BY <1>1, <1>2, <1>10, <2>1, <3>1 DEF StillInv, Fresh
    <3>2. CASE ~ (Place(T, r) < y0.off)
      <4>1. Place(T, r) \in Nat /\ y0.off \in Nat
        BY <1>1, <1>7, PlaceIs DEF ItemSync
      <4>2. r \in part
        BY <1>3, <1>10, <2>3, <3>2, <4>1
      <4> QED BY <1>4, <1>10, <4>2
    <3> QED BY <3>1, <3>2
  <2>4. \A i, r : r \in Listed(Resources[i]) /\ Fresh(y0, r) => Fresh(y, r)
    BY <1>10 DEF Fresh
  <2> QED BY <1>2, <1>5, <1>10, <2>1, <2>2, <2>3, <2>4 DEF StillInv
<1> HIDE DEF y0
<1>14. /\ y.new = sync[s].new /\ y.todo # << >>
       /\ \A i \in DOMAIN y.todo : y.todo[i] \in ToSet(Resources)
  BY <1>1, <1>10 DEF y0
<1> QED BY <1>10, <1>11, <1>12, <1>13, <1>14, ItemSyncBecomes

(* A page is done.                                                         *)
LEMMA StepPageDone ==
  ASSUME ItemsInv, NEW s \in Syncs, PageDone(s)
  PROVE  ItemsInv'
<1> DEFINE y0 == sync[s]
<1>1. /\ y0 \in ItemSync /\ y0.todo \in Seq(SUBSET Nat) /\ y0.todo # << >>
      /\ y0.pc = "upsert" /\ DOMAIN y0.page = {} /\ y0.off \in Nat
      /\ \A i \in DOMAIN y0.todo : y0.todo[i] \in ToSet(Resources)
  BY DEF ItemsInv, HeldInv, ItemSync, PageDone
<1>2. PICK y : y = AfterFeed(y0)
  OBVIOUS
<1>3. sync' = [sync EXCEPT ![s] = y] /\ UNCHANGED <<pms, copy, moved>>
  BY <1>2 DEF PageDone
<1>4. FeedLimit \in Nat /\ Len(y0.todo) \in Nat /\ Head(y0.todo) \in ToSet(Resources)
  BY <1>1, RowsAre
<1>5. Tail(y0.todo) \in Seq(SUBSET Nat)
      /\ Len(Tail(y0.todo)) = Len(y0.todo) - 1
      /\ \A i \in 1..(Len(y0.todo) - 1) : Tail(y0.todo)[i] = y0.todo[i + 1]
  BY <1>1
<1>6. /\ y \in ItemSync /\ y.new = y0.new /\ y.page = y0.page /\ y.still = y0.still
      /\ \/ /\ y0.more /\ y.pc = "fetch" /\ y.off = y0.off + FeedLimit /\ y.todo = y0.todo
         \/ /\ ~y0.more /\ y.pc = "fetch" /\ y.off = 0 /\ y.todo = Tail(y0.todo)
            /\ Len(y0.todo) > 1
         \/ /\ ~y0.more /\ y.pc = "commit" /\ y.todo = << >> /\ Len(y0.todo) <= 1
  <2>1. CASE y0.more
    <3>1. PICK o : o = y0.off + FeedLimit
      OBVIOUS
    <3>2. y = [y0 EXCEPT !.off = o, !.pc = "fetch"]
      BY <1>2, <2>1, <3>1 DEF AfterFeed
    <3>3. o \in Nat
      BY <1>1, <1>4, <3>1
    <3>4. y \in ItemSync /\ y.new = y0.new /\ y.page = y0.page /\ y.still = y0.still
          /\ y.pc = "fetch" /\ y.off = o /\ y.todo = y0.todo
      BY <1>1, <3>2, <3>3 DEF ItemSync
    <3> QED BY <2>1, <3>1, <3>4
  <2>2. CASE ~y0.more /\ Len(y0.todo) > 1
    <3>1. y = [y0 EXCEPT !.off = 0, !.todo = Tail(y0.todo), !.pc = "fetch"]
      BY <1>2, <2>2 DEF AfterFeed
    <3> QED BY <1>1, <1>5, <2>2, <3>1 DEF ItemSync
  <2>3. CASE ~y0.more /\ ~ (Len(y0.todo) > 1)
    <3>1. y = [y0 EXCEPT !.todo = << >>, !.off = 0, !.pc = "commit"]
      BY <1>2, <2>3 DEF AfterFeed
    <3>2. << >> \in Seq(SUBSET Nat)
      OBVIOUS
    <3>3. y \in ItemSync /\ y.new = y0.new /\ y.page = y0.page /\ y.still = y0.still
          /\ y.pc = "commit" /\ y.todo = << >>
      BY <1>1, <3>1, <3>2 DEF ItemSync
    <3> QED BY <1>4, <2>3, <3>3
  <2> QED BY <2>1, <2>2, <2>3
<1>7. /\ \A i \in DOMAIN y.todo : y.todo[i] \in ToSet(Resources)
      /\ y.pc \in {"fetch", "upsert"} => y.todo # << >>
  <2>1. CASE y.todo = y0.todo
    BY <1>1, <2>1
  <2>2. CASE y.todo = << >> /\ y.pc = "commit"
    BY <2>2
  <2>3. CASE y.todo = Tail(y0.todo) /\ Len(y0.todo) > 1
    <3>1. DOMAIN y.todo = 1..(Len(y0.todo) - 1) /\ y.todo # << >>
      <4>1. PICK t : t = Tail(y0.todo)
        OBVIOUS
      <4>2. t \in Seq(SUBSET Nat) /\ Len(t) = Len(y0.todo) - 1
        BY <1>5, <4>1
      <4>3. Len(t) # 0
        <5>1. PICK n : n = Len(y0.todo)
          OBVIOUS
        <5>2. n \in Nat /\ n > 1
          BY <1>4, <2>3, <5>1
        <5>3. n - 1 # 0
          BY <5>2
        <5> QED BY <4>2, <5>1, <5>3
      <4>4. DOMAIN t = 1..Len(t) /\ t # << >>
        <5>1. DOMAIN t = 1..Len(t)
          BY <4>2
        <5>2. Len(<< >>) = 0
          OBVIOUS
        <5> QED BY <4>3, <5>1, <5>2
      <4> QED BY <2>3, <4>1, <4>2, <4>4
    <3>2. ASSUME NEW i \in 1..(Len(y0.todo) - 1) PROVE y.todo[i] \in ToSet(Resources)
      <4>1. i + 1 \in DOMAIN y0.todo
        BY <1>1, <1>4
      <4> QED BY <1>1, <1>5, <2>3, <4>1
    <3> QED BY <3>1, <3>2
  <2> QED BY <1>6, <2>1, <2>2, <2>3
<1>8. \A i, r : Fresh(y0, r) => Fresh(y, r)
  BY <1>6 DEF Fresh
<1>9. ASSUME y0.still PROVE StillInv(y)
  <2>1. StillInv(y0)
    BY <1>9 DEF ItemsInv
  <2>2. Len(Resources) \in Nat /\ Len(y0.todo) >= 1 /\ Len(y0.todo) <= Len(Resources)
    BY <1>1, <2>1, RowsAre DEF StillInv
  <2>3. y0.todo[1] = Resources[Len(Resources) - Len(y0.todo) + 1] /\ Head(y0.todo) = y0.todo[1]
    <3>1. 1 \in 1..Len(y0.todo)
      BY <1>4, <2>2
    <3>2. y0.todo[1] = Resources[Len(Resources) - Len(y0.todo) + 1]
      BY <2>1, <3>1 DEF StillInv
    <3>3. Head(y0.todo) = y0.todo[1]
      BY <1>1
    <3> QED BY <3>2, <3>3
  <2>4. ASSUME NEW r \in Listed(Head(y0.todo)), Place(Head(y0.todo), r) < y0.off + FeedLimit
        PROVE  Fresh(y, r)
    BY <1>1, <1>8, <2>1, <2>4 DEF StillInv
  <2>5. CASE y0.more
    <3>1. y.pc = "fetch" /\ y.off = y0.off + FeedLimit /\ y.todo = y0.todo
      BY <1>6, <2>5
    <3> QED BY <1>8, <2>1, <2>4, <3>1 DEF StillInv
  <2>6. ASSUME ~y0.more, NEW r \in Listed(Head(y0.todo)) PROVE Fresh(y, r)
    <3>1. ~ (y0.off + FeedLimit < Cardinality(Listed(Head(y0.todo))))
      BY <1>1, <2>1, <2>6 DEF StillInv
    <3>2. /\ Place(Head(y0.todo), r) \in Nat /\ Cardinality(Listed(Head(y0.todo))) \in Nat
          /\ Place(Head(y0.todo), r) < Cardinality(Listed(Head(y0.todo)))
      BY <1>4, PlaceIs
    <3> QED BY <1>1, <1>4, <2>4, <3>1, <3>2
  <2>7. ASSUME ~y0.more, NEW i \in 1..(Len(Resources) - (Len(y0.todo) - 1)),
               NEW r \in Listed(Resources[i])
        PROVE  Fresh(y, r)
    <3>1. CASE i = Len(Resources) - Len(y0.todo) + 1
      BY <2>3, <2>6, <2>7, <3>1
    <3>2. CASE i # Len(Resources) - Len(y0.todo) + 1
      <4>1. i \in 1..(Len(Resources) - Len(y0.todo))
        BY <1>4, <2>2, <3>2
      <4> QED BY <1>8, <2>1, <4>1 DEF StillInv
    <3> QED BY <3>1, <3>2
  <2>8. CASE ~y0.more /\ Len(y0.todo) > 1
    <3>1. y.pc = "fetch" /\ y.off = 0 /\ y.todo = Tail(y0.todo)
      BY <1>6, <2>8
    <3>2. Len(y.todo) = Len(y0.todo) - 1
      BY <1>5, <3>1
    <3>3. ASSUME NEW i \in 1..Len(y.todo)
          PROVE  y.todo[i] = Resources[Len(Resources) - Len(y.todo) + i]
      <4>1. y.todo[i] = y0.todo[i + 1]
        BY <1>5, <3>1, <3>2
      <4>2. i + 1 \in 1..Len(y0.todo)
        BY <1>4, <3>2
      <4>3. y0.todo[i + 1] = Resources[Len(Resources) - Len(y0.todo) + (i + 1)]
        BY <2>1, <4>2 DEF StillInv
      <4>4. Len(Resources) - Len(y0.todo) + (i + 1) = Len(Resources) - Len(y.todo) + i
        BY <1>4, <2>2, <3>2
      <4> QED BY <4>1, <4>3, <4>4
    <3>4. Head(y.todo) \in ToSet(Resources)
      <4>1. 1 \in DOMAIN y.todo /\ Head(y.todo) = y.todo[1]
        BY <1>4, <1>5, <2>8, <3>1, <3>2
      <4> QED BY <1>7, <4>1
    <3>5. \A r \in Listed(Head(y.todo)) : ~ (Place(Head(y.todo), r) < y.off)
      <4> SUFFICES ASSUME NEW r \in Listed(Head(y.todo))
                   PROVE  ~ (Place(Head(y.todo), r) < 0)
        BY <3>1
      <4>1. Place(Head(y.todo), r) \in Nat
        BY <3>4, PlaceIs
      <4> QED BY <4>1
    <3>6. Len(y.todo) <= Len(Resources)
          /\ Len(Resources) - Len(y.todo) = Len(Resources) - (Len(y0.todo) - 1)
      BY <1>4, <2>2, <3>2
    <3> QED BY <2>7, <2>8, <3>1, <3>3, <3>5, <3>6 DEF StillInv
  <2>9. CASE ~y0.more /\ ~ (Len(y0.todo) > 1)
    <3>1. y.pc = "commit" /\ y.todo = << >>
      BY <1>6, <2>9
    <3>4. Len(y0.todo) = 1
      <4>1. PICK n : n = Len(y0.todo)
        OBVIOUS
      <4>2. n \in Nat /\ n >= 1 /\ ~ (n > 1)
        BY <1>4, <2>2, <2>9, <4>1
      <4>3. n = 1
        BY <4>2
      <4> QED BY <4>1, <4>3
    <3>2. Len(y.todo) = 0 /\ Len(Resources) - Len(y.todo) = Len(Resources) - (Len(y0.todo) - 1)
      BY <2>2, <3>1, <3>4
    <3>3. Len(y.todo) <= Len(Resources) /\ 1..Len(y.todo) = {}
      BY <2>2, <3>2
    <3> QED BY <2>7, <2>9, <3>1, <3>2, <3>3 DEF StillInv
  <2> QED BY <2>5, <2>8, <2>9
<1>10. y.still => StillInv(y)
  BY <1>6, <1>9
<1>11. \A r \in DOMAIN y.page : Had(r, y.page[r])
  BY <1>1, <1>6
<1>12. y.new = sync[s].new /\ y \in ItemSync
  BY <1>6
<1> HIDE DEF y0
<1> QED BY <1>3, <1>7, <1>10, <1>11, <1>12, ItemSyncBecomes

-----------------------------------------------------------------------------
(* A non-empty set of natural numbers has its minimum.                     *)
LEMMA MinIs ==
  ASSUME NEW S \in SUBSET Nat, S # {}
  PROVE  Min(S) \in S /\ \A n \in S : Min(S) <= n
<1> DEFINE R == OpToRel(<, Nat)
<1>1. \E x \in S : \A y \in S : <<y, x>> \notin R
  <2>1. IsWellFoundedOn(R, Nat)
    BY NatLessThanWellFounded
  <2> HIDE DEF R
  <2> QED BY <2>1, WFMin
<1>2. PICK x \in S : \A y \in S : <<y, x>> \notin R
  BY <1>1
<1>3. R = {ss \in Nat \X Nat : ss[1] < ss[2]}
  BY DEF OpToRel
<1>4. ASSUME NEW y \in S PROVE x <= y
  <2> HIDE DEF R
  <2>1. <<y, x>> \notin R /\ <<y, x>> \in Nat \X Nat
    BY <1>2
  <2>2. ~ (y < x)
    BY <1>3, <2>1
  <2> QED BY <2>2
<1> QED BY <1>2, <1>4 DEF Min

(* What a sync sees of a row.                                              *)
LEMMA ShownIs ==
  ASSUME ItemsInv, NEW s \in Syncs, NEW r \in Rows
  PROVE  /\ Shown(s, r) = 0 \/ Had(r, Shown(s, r))
         /\ Shown(s, r) # 0 => CodeIn(s, r) = pms[r][Shown(s, r)]
<1>1. /\ copy[r] = 0 \/ Had(r, copy[r])
      /\ sync[s].new[r] = 0 \/ Had(r, sync[s].new[r])
  BY DEF ItemsInv, HeldInv
<1> QED BY <1>1 DEF Shown, CodeIn

(* A row is written: it is nobody else's, and neither is its code.         *)
LEMMA StepUpsert ==
  ASSUME ItemsInv, NEW s \in Syncs, UpsertRow(s)
  PROVE  ItemsInv'
<1> DEFINE y0 == sync[s]
<1>1. /\ y0 \in ItemSync /\ y0.pc = "upsert" /\ DOMAIN y0.page # {}
      /\ \A q \in DOMAIN y0.page : Had(q, y0.page[q])
  BY DEF ItemsInv, HeldInv, UpsertRow
<1>2. PICK r : r = FirstOf(y0.page)
  OBVIOUS
<1>3. PICK v : v = y0.page[r]
  OBVIOUS
<1>4. PICK pg : pg = Restrict(y0.page, DOMAIN y0.page \ {r})
  OBVIOUS
<1>5. /\ DOMAIN y0.page \in SUBSET Rows /\ y0.page \in [DOMAIN y0.page -> Nat]
      /\ r \in DOMAIN y0.page
  <2>1. DOMAIN y0.page \in SUBSET Rows /\ y0.page \in [DOMAIN y0.page -> Nat]
    BY <1>1 DEF ItemSync, RowPages
  <2>2. DOMAIN y0.page \in SUBSET Nat
    BY <2>1, RowsAre
  <2> QED BY <1>1, <1>2, <2>1, <2>2, MinIs DEF FirstOf
<1>6. /\ r \in Rows /\ v \in Nat /\ Had(r, v) /\ v # 0
  <2>1. Had(r, v) /\ r \in Rows
    BY <1>1, <1>3, <1>5
  <2>2. pms[r] \in Seq(Codes \cup {Nothing})
    BY <2>1 DEF ItemsInv, PmsInv
  <2> QED BY <2>1, <2>2 DEF Had
<1>7. /\ pg \in RowPages /\ DOMAIN pg = DOMAIN y0.page \ {r}
      /\ \A q \in DOMAIN pg : pg[q] = y0.page[q]
  <2>1. pg \in [DOMAIN y0.page \ {r} -> Nat]
    BY <1>4, <1>5 DEF Restrict
  <2>2. DOMAIN y0.page \ {r} \in SUBSET Rows
    BY <1>5
  <2> QED BY <1>4, <2>1, <2>2 DEF Restrict, RowPages
<1>8. PICK new : new = [y0.new EXCEPT ![r] = v]
  OBVIOUS
<1>9. /\ new \in [Rows -> Nat] /\ new[r] = v
      /\ \A q \in Rows \ {r} : new[q] = y0.new[q]
  BY <1>1, <1>6, <1>8 DEF ItemSync
<1>10. PICK y : y = [y0 EXCEPT !.page = pg, !.new = new]
  OBVIOUS
<1>11. /\ y \in ItemSync /\ y.page = pg /\ y.new = new /\ y.pc = "upsert" /\ y.off = y0.off
       /\ y.todo = y0.todo /\ y.more = y0.more /\ y.still = y0.still
  BY <1>1, <1>7, <1>9, <1>10 DEF ItemSync
<1>12. /\ sync' = [sync EXCEPT ![s] = y] /\ UNCHANGED <<pms, copy, moved>>
       /\ ~UpsertWaits(s, r, pms[r][v]) /\ ~Taken(s, r, pms[r][v])
  BY <1>1, <1>2, <1>3, <1>4, <1>8, <1>10 DEF UpsertRow, ItemSync
<1>13. PICK next : next = sync'
  OBVIOUS
<1>14. /\ next \in [Syncs -> ItemSync] /\ next[s] = y
       /\ \A q \in Syncs \ {s} : next[q] = sync[q]
  BY <1>11, <1>12, <1>13 DEF ItemsInv, HeldInv
<1> HIDE DEF y0
<1>15. PmsInv' /\ moved' \in BOOLEAN
  BY <1>12 DEF ItemsInv, PmsInv, Code, Last
<1>16. HeldInv'
  <2>1. \A q \in Syncs :
          /\ \A x \in Rows : next[q].new[x] = 0 \/ Had(x, next[q].new[x])
          /\ \A x \in DOMAIN next[q].page : Had(x, next[q].page[x])
          /\ \A i \in DOMAIN next[q].todo : next[q].todo[i] \in ToSet(Resources)
          /\ next[q].pc \in {"fetch", "upsert"} => next[q].todo # << >>
    <3>1. /\ \A x \in Rows : y0.new[x] = 0 \/ Had(x, y0.new[x])
          /\ \A x \in DOMAIN y0.page : Had(x, y0.page[x])
          /\ \A i \in DOMAIN y0.todo : y0.todo[i] \in ToSet(Resources)
          /\ y0.todo # << >>
      BY <1>1 DEF ItemsInv, HeldInv, y0
    <3>2. \A x \in Rows : y.new[x] = 0 \/ Had(x, y.new[x])
      BY <1>6, <1>9, <1>11, <3>1
    <3>3. \A x \in DOMAIN y.page : Had(x, y.page[x])
      BY <1>7, <1>11, <3>1
    <3> QED BY <1>11, <1>14, <3>1, <3>2, <3>3 DEF ItemsInv, HeldInv
  <2>2. copy \in [Rows -> Nat] /\ \A x \in Rows : copy[x] = 0 \/ Had(x, copy[x])
    BY DEF ItemsInv, HeldInv
  <2>3. \A x, w : Had(x, w)' <=> Had(x, w)
    BY <1>12, FeedsStand
  <2> QED BY <1>12, <1>13, <1>14, <2>1, <2>2, <2>3 DEF HeldInv
<1>17. UniqueInv'
  <2>1. \A z, w, x, u : Differ(z, w, x, u)' <=> Differ(z, w, x, u)
    BY <1>12, FeedsStand
  <2>2. UniqueInv /\ copy' = copy
    BY <1>12 DEF ItemsInv
  <2>3. ASSUME NEW q \in Syncs \ {s}
        PROVE  /\ sync[q].new[r] = 0
               /\ \A x \in TableOf(r) : sync[q].new[x] # 0 => pms[r][v] # CodeIn(q, x)
    BY <1>12 DEF UpsertWaits
  <2>4. \A x \in TableOf(r) \ {r} : pms[r][v] # CodeIn(s, x)
    BY <1>12 DEF Taken
  <2>5. \A q \in Syncs \ {s}, x \in Rows : Shown(q, x)' = Shown(q, x)
    BY <1>12, <1>13, <1>14 DEF Shown
  <2>6. Shown(s, r)' = v /\ \A x \in Rows \ {r} : Shown(s, x)' = Shown(s, x)
    BY <1>6, <1>9, <1>11, <1>12, <1>13, <1>14 DEF Shown, y0
  <2>7. ASSUME NEW x \in TableOf(r), x # r
        PROVE  Differ(r, v, x, Shown(s, x)) /\ Differ(x, Shown(s, x), r, v)
    <3>1. x \in Rows
      BY <1>6, RowsAre
    <3> QED BY <2>4, <2>7, <3>1, ShownIs DEF Differ
  <2>8. ASSUME NEW q \in Syncs \ {s}, NEW x \in TableOf(r), x # r
        PROVE  Differ(r, v, x, sync[q].new[x]) /\ Differ(x, sync[q].new[x], r, v)
    <3>1. x \in Rows
      BY <1>6, RowsAre
    <3>2. sync[q].new[x] # 0 => Shown(q, x) = sync[q].new[x]
      BY DEF Shown
    <3> QED BY <2>3, <2>8, <3>1, <3>2, ShownIs DEF Differ
  <2>9. ASSUME NEW T \in ToSet(Resources), NEW z \in T, NEW x \in T, z # x
        PROVE  /\ Differ(z, copy[z], x, copy[x])
               /\ \A q \in Syncs : Differ(z, Shown(q, z)', x, Shown(q, x)')
               /\ \A q, p \in Syncs :
                    q # p => Differ(z, next[q].new[z], x, next[p].new[x])
    <3>1. z \in Rows /\ x \in Rows /\ (r \in {z, x} => TableOf(r) = T)
      BY <1>6, RowsAre
    <3>2. /\ Differ(z, copy[z], x, copy[x])
          /\ \A q \in Syncs : Differ(z, Shown(q, z), x, Shown(q, x))
          /\ \A q, p \in Syncs : q # p => Differ(z, sync[q].new[z], x, sync[p].new[x])
      BY <2>2, <2>9 DEF UniqueInv
    <3>3. ASSUME NEW q \in Syncs PROVE Differ(z, Shown(q, z)', x, Shown(q, x)')
      <4>1. CASE q # s \/ r \notin {z, x}
        BY <2>5, <2>6, <3>1, <3>2, <4>1
      <4>2. CASE q = s /\ r = z
        BY <2>6, <2>7, <2>9, <3>1, <4>2
      <4>3. CASE q = s /\ r = x
        BY <2>6, <2>7, <2>9, <3>1, <4>3
      <4> QED BY <4>1, <4>2, <4>3
    <3>4. ASSUME NEW q \in Syncs, NEW p \in Syncs, q # p
          PROVE  Differ(z, next[q].new[z], x, next[p].new[x])
      <4>1. Differ(z, sync[q].new[z], x, sync[p].new[x])
        BY <3>2, <3>4
      <4>2. CASE q = s /\ z = r
        <5>1. next[q].new[z] = v /\ next[p].new[x] = sync[p].new[x]
          BY <1>9, <1>11, <1>14, <3>4, <4>2
        <5> QED BY <2>8, <2>9, <3>1, <3>4, <4>2, <5>1
      <4>3. CASE p = s /\ x = r
        <5>1. next[p].new[x] = v /\ next[q].new[z] = sync[q].new[z]
          BY <1>9, <1>11, <1>14, <3>4, <4>3
        <5> QED BY <2>8, <2>9, <3>1, <3>4, <4>3, <5>1
      <4>4. CASE ~ (q = s /\ z = r) /\ ~ (p = s /\ x = r)
        <5>1. next[q].new[z] = sync[q].new[z] /\ next[p].new[x] = sync[p].new[x]
          BY <1>9, <1>11, <1>14, <3>1, <4>4 DEF y0
        <5> QED BY <4>1, <5>1
      <4> QED BY <4>2, <4>3, <4>4
    <3> QED BY <3>2, <3>3, <3>4
  <2>10. ASSUME NEW q \in Syncs, NEW p \in Syncs, NEW x \in Rows, q # p
         PROVE  next[q].new[x] = 0 \/ next[p].new[x] = 0
    <3>1. sync[q].new[x] = 0 \/ sync[p].new[x] = 0
      BY <2>2, <2>10 DEF UniqueInv
    <3>2. CASE x = r
      BY <1>14, <2>3, <2>10, <3>2
    <3>3. CASE x # r
      BY <1>9, <1>11, <1>14, <3>1, <3>3 DEF y0
    <3> QED BY <3>2, <3>3
  <2> QED BY <1>13, <2>1, <2>2, <2>9, <2>10 DEF UniqueInv
<1>18. \A q \in Syncs : next[q].still => StillInv(next[q])'
  <2>1. ASSUME y0.still PROVE StillInv(y)
    <3>1. StillInv(y0)
      BY <2>1 DEF ItemsInv, y0
    <3>2. v = Len(pms[r])
      BY <1>1, <1>3, <1>5, <3>1 DEF StillInv
    <3>3. \A x \in Rows : Fresh(y0, x) => Fresh(y, x)
      BY <1>9, <1>11, <3>2 DEF Fresh
    <3>4. Fresh(y, r)
      BY <1>9, <1>11, <3>2 DEF Fresh
    <3>5. \A i \in 1..Len(Resources) : \A x \in Listed(Resources[i]) : x \in Rows
      BY RowsAre DEF Listed
    <3>6. /\ y0.todo # << >> /\ y0.todo \in Seq(SUBSET Nat)
          /\ \A i \in DOMAIN y0.todo : y0.todo[i] \in ToSet(Resources)
      BY <1>1 DEF ItemsInv, HeldInv, y0, ItemSync
    <3>7. \A x \in Listed(Head(y0.todo)) : x \in Rows
      BY <3>6, RowsAre DEF Listed
    <3>8. \A x \in DOMAIN y.page : y.page[x] = Len(pms[x])
      BY <1>1, <1>7, <1>11, <3>1 DEF StillInv
    <3>9. ASSUME NEW x \in Listed(Head(y.todo)),
                 Place(Head(y.todo), x) < y.off + FeedLimit
          PROVE  x \in DOMAIN y.page \/ Fresh(y, x)
      <4>1. x \in DOMAIN y0.page \/ Fresh(y0, x)
        BY <1>1, <1>11, <3>1, <3>9 DEF StillInv
      <4> QED BY <1>7, <1>11, <3>3, <3>4, <3>7, <3>9, <4>1
    <3>10. Len(Resources) \in Nat /\ Len(y0.todo) \in Nat
      BY <3>6, RowsAre
    <3>11. \A i \in 1..(Len(Resources) - Len(y.todo)) :
             \A x \in Listed(Resources[i]) : Fresh(y, x)
      <4> SUFFICES ASSUME NEW i \in 1..(Len(Resources) - Len(y.todo)),
                          NEW x \in Listed(Resources[i])
                   PROVE  Fresh(y, x)
        OBVIOUS
      <4>1. Fresh(y0, x)
        BY <1>11, <3>1 DEF StillInv
      <4>2. i \in 1..Len(Resources)
        BY <1>11, <3>10
      <4> QED BY <3>3, <3>5, <4>1, <4>2
    <3> QED BY <1>1, <1>11, <3>1, <3>8, <3>9, <3>11 DEF StillInv
  <2>2. \A q \in Syncs : next[q].still => StillInv(next[q])
    BY <1>11, <1>14, <2>1 DEF ItemsInv
  <2> QED BY <1>12, <2>2, StillStands
<1>19. \A q \in Syncs : sync'[q].still => StillInv(sync[q])'
  BY <1>13, <1>18
<1> QED BY <1>15, <1>16, <1>17, <1>19 DEF ItemsInv

(* A sync commits what it wrote.                                           *)
LEMMA StepCommitSync ==
  ASSUME ItemsInv, NEW s \in Syncs, CommitSync(s)
  PROVE  ItemsInv'
<1>1. PICK y : y = [IdleSync EXCEPT !.st = sync[s].st, !.pc = "finish"]
  OBVIOUS
<1>2. /\ y \in ItemSync /\ y.new = [r \in Rows |-> 0] /\ DOMAIN y.page = {}
      /\ y.todo = << >> /\ y.pc = "finish" /\ y.still = FALSE
  <2>1. PICK st : st = sync[s].st
    OBVIOUS
  <2>2. st \in {"NONE", "RUNNING", "SUCCESS", "FAILED"}
    BY <2>1 DEF ItemsInv, HeldInv, ItemSync
  <2>3. y = [IdleSync EXCEPT !.st = st, !.pc = "finish"]
    BY <1>1, <2>1
  <2>4. y \in ItemSync
    BY <2>2, <2>3, IdleIs
  <2>5. /\ y.new = IdleSync.new /\ y.page = IdleSync.page /\ y.todo = IdleSync.todo
        /\ y.still = IdleSync.still /\ y.pc = "finish"
    <3>1. IdleSync \in ItemSync
      BY IdleIs
    <3> QED BY <2>3, <3>1 DEF ItemSync
  <2> QED BY <2>4, <2>5, IdleIs
<1>3. PICK next, now : next = sync' /\ now = copy'
  OBVIOUS
<1>4. /\ sync' = [sync EXCEPT ![s] = y] /\ UNCHANGED <<pms, moved>>
      /\ now = [r \in Rows |-> Shown(s, r)]
  BY <1>1, <1>3 DEF CommitSync
<1>5. /\ next \in [Syncs -> ItemSync] /\ next[s] = y
      /\ \A q \in Syncs \ {s} : next[q] = sync[q]
  BY <1>2, <1>3, <1>4 DEF ItemsInv, HeldInv
<1>6. PmsInv' /\ moved' \in BOOLEAN
  BY <1>4 DEF ItemsInv, PmsInv, Code, Last
<1>7. HeldInv'
  <2>1. now \in [Rows -> Nat] /\ \A r \in Rows : now[r] = 0 \/ Had(r, now[r])
    <3>1. \A r \in Rows : Shown(s, r) \in Nat
      BY DEF ItemsInv, HeldInv, ItemSync, Shown
    <3> QED BY <1>4, <3>1, ShownIs
  <2>2. \A q \in Syncs :
          /\ \A r \in Rows : next[q].new[r] = 0 \/ Had(r, next[q].new[r])
          /\ \A r \in DOMAIN next[q].page : Had(r, next[q].page[r])
          /\ \A i \in DOMAIN next[q].todo : next[q].todo[i] \in ToSet(Resources)
          /\ next[q].pc \in {"fetch", "upsert"} => next[q].todo # << >>
    BY <1>2, <1>5 DEF ItemsInv, HeldInv
  <2>3. \A r, v : Had(r, v)' <=> Had(r, v)
    BY <1>4, FeedsStand
  <2> QED BY <1>3, <1>5, <2>1, <2>2, <2>3 DEF HeldInv
<1>8. UniqueInv'
  <2>1. \A z, w, x, u : Differ(z, w, x, u)' <=> Differ(z, w, x, u)
    BY <1>4, FeedsStand
  <2>2. UniqueInv
    BY DEF ItemsInv
  <2>3. \A r \in Rows : Shown(s, r)' = now[r] /\ now[r] = Shown(s, r)
    BY <1>2, <1>3, <1>4, <1>5 DEF Shown
  <2>4. \A q \in Syncs \ {s} : \A r \in Rows :
          Shown(q, r)' = IF sync[q].new[r] # 0 THEN sync[q].new[r] ELSE Shown(s, r)
    BY <1>3, <1>4, <1>5 DEF Shown
  <2>5. \A q \in Syncs \ {s} : \A r \in Rows :
          \/ sync[q].new[r] # 0 /\ Shown(q, r) = sync[q].new[r]
          \/ /\ sync[q].new[r] = 0 /\ sync[s].new[r] # 0 /\ Shown(s, r) = sync[s].new[r]
          \/ /\ sync[q].new[r] = 0 /\ sync[s].new[r] = 0
             /\ Shown(s, r) = copy[r] /\ Shown(q, r) = copy[r]
    BY DEF Shown
  <2>6. ASSUME NEW T \in ToSet(Resources), NEW z \in T, NEW x \in T, z # x
        PROVE  /\ Differ(z, now[z], x, now[x])
               /\ \A q \in Syncs : Differ(z, Shown(q, z)', x, Shown(q, x)')
               /\ \A q, p \in Syncs :
                    q # p => Differ(z, next[q].new[z], x, next[p].new[x])
    <3>1. z \in Rows /\ x \in Rows
      BY RowsAre
    <3>2. /\ Differ(z, copy[z], x, copy[x])
          /\ \A q \in Syncs : Differ(z, Shown(q, z), x, Shown(q, x))
          /\ \A q, p \in Syncs : q # p => Differ(z, sync[q].new[z], x, sync[p].new[x])
      BY <2>2, <2>6 DEF UniqueInv
    <3>3. Differ(z, now[z], x, now[x])
      BY <2>3, <3>1, <3>2
    <3>4. ASSUME NEW q \in Syncs \ {s} PROVE Differ(z, Shown(q, z)', x, Shown(q, x)')
      <4>1. /\ Differ(z, sync[q].new[z], x, sync[s].new[x])
            /\ Differ(z, sync[s].new[z], x, sync[q].new[x])
            /\ Differ(z, Shown(q, z), x, Shown(q, x))
            /\ Differ(z, Shown(s, z), x, Shown(s, x))
        BY <3>2
      <4>2. CASE sync[q].new[z] # 0 /\ sync[q].new[x] # 0
        <5>1. Shown(q, z)' = Shown(q, z) /\ Shown(q, x)' = Shown(q, x)
          BY <2>4, <2>5, <3>1, <4>2
        <5> QED BY <4>1, <5>1
      <4>3. CASE sync[q].new[z] # 0 /\ sync[q].new[x] = 0
        <5>1. Shown(q, z)' = sync[q].new[z] /\ Shown(q, z) = sync[q].new[z]
              /\ Shown(q, x)' = Shown(s, x)
          BY <2>4, <2>5, <3>1, <4>3
        <5>2. Shown(s, x) = sync[s].new[x] \/ Shown(s, x) = Shown(q, x)
          BY <2>5, <3>1, <4>3
        <5> QED BY <4>1, <5>1, <5>2
      <4>4. CASE sync[q].new[z] = 0 /\ sync[q].new[x] # 0
        <5>1. Shown(q, x)' = sync[q].new[x] /\ Shown(q, x) = sync[q].new[x]
              /\ Shown(q, z)' = Shown(s, z)
          BY <2>4, <2>5, <3>1, <4>4
        <5>2. Shown(s, z) = sync[s].new[z] \/ Shown(s, z) = Shown(q, z)
          BY <2>5, <3>1, <4>4
        <5> QED BY <4>1, <5>1, <5>2
      <4>5. CASE sync[q].new[z] = 0 /\ sync[q].new[x] = 0
        BY <2>4, <3>1, <4>1, <4>5
      <4> QED BY <4>2, <4>3, <4>4, <4>5
    <3>5. Differ(z, Shown(s, z)', x, Shown(s, x)')
      BY <2>3, <3>1, <3>3
    <3>6. \A q, p \in Syncs :
            q # p => Differ(z, next[q].new[z], x, next[p].new[x])
      <4> SUFFICES ASSUME NEW q \in Syncs, NEW p \in Syncs, q # p
                   PROVE  Differ(z, next[q].new[z], x, next[p].new[x])
        OBVIOUS
      <4>1. CASE s \in {q, p}
        <5>1. next[q].new[z] = 0 \/ next[p].new[x] = 0
          BY <1>2, <1>5, <3>1, <4>1
        <5> QED BY <5>1 DEF Differ
      <4>2. CASE s \notin {q, p}
        BY <1>5, <3>2, <4>2
      <4> QED BY <4>1, <4>2
    <3> QED BY <3>3, <3>4, <3>5, <3>6
  <2>7. \A q, p \in Syncs : \A r \in Rows :
          q # p => next[q].new[r] = 0 \/ next[p].new[r] = 0
    BY <1>2, <1>5, <2>2 DEF UniqueInv
  <2> QED BY <1>3, <2>1, <2>6, <2>7 DEF UniqueInv
<1>9. \A q \in Syncs : next[q].still => StillInv(next[q])'
  <2>1. \A q \in Syncs : next[q].still => StillInv(next[q])
    BY <1>2, <1>5 DEF ItemsInv
  <2> QED BY <1>4, <2>1, StillStands
<1>10. \A q \in Syncs : sync'[q].still => StillInv(sync[q])'
  BY <1>3, <1>9
<1> QED BY <1>6, <1>7, <1>8, <1>10 DEF ItemsInv

(* PMS changes: what was had stays what it was, and no sync is still.      *)
LEMMA StepChange ==
  ASSUME ItemsInv, NEW r \in Rows, NEW c \in Codes \cup {Nothing}, Change(r, c)
  PROVE  ItemsInv'
<1>1. PICK next, feeds : next = sync' /\ feeds = pms'
  OBVIOUS
<1>2. /\ feeds = [pms EXCEPT ![r] = Append(@, c)] /\ UNCHANGED copy
      /\ next = [s \in Syncs |-> [sync[s] EXCEPT !.still = FALSE]]
      /\ moved' \in BOOLEAN
  BY <1>1 DEF Change
<1>3. pms \in [Rows -> Seq(Codes \cup {Nothing})] /\ sync \in [Syncs -> ItemSync]
  BY DEF ItemsInv, PmsInv, HeldInv
<1>4. /\ feeds \in [Rows -> Seq(Codes \cup {Nothing})]
      /\ \A x \in Rows \ {r} : feeds[x] = pms[x]
      /\ feeds[r] = Append(pms[r], c)
  BY <1>2, <1>3
<1>5. ASSUME NEW s \in Syncs
      PROVE  /\ next[s] \in ItemSync /\ next[s].still = FALSE /\ next[s].new = sync[s].new
             /\ next[s].page = sync[s].page /\ next[s].todo = sync[s].todo
             /\ next[s].pc = sync[s].pc
  BY <1>2, <1>3 DEF ItemSync
<1>6. \A x \in Rows : \A v : Had(x, v) => v \in 1..Len(feeds[x]) /\ feeds[x][v] = pms[x][v]
  <2> SUFFICES ASSUME NEW x \in Rows, NEW v, Had(x, v)
               PROVE  v \in 1..Len(feeds[x]) /\ feeds[x][v] = pms[x][v]
    OBVIOUS
  <2>1. CASE x = r
    <3>1. PICK h : h = pms[r]
      OBVIOUS
    <3>2. h \in Seq(Codes \cup {Nothing}) /\ feeds[x] = Append(h, c) /\ v \in 1..Len(h)
      BY <1>3, <1>4, <2>1, <3>1 DEF Had
    <3>3. Append(h, c)[v] = h[v] /\ Len(Append(h, c)) = Len(h) + 1
      BY <3>2
    <3> QED BY <2>1, <3>1, <3>2, <3>3
  <2>2. CASE x # r
    BY <1>4, <2>2 DEF Had
  <2> QED BY <2>1, <2>2
<1>7. \A x \in Rows : \A v : Had(x, v) => Had(x, v)'
  BY <1>1, <1>6 DEF Had
<1>8. ASSUME NEW x \in Rows, NEW z \in Rows, NEW v, NEW w, v = 0 \/ Had(x, v), w = 0 \/ Had(z, w),
             Differ(x, v, z, w)
      PROVE  Differ(x, v, z, w)'
  BY <1>1, <1>6, <1>8 DEF Differ
<1>9. PmsInv'
  <2>1. \A x \in Rows : Code(x)' = IF x = r THEN c ELSE Code(x)
    BY <1>1, <1>3, <1>4 DEF Code, Last
  <2>2. ASSUME NEW x \in Rows, Code(x)' # Nothing, Parent[x] # Nothing
        PROVE  Code(Parent[x])' # Nothing
    <3>1. Parent[x] \in Rows
      BY <2>2, RowsAre
    <3>2. Code(x) # Nothing => Code(Parent[x]) # Nothing
      BY <2>2 DEF ItemsInv, PmsInv
    <3>3. x = r => Code(Parent[x]) # Nothing
      BY <2>1, <2>2 DEF Change
    <3>4. Code(Parent[x]) # Nothing
      BY <2>1, <2>2, <3>2, <3>3
    <3>5. ASSUME Parent[x] = r, c = Nothing PROVE FALSE
      <4>1. Code(x) = Nothing
        BY <3>5 DEF Change
      <4> QED BY <2>1, <2>2, <3>5, <4>1
    <3> QED BY <2>1, <3>1, <3>4, <3>5
  <2> QED BY <1>1, <1>4, <2>2 DEF PmsInv
<1>10. HeldInv'
  <2>1. next \in [Syncs -> ItemSync]
    BY <1>2, <1>5
  <2>2. \A s \in Syncs :
          /\ \A x \in Rows : next[s].new[x] = 0 \/ Had(x, next[s].new[x])'
          /\ \A x \in DOMAIN next[s].page : Had(x, next[s].page[x])'
          /\ \A i \in DOMAIN next[s].todo : next[s].todo[i] \in ToSet(Resources)
          /\ next[s].pc \in {"fetch", "upsert"} => next[s].todo # << >>
    <3> SUFFICES ASSUME NEW s \in Syncs
                 PROVE  /\ \A x \in Rows : next[s].new[x] = 0 \/ Had(x, next[s].new[x])'
                        /\ \A x \in DOMAIN next[s].page : Had(x, next[s].page[x])'
                        /\ \A i \in DOMAIN next[s].todo : next[s].todo[i] \in ToSet(Resources)
                        /\ next[s].pc \in {"fetch", "upsert"} => next[s].todo # << >>
      OBVIOUS
    <3>1. DOMAIN sync[s].page \subseteq Rows
      BY <1>3 DEF ItemSync, RowPages
    <3> QED BY <1>5, <1>7, <3>1 DEF ItemsInv, HeldInv
  <2>3. copy \in [Rows -> Nat] /\ \A x \in Rows : copy[x] = 0 \/ Had(x, copy[x])'
    <3>1. copy \in [Rows -> Nat]
      BY DEF ItemsInv, HeldInv
    <3>2. ASSUME NEW x \in Rows PROVE copy[x] = 0 \/ Had(x, copy[x])'
      <4>1. PICK v : v = copy[x]
        OBVIOUS
      <4>2. v = 0 \/ Had(x, v)
        BY <4>1 DEF ItemsInv, HeldInv
      <4>3. v = 0 \/ Had(x, v)'
        BY <1>7, <4>2
      <4> QED BY <1>2, <4>1, <4>3
    <3> QED BY <3>1, <3>2
  <2> QED BY <1>1, <1>2, <2>1, <2>2, <2>3 DEF HeldInv
<1>11. UniqueInv'
  <2>1. \A s \in Syncs, x \in Rows : Shown(s, x)' = Shown(s, x)
    BY <1>1, <1>2, <1>5 DEF Shown
  <2>2. UniqueInv
    BY DEF ItemsInv
  <2>3. ASSUME NEW T \in ToSet(Resources), NEW z \in T, NEW x \in T, z # x
        PROVE  /\ Differ(z, copy[z], x, copy[x])'
               /\ \A s \in Syncs : Differ(z, Shown(s, z), x, Shown(s, x))'
               /\ \A s, q \in Syncs :
                    s # q => Differ(z, sync[s].new[z], x, sync[q].new[x])'
    <3>1. z \in Rows /\ x \in Rows
      BY RowsAre
    <3>2. /\ Differ(z, copy[z], x, copy[x])
          /\ \A q \in Syncs : Differ(z, Shown(q, z), x, Shown(q, x))
          /\ \A q, p \in Syncs : q # p => Differ(z, sync[q].new[z], x, sync[p].new[x])
      BY <2>2, <2>3 DEF UniqueInv
    <3>3. Differ(z, copy[z], x, copy[x])'
      <4>1. PICK v, w : v = copy[z] /\ w = copy[x]
        OBVIOUS
      <4>2. (v = 0 \/ Had(z, v)) /\ (w = 0 \/ Had(x, w))
        BY <3>1, <4>1 DEF ItemsInv, HeldInv
      <4>3. Differ(z, v, x, w)'
        BY <1>8, <3>1, <3>2, <4>1, <4>2
      <4> QED BY <1>2, <4>1, <4>3
    <3>4. ASSUME NEW s \in Syncs PROVE Differ(z, Shown(s, z), x, Shown(s, x))'
      <4>1. PICK v, w : v = Shown(s, z) /\ w = Shown(s, x)
        OBVIOUS
      <4>2. (v = 0 \/ Had(z, v)) /\ (w = 0 \/ Had(x, w))
        BY <3>1, <4>1, ShownIs
      <4>3. Differ(z, v, x, w)'
        BY <1>8, <3>1, <3>2, <4>1, <4>2
      <4>4. Shown(s, z)' = v /\ Shown(s, x)' = w
        BY <2>1, <3>1, <4>1
      <4> QED BY <4>3, <4>4
    <3>5. ASSUME NEW s \in Syncs, NEW q \in Syncs, s # q
          PROVE  Differ(z, sync[s].new[z], x, sync[q].new[x])'
      <4>1. PICK v, w : v = sync[s].new[z] /\ w = sync[q].new[x]
        OBVIOUS
      <4>2. (v = 0 \/ Had(z, v)) /\ (w = 0 \/ Had(x, w))
        BY <3>1, <4>1 DEF ItemsInv, HeldInv
      <4>3. Differ(z, v, x, w)'
        BY <1>8, <3>1, <3>2, <3>5, <4>1, <4>2
      <4>4. next[s].new[z] = v /\ next[q].new[x] = w
        BY <1>5, <4>1
      <4> QED BY <1>1, <4>3, <4>4
    <3> QED BY <3>3, <3>4, <3>5
  <2>4. \A s, q \in Syncs : \A x \in Rows :
          s # q => next[s].new[x] = 0 \/ next[q].new[x] = 0
    <3> SUFFICES ASSUME NEW s \in Syncs, NEW q \in Syncs, NEW x \in Rows, s # q
                 PROVE  next[s].new[x] = 0 \/ next[q].new[x] = 0
      OBVIOUS
    <3>1. sync[s].new[x] = 0 \/ sync[q].new[x] = 0
      BY <2>2 DEF UniqueInv
    <3>2. next[s].new = sync[s].new /\ next[q].new = sync[q].new
      BY <1>5
    <3> QED BY <3>1, <3>2
  <2> QED BY <1>1, <2>3, <2>4 DEF UniqueInv
<1>12. \A s \in Syncs : ~ next[s].still
  BY <1>5
<1> QED BY <1>1, <1>2, <1>9, <1>10, <1>11, <1>12 DEF ItemsInv

(* At the beginning nothing is listed and nothing runs.                    *)
LEMMA ItemsBegin ==
  ASSUME ItemsInit
  PROVE  ItemsInv
<1>1. PICK idle : idle = IdleSync
  OBVIOUS
<1>2. /\ idle \in ItemSync /\ idle.new = [r \in Rows |-> 0] /\ DOMAIN idle.page = {}
      /\ idle.todo = << >> /\ idle.pc = "idle" /\ idle.still = FALSE
  BY <1>1, IdleIs
<1>3. /\ pms = [r \in Rows |-> << >>] /\ copy = [r \in Rows |-> 0]
      /\ sync = [s \in Syncs |-> idle] /\ moved = FALSE
  BY <1>1 DEF ItemsInit
<1>4. PmsInv
  BY <1>3 DEF PmsInv, Code
<1>5. HeldInv
  BY <1>2, <1>3 DEF HeldInv
<1>6. \A s \in Syncs, r \in Rows : Shown(s, r) = 0
  BY <1>2, <1>3 DEF Shown
<1>7. UniqueInv
  BY <1>2, <1>3, <1>6, RowsAre DEF UniqueInv, Differ
<1> QED BY <1>2, <1>3, <1>4, <1>5, <1>7 DEF ItemsInv

(* Every step keeps the invariant.                                         *)
LEMMA ItemsGoOn ==
  ASSUME ItemsInv, [ItemsNext]_itemVars
  PROVE  ItemsInv'
<1>1. CASE \E r \in Rows, c \in Codes \cup {Nothing} : Change(r, c)
  BY <1>1, StepChange
<1>2. CASE \E s \in Scripts : StartAll(s)
  BY <1>2, StepStart DEF Syncs
<1>3. CASE \E s \in ResourceSyncs : StartOne(s)
  BY <1>3, StepStart DEF Syncs
<1>4. ASSUME NEW s \in Syncs, ItemStep(s) \/ FailSync(s) PROVE ItemsInv'
  <2>1. CASE FetchPage(s)
    BY <2>1, StepFetch
  <2>2. CASE UpsertRow(s)
    BY <2>2, StepUpsert
  <2>3. CASE PageDone(s)
    BY <2>3, StepPageDone
  <2>4. CASE CommitSync(s)
    BY <2>4, StepCommitSync
  <2>5. CASE FinishSync(s) \/ Refuse(s) \/ FailSync(s)
    BY <2>5, StepEnds
  <2> QED BY <1>4, <2>1, <2>2, <2>3, <2>4, <2>5 DEF ItemStep
<1>5. CASE UNCHANGED itemVars
  <2>1. UNCHANGED pms /\ UNCHANGED copy /\ UNCHANGED sync /\ UNCHANGED moved
    BY <1>5 DEF itemVars
  <2>2. PmsInv' /\ moved' \in BOOLEAN
    BY <2>1 DEF ItemsInv, PmsInv, Code, Last
  <2>3. HeldInv'
    BY <2>1, FeedsStand DEF ItemsInv, HeldInv
  <2>4. \A s, r : Shown(s, r)' = Shown(s, r)
    BY <2>1 DEF Shown
  <2>5. UniqueInv'
    BY <2>1, <2>4, FeedsStand DEF ItemsInv, UniqueInv
  <2>6. \A s \in Syncs : sync'[s].still => StillInv(sync[s])'
    <3> SUFFICES ASSUME NEW s \in Syncs, sync'[s].still PROVE StillInv(sync[s])'
      OBVIOUS
    <3>1. PICK y : y = sync[s]
      OBVIOUS
    <3>2. StillInv(y)
      BY <2>1, <3>1 DEF ItemsInv
    <3>3. StillInv(y)'
      BY <2>1, <3>2, StillStands
    <3> QED BY <2>1, <3>1, <3>3
  <2> QED BY <2>2, <2>3, <2>5, <2>6 DEF ItemsInv
<1> QED BY <1>1, <1>2, <1>3, <1>4, <1>5 DEF ItemsNext

(* The invariant gives the types and that the codes are unique.            *)
LEMMA ItemsInvIs ==
  ASSUME ItemsInv
  PROVE  CodesUnique
<1>1. ASSUME NEW r \in Rows, NEW v, v = 0 \/ Had(r, v) PROVE v \in 0..Len(pms[r])
  <2>1. Len(pms[r]) \in Nat
    BY DEF ItemsInv, PmsInv
  <2> QED BY <1>1, <2>1 DEF Had
<1>2. \A s \in Syncs : sync[s] \in ItemSync
  BY DEF ItemsInv, HeldInv
<1>3. \A s \in Syncs : \A r \in Rows : sync[s].new[r] \in 0..Len(pms[r])
  BY <1>1 DEF ItemsInv, HeldInv
<1>4. \A r \in Rows : copy[r] \in 0..Len(pms[r])
  BY <1>1 DEF ItemsInv, HeldInv
<1>5. ItemsTypeOK
  BY <1>2, <1>3, <1>4 DEF ItemsInv, PmsInv, ItemsTypeOK, ItemSync
<1>6. \A T \in ToSet(Resources) : \A r, x \in T :
        r # x /\ copy[r] # 0 /\ copy[x] # 0 => pms[r][copy[r]] # pms[x][copy[x]]
  BY DEF ItemsInv, UniqueInv, Differ
<1> QED BY <1>5, <1>6 DEF CodesUnique

(* What a still sync of all tables commits is what PMS has.                *)
LEMMA StillCommits ==
  ASSUME ItemsInv, NEW s \in Syncs, sync[s].still, CommitSync(s)
  PROVE  Current'
<1>1. StillInv(sync[s]) /\ sync[s].pc = "commit"
  BY DEF ItemsInv, CommitSync
<1>2. Len(sync[s].todo) = 0 /\ Len(Resources) \in Nat
  BY <1>1, RowsAre DEF StillInv
<1>3. \A r \in Rows : Code(r) # Nothing => sync[s].new[r] = Len(pms[r])
  <2> SUFFICES ASSUME NEW r \in Rows, Code(r) # Nothing PROVE sync[s].new[r] = Len(pms[r])
    OBVIOUS
  <2>1. PICK i \in 1..Len(Resources) : Resources[i] = TableOf(r)
    BY RowsAre DEF ToSet
  <2>2. r \in Listed(Resources[i])
    BY <2>1, RowsAre DEF Listed
  <2>3. i \in 1..(Len(Resources) - Len(sync[s].todo))
    BY <1>2
  <2>4. Fresh(sync[s], r)
    BY <1>1, <2>2, <2>3 DEF StillInv
  <2> QED BY <2>4 DEF Fresh
<1>4. \A r \in Rows : Code(r) # Nothing => Len(pms[r]) # 0
  BY DEF Code, ItemsInv, PmsInv
<1>5. PICK now : now = copy'
  OBVIOUS
<1>6. now = [r \in Rows |-> Shown(s, r)] /\ UNCHANGED pms
  BY <1>5 DEF CommitSync
<1>7. \A r \in Rows : Code(r) # Nothing => now[r] = Len(pms[r]) /\ now[r] # 0
  BY <1>3, <1>4, <1>6 DEF Shown
<1>8. \A r \in Rows : Code(r)' = Code(r)
  BY <1>6 DEF Code, Last
<1>9. \A r \in Rows : Code(r) # Nothing /\ Parent[r] # Nothing => now[Parent[r]] # 0
  BY <1>7, RowsAre DEF ItemsInv, PmsInv
<1> QED BY <1>5, <1>6, <1>7, <1>8, <1>9 DEF Current, NoIssue

(* Only its commit brings a still sync to the end.                         *)
LEMMA StillEnds ==
  ASSUME ItemsInv, [ItemsNext]_itemVars, NEW s \in Syncs,
         sync[s].still, sync'[s].pc = "finish"
  PROVE  CommitSync(s)
<1>1. sync \in [Syncs -> ItemSync] /\ sync[s].pc # "finish"
  BY DEF ItemsInv, HeldInv, StillInv
<1>2. ASSUME NEW r \in Rows, NEW c \in Codes \cup {Nothing}, Change(r, c) PROVE FALSE
  <2>1. sync' = [q \in Syncs |-> [sync[q] EXCEPT !.still = FALSE]]
    BY <1>2 DEF Change
  <2>2. sync[s] \in ItemSync /\ sync'[s] = [sync[s] EXCEPT !.still = FALSE]
    BY <1>1, <2>1
  <2>3. sync'[s].pc = sync[s].pc
    BY <2>2 DEF ItemSync
  <2> QED BY <1>1, <2>3
<1>3. ASSUME NEW q \in Syncs, NEW y, sync' = [sync EXCEPT ![q] = y], y.pc # "finish"
      PROVE  FALSE
  BY <1>1, <1>3
<1>4. IdleSync.pc = "idle" /\ IdleSync \in ItemSync
  BY IdleIs
<1>5. ASSUME NEW q \in Syncs, StartAll(q) \/ StartOne(q) PROVE FALSE
  <2>1. PICK sel, st : StartSync(q, sel, st)
    BY <1>5 DEF StartAll, StartOne
  <2>2. PICK y : y = [IdleSync EXCEPT !.st = st, !.pc = "fetch", !.todo = sel,
                                      !.still = (sel = Resources)]
    OBVIOUS
  <2>3. y.pc = "fetch"
    BY <1>4, <2>2 DEF ItemSync
  <2> QED BY <1>3, <2>1, <2>2, <2>3 DEF StartSync
<1>6. ASSUME NEW q \in Syncs, FinishSync(q) \/ Refuse(q) \/ FailSync(q) PROVE FALSE
  <2>1. PICK st : sync' = [sync EXCEPT ![q] = [IdleSync EXCEPT !.st = st]]
    BY <1>6 DEF FinishSync, Refuse, FailSync, RolledBack
  <2>2. [IdleSync EXCEPT !.st = st].pc = "idle"
    BY <1>4 DEF ItemSync
  <2> QED BY <1>3, <2>1, <2>2
<1>7. ASSUME NEW q \in Syncs, FetchPage(q) PROVE FALSE
  <2>1. PICK pg, m : sync' = [sync EXCEPT ![q].pc = "upsert", ![q].page = pg, ![q].more = m]
    BY <1>7 DEF FetchPage
  <2> QED BY <1>1, <2>1 DEF ItemSync
<1>8. ASSUME NEW q \in Syncs, UpsertRow(q) PROVE FALSE
  <2>1. PICK pg, r, v : sync' = [sync EXCEPT ![q].page = pg, ![q].new[r] = v]
    BY <1>8 DEF UpsertRow
  <2> QED BY <1>1, <2>1 DEF ItemSync
<1>9. ASSUME NEW q \in Syncs, PageDone(q) PROVE FALSE
  <2>1. PICK y : y = AfterFeed(sync[q])
    OBVIOUS
  <2>2. sync' = [sync EXCEPT ![q] = y]
    <3>1. sync' = [sync EXCEPT ![q] = AfterFeed(sync[q])]
      BY <1>1, <1>9 DEF PageDone
    <3> QED BY <2>1, <3>1
  <2>3. y.pc # "finish"
    BY <1>1, <2>1 DEF AfterFeed, ItemSync
  <2> QED BY <1>3, <2>2, <2>3
<1>10. ASSUME NEW q \in Syncs, CommitSync(q) PROVE q = s
  <2>1. PICK y : sync' = [sync EXCEPT ![q] = y]
    BY <1>10 DEF CommitSync
  <2> QED BY <1>1, <2>1
<1>11. ~ UNCHANGED itemVars
  BY <1>1 DEF itemVars
<1>12. PICK q \in Syncs : ItemStep(q) \/ FailSync(q)
  BY <1>2, <1>5, <1>11, Zenon DEF ItemsNext, Syncs
<1> QED BY <1>6, <1>7, <1>8, <1>9, <1>10, <1>12 DEF ItemStep

(* _upsert_rows: two rows of a table never have one code in the committed  *)
(* projection, whatever syncs overlap, fail or read while PMS changes.     *)
THEOREM CodesStayUnique == ItemsSpec => []CodesUnique
<1>1. ItemsInit => ItemsInv
  BY ItemsBegin
<1>2. ItemsInv /\ [ItemsNext]_itemVars => ItemsInv'
  BY ItemsGoOn
<1>3. ItemsInv => CodesUnique
  BY ItemsInvIs
<1> QED BY <1>1, <1>2, <1>3, PTL DEF ItemsSpec

(* sync_pms: a sync of all tables that commits, PMS having stood still     *)
(* since it began, leaves every row as PMS has it and no missing parent.   *)
THEOREM FullSyncsAreCurrent == ItemsSpec => FullSyncIsCurrent
<1>1. ItemsInit => ItemsInv
  BY ItemsBegin
<1>2. ItemsInv /\ [ItemsNext]_itemVars => ItemsInv'
  BY ItemsGoOn
<1>3. ItemsInv /\ [ItemsNext]_itemVars =>
        [\A s \in Syncs : sync[s].still /\ sync'[s].pc = "finish" => Current']_itemVars
  BY StillCommits, StillEnds
<1> QED BY <1>1, <1>2, <1>3, PTL DEF ItemsSpec, FullSyncIsCurrent

-----------------------------------------------------------------------------
(* The import of projected orders.                                         *)
ImportRow == [id : Components, v : Nat]

OrderRow == [v : Nat, lines : SUBSET ImportRow, items : [Skus -> Nat],
             ff : {"NONE", "OMS_IMPORTED", "MANUALLY_ASSIGNED"},
             wh : Warehouses \cup {NoWarehouse}]

BatchRest == UNION {[D -> Orders] : D \in SUBSET Nat}

Betweens == {"none", "whole", "torn"}

ImportRequest ==
  [pc : {"new", "components", "existing", "write", "ended"},
   ids : BatchRest, dry : BOOLEAN, heads : [Orders -> Nat],
   comps : [Orders -> SUBSET ImportRow], known : SUBSET Orders,
   tx : [Orders -> OrderRow], between : [Orders -> Betweens]]

(* Components that were some version's.                                    *)
RowsOK(o, C) ==
  /\ IsFiniteSet(C) /\ C \subseteq ImportRow
  /\ \A r \in C : r.v \in DOMAIN Content[o] /\ r.id \in DOMAIN Content[o][r.v]

(* Those of version v, and others beside them.                             *)
TreeOf(o, v, C) ==
  /\ v \in DOMAIN Content[o] /\ RowsAt(o, v) \subseteq C
  /\ \A r \in C : r \in RowsAt(o, v) \/ r.id \notin DOMAIN Content[o][v]

(* What is written of an order, with m committed between the reads.        *)
Sound(o, x, m) ==
  /\ RowsOK(o, x.lines)
  /\ m # "torn" => \E v \in DOMAIN Content[o] :
                     x.lines = RowsAt(o, v) /\ (m = "none" => x.v = v)
  /\ \A k \in Skus : x.items[k] = SkuTotal(o, x.lines, k)

(* What a request has read of an order it has not done yet.                *)
ReadInv(y, o) ==
  /\ y.pc \in {"components", "existing", "write"}
  /\ y.pc = "components" =>
       /\ head[o] # 0 /\ (y.between[o] = "none" => y.heads[o] = head[o])
       /\ y.between[o] = "whole" => comps[o] = RowsAt(o, head[o])
  /\ y.pc # "components" =>
       /\ RowsOK(o, y.comps[o])
       /\ y.between[o] = "none" => TreeOf(o, y.heads[o], y.comps[o])
       /\ y.between[o] = "whole" => \E v \in DOMAIN Content[o] : y.comps[o] = RowsAt(o, v)

(* And what it has written of one.                                         *)
WroteInv(y, o) ==
  /\ order[o] = NoOrder /\ y.heads[o] = 0 /\ y.pc = "write"
  /\ y.tx[o].v \in 0..Len(Content[o]) /\ Sound(o, y.tx[o], y.between[o])

RequestInv(y) ==
  /\ IsFiniteSet(DOMAIN y.ids)
  /\ \A o \in Orders :
       /\ y.heads[o] \in 0..Len(Content[o])
       /\ y.heads[o] # 0 /\ o \in Range(y.ids) => ReadInv(y, o)
       /\ y.tx[o] # NoOrder => WroteInv(y, o)

TreeInv ==
  /\ head \in [Orders -> Nat] /\ comps \in [Orders -> SUBSET ImportRow]
  /\ \A o \in Orders :
       /\ head[o] \in 0..Len(Content[o])
       /\ RowsOK(o, comps[o])
       /\ IF head[o] = 0 THEN comps[o] = {} ELSE TreeOf(o, head[o], comps[o])

OrderInv ==
  /\ order \in [Orders -> OrderRow] /\ mixed \in [Orders -> Betweens]
  /\ \A o \in Orders :
       order[o].v \in 0..Len(Content[o]) /\ (order[o] = NoOrder \/ Sound(o, order[o], mixed[o]))

(* No order is written by two requests.                                    *)
ImportInv ==
  /\ TreeInv /\ OrderInv /\ imp \in [ImportRequests -> ImportRequest]
  /\ \A p \in ImportRequests : RequestInv(imp[p])
  /\ \A p, q \in ImportRequests : \A o \in Orders :
       p # q => imp[p].tx[o] = NoOrder \/ imp[q].tx[o] = NoOrder

(* What the contents of the orders are.                                    *)
LEMMA ContentIs ==
  ASSUME NEW o \in Orders
  PROVE  /\ Len(Content[o]) \in Nat /\ DOMAIN Content[o] = 1..Len(Content[o])
         /\ \A v \in DOMAIN Content[o] :
              /\ IsFiniteSet(DOMAIN Content[o][v]) /\ DOMAIN Content[o][v] \subseteq Components
              /\ Content[o][v] \in [DOMAIN Content[o][v] -> Nat]
BY ImportAssumption

(* The rows of a version.                                                  *)
LEMMA RowsAtAre ==
  ASSUME NEW o \in Orders, NEW v \in DOMAIN Content[o]
  PROVE  /\ RowsOK(o, RowsAt(o, v)) /\ TreeOf(o, v, RowsAt(o, v))
         /\ Cardinality(RowsAt(o, v)) = Cardinality(DOMAIN Content[o][v])
<1> DEFINE D == DOMAIN Content[o][v]
           R == RowsAt(o, v)
           f == [c \in D |-> [id |-> c, v |-> v]]
<1>1. IsFiniteSet(D) /\ D \subseteq Components /\ v \in Nat
  BY ContentIs
<1>2. R = {[id |-> c, v |-> v] : c \in D}
  BY DEF RowsAt
<1>3. f \in Bijection(D, R)
  BY <1>2 DEF Bijection, Injection, Surjection, IsInjective
<1>4. IsFiniteSet(R) /\ Cardinality(R) = Cardinality(D)
  BY <1>1, <1>3, FS_Bijection DEF ExistsBijection
<1>5. R \subseteq ImportRow /\ \A r \in R : r.v = v /\ r.id \in D
  BY <1>1, <1>2 DEF ImportRow
<1> QED BY <1>4, <1>5 DEF RowsOK, TreeOf

(* With as many rows as the version has, nothing is beside them.           *)
LEMMA CountedTree ==
  ASSUME NEW o \in Orders, NEW v, NEW C, TreeOf(o, v, C), IsFiniteSet(C),
         Cardinality(DOMAIN Content[o][v]) = Cardinality(C)
  PROVE  C = RowsAt(o, v)
<1>1. v \in DOMAIN Content[o] /\ RowsAt(o, v) \subseteq C
  BY DEF TreeOf
<1>2. Cardinality(RowsAt(o, v)) = Cardinality(C)
  BY <1>1, RowsAtAre
<1> QED BY <1>1, <1>2, FS_Subset

(* The quantity of a sku.                                                  *)
LEMMA TotalIs ==
  ASSUME NEW o \in Orders, NEW C, RowsOK(o, C), NEW k
  PROVE  SkuTotal(o, C, k) \in Nat
<1>1. PICK S : S = {r \in C : SkuOf[r.id] = k}
  OBVIOUS
<1>2. PICK q : q = [r \in C |-> Qty(o, r)]
  OBVIOUS
<1>3. IsFiniteSet(S) /\ S \subseteq C
  BY <1>1, FS_Subset DEF RowsOK
<1>4. \A r \in S : q[r] \in Nat
  <2> SUFFICES ASSUME NEW r \in S PROVE Content[o][r.v][r.id] \in Nat
    BY <1>2, <1>3 DEF Qty
  <2>1. r.v \in DOMAIN Content[o] /\ r.id \in DOMAIN Content[o][r.v]
    BY <1>3 DEF RowsOK
  <2>2. Content[o][r.v] \in [DOMAIN Content[o][r.v] -> Nat]
    BY <2>1, ContentIs
  <2> QED BY <2>1, <2>2
<1>5. SumOf(q, S) \in Nat
  BY <1>3, <1>4, SumNat
<1> QED BY <1>1, <1>2, <1>5 DEF SkuTotal

(* Nothing has no quantity.                                                *)
LEMMA NoTotal ==
  ASSUME NEW o, NEW k
  PROVE  SkuTotal(o, {}, k) = 0
<1>1. PICK q : q = [r \in {} |-> Qty(o, r)]
  OBVIOUS
<1>2. SumOf(q, {}) = 0
  BY SumEmpty
<1>3. {r \in {} : SkuOf[r.id] = k} = {}
  OBVIOUS
<1> QED BY <1>1, <1>2, <1>3 DEF SkuTotal

(* An order and a request that are not there.                              *)
LEMMA NoneIs ==
  /\ NoOrder \in OrderRow /\ NoOrder.v = 0 /\ NoOrder.lines = {} /\ NoOrder.ff = "NONE"
  /\ NoOrder.wh = NoWarehouse /\ \A k \in Skus : NoOrder.items[k] = 0
  /\ NewImport \in ImportRequest /\ EndedImport \in ImportRequest
  /\ DOMAIN NewImport.ids = {} /\ NewImport.heads = [o \in Orders |-> 0]
  /\ NewImport.tx = [o \in Orders |-> NoOrder] /\ NewImport.pc = "new"
  /\ NewImport.between = [o \in Orders |-> "none"]
  /\ DOMAIN EndedImport.ids = {} /\ EndedImport.heads = [o \in Orders |-> 0]
  /\ EndedImport.tx = [o \in Orders |-> NoOrder] /\ EndedImport.pc = "ended"
<1>1. /\ NoOrder \in OrderRow /\ NoOrder.v = 0 /\ NoOrder.lines = {} /\ NoOrder.ff = "NONE"
      /\ NoOrder.wh = NoWarehouse /\ \A k \in Skus : NoOrder.items[k] = 0
  BY DEF NoOrder, OrderRow
<1>2. PICK e : e = [i \in {} |-> 0]
  OBVIOUS
<1>3. e \in BatchRest /\ DOMAIN e = {}
  <2>1. e \in [{} -> Orders] /\ {} \in SUBSET Nat
    BY <1>2
  <2> QED BY <1>2, <2>1 DEF BatchRest
<1>4. PICK n : n = NoOrder
  OBVIOUS
<1>5. NewImport = [pc |-> "new", ids |-> e, dry |-> FALSE,
                   heads |-> [o \in Orders |-> 0], comps |-> [o \in Orders |-> {}],
                   known |-> {}, tx |-> [o \in Orders |-> n],
                   between |-> [o \in Orders |-> "none"]]
  BY <1>2, <1>4 DEF NewImport
<1>6. NewImport \in ImportRequest
  BY <1>1, <1>3, <1>4, <1>5 DEF ImportRequest, Betweens
<1>7. /\ NewImport.ids = e /\ NewImport.heads = [o \in Orders |-> 0]
      /\ NewImport.tx = [o \in Orders |-> n] /\ NewImport.pc = "new"
      /\ NewImport.between = [o \in Orders |-> "none"]
  BY <1>5
<1>8. EndedImport \in ImportRequest /\ EndedImport.ids = NewImport.ids
      /\ EndedImport.heads = NewImport.heads /\ EndedImport.tx = NewImport.tx
      /\ EndedImport.pc = "ended"
  BY <1>6 DEF EndedImport, ImportRequest
<1> QED BY <1>1, <1>3, <1>4, <1>6, <1>7, <1>8

(* At the beginning there is nothing.                                      *)
LEMMA ImportBegins ==
  ASSUME ImportInit
  PROVE  ImportInv
<1>1. PICK new, none : new = NewImport /\ none = NoOrder
  OBVIOUS
<1>2. /\ head = [o \in Orders |-> 0] /\ comps = [o \in Orders |-> {}]
      /\ order = [o \in Orders |-> none] /\ imp = [p \in ImportRequests |-> new]
      /\ mixed = [o \in Orders |-> "none"]
  BY <1>1 DEF ImportInit
<1>3. TreeInv
  <2>1. \A o \in Orders : Len(Content[o]) \in Nat
    BY ContentIs
  <2>2. \A o \in Orders : RowsOK(o, {})
    BY FS_EmptySet DEF RowsOK
  <2> QED BY <1>2, <2>1, <2>2 DEF TreeInv
<1>4. OrderInv
  BY <1>1, <1>2, NoneIs DEF OrderInv, Betweens
<1>5. /\ new \in ImportRequest /\ DOMAIN new.ids = {} /\ new.heads = [o \in Orders |-> 0]
      /\ new.tx = [o \in Orders |-> none]
  BY <1>1, NoneIs
<1>6. RequestInv(new)
  BY <1>1, <1>2, <1>5, FS_EmptySet DEF RequestInv
<1> QED BY <1>1, <1>2, <1>3, <1>4, <1>5, <1>6 DEF ImportInv

(* A step of one request that changes nothing but the request.             *)
LEMMA RequestBecomes ==
  ASSUME ImportInv, NEW p \in ImportRequests, NEW y \in ImportRequest,
         UNCHANGED <<head, comps, order, mixed>>, imp' = [imp EXCEPT ![p] = y],
         RequestInv(y),
         \A o \in Orders : y.tx[o] = NoOrder \/ y.tx[o] = imp[p].tx[o]
                           \/ \A q \in ImportRequests \ {p} : imp[q].tx[o] = NoOrder
  PROVE  ImportInv'
<1>1. PICK next : next = imp'
  OBVIOUS
<1>2. /\ next \in [ImportRequests -> ImportRequest] /\ next[p] = y
      /\ \A q \in ImportRequests \ {p} : next[q] = imp[q]
  BY <1>1 DEF ImportInv
<1>3. TreeInv' /\ OrderInv'
  BY DEF ImportInv, TreeInv, OrderInv
<1>4. \A q \in ImportRequests : RequestInv(next[q])
  BY <1>2 DEF ImportInv
<1>5. \A q \in ImportRequests : RequestInv(next[q])'
  BY <1>1, <1>4 DEF RequestInv, ReadInv, WroteInv
<1>6. \A q, s \in ImportRequests : \A o \in Orders :
        q # s => next[q].tx[o] = NoOrder \/ next[s].tx[o] = NoOrder
  <2> SUFFICES ASSUME NEW q \in ImportRequests, NEW s \in ImportRequests, NEW o \in Orders,
                      q # s
               PROVE  next[q].tx[o] = NoOrder \/ next[s].tx[o] = NoOrder
    OBVIOUS
  <2>1. imp[q].tx[o] = NoOrder \/ imp[s].tx[o] = NoOrder
    BY DEF ImportInv
  <2> QED BY <1>2, <2>1
<1> QED BY <1>1, <1>2, <1>3, <1>5, <1>6 DEF ImportInv

(* A request that is rolled back.                                          *)
LEMMA StepRollback ==
  ASSUME ImportInv, NEW p \in ImportRequests, RollbackImport(p)
  PROVE  ImportInv'
<1>1. PICK y : y = EndedImport
  OBVIOUS
<1>2. /\ y \in ImportRequest /\ DOMAIN y.ids = {} /\ y.heads = [o \in Orders |-> 0]
      /\ y.tx = [o \in Orders |-> NoOrder]
  BY <1>1, NoneIs
<1>3. RequestInv(y)
  BY <1>2, FS_EmptySet DEF RequestInv, ImportInv, TreeInv
<1> QED BY <1>1, <1>2, <1>3, RequestBecomes DEF RollbackImport

(* A request begins.                                                       *)
LEMMA StepStartImport ==
  ASSUME ImportInv, NEW p \in ImportRequests, NEW batch \in Batches[p], StartImport(p, batch)
  PROVE  ImportInv'
<1>1. batch.ids \in Seq(Orders) /\ batch.dry \in BOOLEAN
  BY ImportAssumption
<1>2. PICK ids : ids = Dedupe(batch.ids)
  OBVIOUS
<1>3. ids \in BatchRest /\ IsFiniteSet(DOMAIN ids)
  <2>1. PICK D : D = {i \in DOMAIN batch.ids : \A j \in DOMAIN batch.ids :
                        batch.ids[j] = batch.ids[i] => i <= j}
    OBVIOUS
  <2>2. D \subseteq DOMAIN batch.ids
    BY <2>1
  <2>3. ids = Restrict(batch.ids, D)
    BY <1>2, <2>1 DEF Dedupe
  <2>4. ids = [i \in D |-> batch.ids[i]]
    BY <2>2, <2>3 DEF Restrict
  <2>5. D \in SUBSET Nat /\ ids \in [D -> Orders]
    BY <1>1, <2>2, <2>4
  <2>6. IsFiniteSet(DOMAIN batch.ids)
    BY <1>1, FS_Interval
  <2> QED BY <2>2, <2>4, <2>5, <2>6, FS_Subset DEF BatchRest
<1>4. PICK hs : hs = [o \in Orders |-> IF o \in ToSet(batch.ids) THEN head[o] ELSE 0]
  OBVIOUS
<1>5. /\ hs \in [Orders -> Nat]
      /\ \A o \in Orders : hs[o] \in 0..Len(Content[o]) /\ (hs[o] # 0 => hs[o] = head[o])
  BY <1>4, ContentIs DEF ImportInv, TreeInv
<1>6. PICK y : y = [NewImport EXCEPT !.pc = "components", !.ids = ids, !.dry = batch.dry,
                                     !.heads = hs]
  OBVIOUS
<1>7. /\ y \in ImportRequest /\ y.pc = "components" /\ y.ids = ids /\ y.heads = hs
      /\ y.tx = [o \in Orders |-> NoOrder] /\ y.between = [o \in Orders |-> "none"]
  <2>1. PICK new, d : new = NewImport /\ d = batch.dry
    OBVIOUS
  <2>2. new \in ImportRequest /\ d \in BOOLEAN
    BY <1>1, <2>1, NoneIs
  <2>3. y = [new EXCEPT !.pc = "components", !.ids = ids, !.dry = d, !.heads = hs]
    BY <1>6, <2>1
  <2>4. /\ y \in ImportRequest /\ y.pc = "components" /\ y.ids = ids /\ y.heads = hs
        /\ y.tx = new.tx /\ y.between = new.between
    BY <1>3, <1>5, <2>2, <2>3 DEF ImportRequest
  <2> QED BY <2>1, <2>4, NoneIs
<1>8. RequestInv(y)
  BY <1>3, <1>5, <1>7 DEF RequestInv, ReadInv
<1>9. imp' = [imp EXCEPT ![p] = y] /\ UNCHANGED <<head, comps, order, mixed>>
  BY <1>2, <1>4, <1>6 DEF StartImport
<1> QED BY <1>7, <1>8, <1>9, RequestBecomes

(* It reads the components.                                                *)
LEMMA StepLoadComponents ==
  ASSUME ImportInv, NEW p \in ImportRequests, LoadComponents(p)
  PROVE  ImportInv'
<1>1. PICK z : z = imp[p]
  OBVIOUS
<1>2. z \in ImportRequest /\ RequestInv(z) /\ z.pc = "components"
  BY <1>1 DEF ImportInv, LoadComponents
<1>3. PICK cs : cs = [o \in Orders |-> IF o \in Range(z.ids) THEN comps[o] ELSE {}]
  OBVIOUS
<1>4. cs \in [Orders -> SUBSET ImportRow]
  BY <1>3 DEF ImportInv, TreeInv
<1>5. PICK y : y = [z EXCEPT !.pc = "existing", !.comps = cs]
  OBVIOUS
<1>6. /\ y \in ImportRequest /\ y.pc = "existing" /\ y.comps = cs /\ y.ids = z.ids
      /\ y.heads = z.heads /\ y.tx = z.tx /\ y.between = z.between
  BY <1>2, <1>4, <1>5 DEF ImportRequest
<1>7. ASSUME NEW o \in Orders, z.heads[o] # 0, o \in Range(z.ids) PROVE ReadInv(y, o)
  <2>1. /\ z.heads[o] \in 0..Len(Content[o])
        /\ z.between[o] = "none" => z.heads[o] = head[o]
        /\ z.between[o] = "whole" => comps[o] = RowsAt(o, head[o])
        /\ head[o] # 0
    BY <1>2, <1>7 DEF RequestInv, ReadInv, ImportRequest
  <2>2. /\ head[o] \in 0..Len(Content[o]) /\ RowsOK(o, comps[o])
        /\ head[o] # 0 => TreeOf(o, head[o], comps[o])
    BY DEF ImportInv, TreeInv
  <2>3. Len(Content[o]) \in Nat /\ DOMAIN Content[o] = 1..Len(Content[o])
    BY ContentIs
  <2>4. head[o] # 0 /\ head[o] \in DOMAIN Content[o]
    BY <1>7, <2>1, <2>2, <2>3
  <2>5. y.comps[o] = comps[o]
    BY <1>3, <1>6, <1>7
  <2> QED BY <1>6, <2>1, <2>2, <2>4, <2>5 DEF ReadInv
<1>8. RequestInv(y)
  BY <1>2, <1>6, <1>7 DEF RequestInv, WroteInv
<1>9. imp' = [imp EXCEPT ![p] = y] /\ UNCHANGED <<head, comps, order, mixed>>
  BY <1>1, <1>3, <1>5 DEF LoadComponents, ImportInv
<1>10. y.tx = imp[p].tx
  BY <1>1, <1>6
<1> QED BY <1>6, <1>8, <1>9, <1>10, RequestBecomes

(* It reads what is imported already.                                      *)
LEMMA StepLoadExisting ==
  ASSUME ImportInv, NEW p \in ImportRequests, LoadExisting(p)
  PROVE  ImportInv'
<1>1. PICK z : z = imp[p]
  OBVIOUS
<1>2. z \in ImportRequest /\ RequestInv(z) /\ z.pc = "existing"
  BY <1>1 DEF ImportInv, LoadExisting
<1>3. PICK k : k = {o \in Range(z.ids) : order[o] # NoOrder}
  OBVIOUS
<1>4. k \in SUBSET Orders
  <2>1. PICK W \in SUBSET Nat : z.ids \in [W -> Orders]
    BY <1>2 DEF ImportRequest, BatchRest
  <2>2. Range(z.ids) \subseteq Orders
    BY <2>1 DEF Range
  <2> QED BY <1>3, <2>2
<1>5. PICK y : y = [z EXCEPT !.pc = "write", !.known = k]
  OBVIOUS
<1>6. /\ y \in ImportRequest /\ y.pc = "write" /\ y.comps = z.comps /\ y.ids = z.ids
      /\ y.heads = z.heads /\ y.tx = z.tx /\ y.between = z.between
  BY <1>2, <1>4, <1>5 DEF ImportRequest
<1>7. RequestInv(y)
  BY <1>2, <1>6 DEF RequestInv, ReadInv, WroteInv
<1>8. imp' = [imp EXCEPT ![p] = y] /\ UNCHANGED <<head, comps, order, mixed>>
  BY <1>1, <1>3, <1>5 DEF LoadExisting, ImportInv
<1>9. y.tx = imp[p].tx
  BY <1>1, <1>6
<1> QED BY <1>6, <1>7, <1>8, <1>9, RequestBecomes

(* A request that is done with an order.                                   *)
LEMMA OrderDoneIs ==
  ASSUME NEW z \in ImportRequest, NEW o \in Orders, IsFiniteSet(DOMAIN z.ids)
  PROVE  LET y == OrderDone(z, o)
         IN  /\ y \in ImportRequest /\ y.pc = z.pc /\ y.between = z.between /\ y.tx = z.tx
             /\ IsFiniteSet(DOMAIN y.ids) /\ Range(y.ids) \subseteq Range(z.ids)
             /\ y.heads = [z.heads EXCEPT ![o] = 0] /\ y.comps = [z.comps EXCEPT ![o] = {}]
<1>1. PICK y : y = OrderDone(z, o)
  OBVIOUS
<1>2. PICK ids : ids = Restrict(z.ids, DOMAIN z.ids \ {Min(DOMAIN z.ids)})
  OBVIOUS
<1>3. PICK D : D = DOMAIN z.ids \ {Min(DOMAIN z.ids)}
  OBVIOUS
<1>4. PICK W \in SUBSET Nat : z.ids \in [W -> Orders]
  BY DEF ImportRequest, BatchRest
<1>5. D \in SUBSET DOMAIN z.ids /\ ids = [i \in D |-> z.ids[i]]
  BY <1>2, <1>3 DEF Restrict
<1>6. ids \in BatchRest /\ IsFiniteSet(DOMAIN ids) /\ Range(ids) \subseteq Range(z.ids)
  <2>1. D \in SUBSET Nat /\ ids \in [D -> Orders]
    BY <1>4, <1>5
  <2> QED BY <1>5, <2>1, FS_Subset DEF BatchRest, Range
<1>7. PICK hs, cs, k : hs = [z.heads EXCEPT ![o] = 0] /\ cs = [z.comps EXCEPT ![o] = {}]
                       /\ k = z.known \ {o}
  OBVIOUS
<1>8. hs \in [Orders -> Nat] /\ cs \in [Orders -> SUBSET ImportRow] /\ k \in SUBSET Orders
  BY <1>7 DEF ImportRequest
<1>9. y = [z EXCEPT !.ids = ids, !.heads = hs, !.comps = cs, !.known = k]
  BY <1>1, <1>2, <1>7 DEF OrderDone, ImportRequest
<1>10. /\ y \in ImportRequest /\ y.pc = z.pc /\ y.between = z.between /\ y.tx = z.tx
       /\ y.ids = ids /\ y.heads = hs /\ y.comps = cs
  BY <1>6, <1>8, <1>9 DEF ImportRequest
<1> QED BY <1>1, <1>6, <1>7, <1>10

(* And what it keeps.                                                      *)
LEMMA OrderDoneKeeps ==
  ASSUME TreeInv, NEW z \in ImportRequest, RequestInv(z), NEW o \in Orders
  PROVE  RequestInv(OrderDone(z, o))
<1>1. PICK y : y = OrderDone(z, o)
  OBVIOUS
<1>2. /\ y \in ImportRequest /\ y.pc = z.pc /\ y.between = z.between /\ y.tx = z.tx
      /\ IsFiniteSet(DOMAIN y.ids) /\ Range(y.ids) \subseteq Range(z.ids)
      /\ y.heads = [z.heads EXCEPT ![o] = 0] /\ y.comps = [z.comps EXCEPT ![o] = {}]
  BY <1>1, OrderDoneIs DEF RequestInv
<1>3. z.heads \in [Orders -> Nat] /\ z.comps \in [Orders -> SUBSET ImportRow]
  BY DEF ImportRequest
<1>4. ASSUME NEW x \in Orders
      PROVE  /\ y.heads[x] \in 0..Len(Content[x])
             /\ y.heads[x] # 0 /\ x \in Range(y.ids) => ReadInv(y, x)
             /\ y.tx[x] # NoOrder => WroteInv(y, x)
  <2>1. /\ z.heads[x] \in 0..Len(Content[x])
        /\ z.heads[x] # 0 /\ x \in Range(z.ids) => ReadInv(z, x)
        /\ z.tx[x] # NoOrder => WroteInv(z, x)
    BY DEF RequestInv
  <2>2. CASE x = o
    <3>1. y.heads[x] = 0 /\ z.heads[x] \in Nat
      BY <1>2, <1>3, <2>2
    <3>2. y.heads[x] \in 0..Len(Content[x])
      BY <3>1, ContentIs
    <3> QED BY <1>2, <2>1, <3>1, <3>2 DEF WroteInv
  <2>3. CASE x # o
    <3>1. y.heads[x] = z.heads[x] /\ y.comps[x] = z.comps[x]
      BY <1>2, <1>3, <2>3
    <3> QED BY <1>2, <2>1, <3>1 DEF WroteInv, ReadInv
  <2> QED BY <2>2, <2>3
<1> QED BY <1>1, <1>2, <1>4 DEF RequestInv

(* The order a request is at.                                              *)
LEMMA OrderAtIs ==
  ASSUME ImportInv, NEW p \in ImportRequests, Writing(p)
  PROVE  OrderAt(p) \in Orders /\ OrderAt(p) \in Range(imp[p].ids)
<1>0. imp[p] \in ImportRequest
  BY DEF ImportInv
<1>1. PICK W \in SUBSET Nat : imp[p].ids \in [W -> Orders]
  BY <1>0 DEF ImportRequest, BatchRest
<1>2. IsFiniteSet(W) /\ W # {}
  BY <1>1 DEF ImportInv, RequestInv, Writing
<1>3. Min(W) \in W
  BY <1>2, MinIs
<1> QED BY <1>1, <1>3 DEF OrderAt, Range

(* An order is left out.                                                   *)
LEMMA StepSkip ==
  ASSUME ImportInv, NEW p \in ImportRequests, SkipOrder(p)
  PROVE  ImportInv'
<1>1. PICK z, o : z = imp[p] /\ o = OrderAt(p)
  OBVIOUS
<1>2. TreeInv /\ z \in ImportRequest /\ RequestInv(z) /\ o \in Orders
  BY <1>1, OrderAtIs DEF ImportInv, SkipOrder
<1>3. PICK y : y = OrderDone(z, o)
  OBVIOUS
<1>4. y \in ImportRequest /\ RequestInv(y) /\ y.tx = z.tx
  <2>1. IsFiniteSet(DOMAIN z.ids)
    BY <1>2 DEF RequestInv
  <2>2. y \in ImportRequest /\ y.tx = z.tx
    BY <1>2, <1>3, <2>1, OrderDoneIs
  <2>3. RequestInv(y)
    BY <1>2, <1>3, OrderDoneKeeps
  <2> QED BY <2>2, <2>3
<1>5. imp' = [imp EXCEPT ![p] = y] /\ UNCHANGED <<head, comps, order, mixed>>
  BY <1>1, <1>3 DEF SkipOrder, ImportInv
<1> QED BY <1>1, <1>4, <1>5, RequestBecomes

(* What is written of an acceptable order is sound.                        *)
LEMMA AcceptedIsSound ==
  ASSUME ImportInv, NEW p \in ImportRequests, Imports(p), NotYetImported(OrderAt(p))
  PROVE  /\ ImportedOrder(p, OrderAt(p)) \in OrderRow
         /\ ImportedOrder(p, OrderAt(p)).v = imp[p].heads[OrderAt(p)]
         /\ Sound(OrderAt(p), ImportedOrder(p, OrderAt(p)), imp[p].between[OrderAt(p)])
<1>1. PICK z, o : z = imp[p] /\ o = OrderAt(p)
  OBVIOUS
<1>2. /\ o \in Orders /\ z \in ImportRequest /\ z.pc = "write"
      /\ z.heads[o] # 0 /\ o \in Range(z.ids) /\ order[o] = NoOrder
      /\ Cardinality(DOMAIN Content[o][z.heads[o]]) = Cardinality(z.comps[o])
  BY <1>1, OrderAtIs DEF ImportInv, Imports, Writing, Acceptable, NotYetImported
<1>3. PICK C, v : C = z.comps[o] /\ v = z.heads[o]
  OBVIOUS
<1>4. ReadInv(z, o) /\ v \in Nat
  BY <1>1, <1>2, <1>3 DEF ImportInv, RequestInv, ImportRequest
<1>5. /\ RowsOK(o, C) /\ z.between[o] \in Betweens
      /\ z.between[o] = "none" => TreeOf(o, v, C)
      /\ z.between[o] = "whole" => \E w \in DOMAIN Content[o] : C = RowsAt(o, w)
  BY <1>2, <1>3, <1>4 DEF ReadInv, ImportRequest
<1>6. z.between[o] = "none" => C = RowsAt(o, v) /\ v \in DOMAIN Content[o]
  <2> SUFFICES ASSUME z.between[o] = "none"
               PROVE  C = RowsAt(o, v) /\ v \in DOMAIN Content[o]
    OBVIOUS
  <2>1. TreeOf(o, v, C) /\ IsFiniteSet(C)
    BY <1>5 DEF RowsOK
  <2>2. C = RowsAt(o, v)
    BY <1>2, <1>3, <2>1, CountedTree
  <2> QED BY <2>1, <2>2 DEF TreeOf
<1>7. PICK none, items : none = NoOrder
                         /\ items = [k \in Skus |-> none.items[k] + SkuTotal(o, C, k)]
  OBVIOUS
<1>8. /\ none \in OrderRow /\ none.v = 0 /\ none.lines = {} /\ none.ff = "NONE"
      /\ \A k \in Skus : none.items[k] = 0
  BY <1>7, NoneIs
<1>9. items \in [Skus -> Nat] /\ \A k \in Skus : items[k] = SkuTotal(o, C, k)
  <2>1. \A k \in Skus : SkuTotal(o, C, k) \in Nat
    BY <1>2, <1>5, TotalIs
  <2> QED BY <1>7, <1>8, <2>1
<1>10. PICK x : x = [none EXCEPT !.v = v, !.lines = {} \cup C, !.items = items,
                                 !.ff = "OMS_IMPORTED"]
  OBVIOUS
<1>11. /\ x \in OrderRow /\ x.v = v /\ x.lines = C /\ x.items = items
  <2>1. C \in SUBSET ImportRow
    BY <1>5 DEF RowsOK
  <2> QED BY <1>4, <1>8, <1>9, <1>10, <2>1 DEF OrderRow
<1>12. ImportedOrder(p, o) = x
  BY <1>1, <1>2, <1>3, <1>7, <1>8, <1>10 DEF ImportedOrder, OrderRow
<1>13. Sound(o, x, z.between[o])
  BY <1>5, <1>6, <1>9, <1>11 DEF Sound, Betweens
<1> QED BY <1>1, <1>3, <1>11, <1>12, <1>13

(* An order is written.                                                    *)
LEMMA StepImportOne ==
  ASSUME ImportInv, NEW p \in ImportRequests, ImportOne(p)
  PROVE  ImportInv'
<1>1. PICK z, o, x : z = imp[p] /\ o = OrderAt(p) /\ x = ImportedOrder(p, OrderAt(p))
  OBVIOUS
<1>2. /\ Imports(p) /\ Writing(p) /\ NotYetImported(o) /\ z.pc = "write"
      /\ \A q \in ImportRequests : ~WaitsForStore(p, q)
  BY <1>1 DEF ImportOne, Imports, Writing
<1>3. /\ o \in Orders /\ o \in Range(z.ids) /\ z \in ImportRequest /\ RequestInv(z)
      /\ TreeInv
  BY <1>1, <1>2, OrderAtIs DEF ImportInv
<1>4. x \in OrderRow /\ x.v = z.heads[o] /\ Sound(o, x, z.between[o])
  BY <1>1, <1>2, AcceptedIsSound
<1>5. PICK z1 : z1 = [z EXCEPT !.tx[o] = x]
  OBVIOUS
<1>6. /\ z1 \in ImportRequest /\ z1.pc = z.pc /\ z1.ids = z.ids /\ z1.heads = z.heads
      /\ z1.comps = z.comps /\ z1.between = z.between /\ z1.tx = [z.tx EXCEPT ![o] = x]
  <2>1. PICK t : t = [z.tx EXCEPT ![o] = x]
    OBVIOUS
  <2>2. t \in [Orders -> OrderRow]
    BY <1>3, <1>4, <2>1 DEF ImportRequest
  <2>3. z1 = [z EXCEPT !.tx = t]
    BY <1>5, <2>1
  <2> QED BY <1>3, <2>1, <2>2, <2>3 DEF ImportRequest
<1>7. PICK y : y = OrderDone(z1, o)
  OBVIOUS
<1>8. /\ y \in ImportRequest /\ y.pc = "write" /\ y.between = z.between
      /\ y.tx = [z.tx EXCEPT ![o] = x]
      /\ IsFiniteSet(DOMAIN y.ids) /\ Range(y.ids) \subseteq Range(z.ids)
      /\ y.heads = [z.heads EXCEPT ![o] = 0] /\ y.comps = [z.comps EXCEPT ![o] = {}]
  <2>1. IsFiniteSet(DOMAIN z1.ids)
    BY <1>3, <1>6 DEF RequestInv
  <2>2. /\ y \in ImportRequest /\ y.pc = z1.pc /\ y.between = z1.between /\ y.tx = z1.tx
        /\ IsFiniteSet(DOMAIN y.ids) /\ Range(y.ids) \subseteq Range(z1.ids)
        /\ y.heads = [z1.heads EXCEPT ![o] = 0] /\ y.comps = [z1.comps EXCEPT ![o] = {}]
    BY <1>3, <1>6, <1>7, <2>1, OrderDoneIs
  <2> QED BY <1>2, <1>6, <2>2
<1>9. /\ z.heads \in [Orders -> Nat] /\ z.comps \in [Orders -> SUBSET ImportRow]
      /\ z.tx \in [Orders -> OrderRow] /\ head \in [Orders -> Nat]
  BY <1>3 DEF ImportRequest, TreeInv
<1>10. ASSUME NEW w \in Orders
       PROVE  /\ y.heads[w] \in 0..Len(Content[w])
              /\ y.heads[w] # 0 /\ w \in Range(y.ids) => ReadInv(y, w)
              /\ y.tx[w] # NoOrder => WroteInv(y, w)
  <2>1. /\ z.heads[w] \in 0..Len(Content[w])
        /\ z.heads[w] # 0 /\ w \in Range(z.ids) => ReadInv(z, w)
        /\ z.tx[w] # NoOrder => WroteInv(z, w)
    BY <1>3 DEF RequestInv
  <2>2. CASE w = o
    <3>1. y.heads[w] = 0 /\ y.tx[w] = x
      BY <1>8, <1>9, <2>2
    <3>2. WroteInv(y, w)
      BY <1>2, <1>4, <1>8, <2>1, <2>2, <3>1 DEF WroteInv, NotYetImported
    <3> QED BY <1>9, <3>1, <3>2
  <2>3. CASE w # o
    <3>1. y.heads[w] = z.heads[w] /\ y.comps[w] = z.comps[w] /\ y.tx[w] = z.tx[w]
      BY <1>8, <1>9, <2>3
    <3> QED BY <1>2, <1>8, <2>1, <3>1 DEF WroteInv, ReadInv
  <2> QED BY <2>2, <2>3
<1>11. RequestInv(y)
  BY <1>8, <1>10 DEF RequestInv
<1>12. \A q \in ImportRequests \ {p} : imp[q].tx[o] = NoOrder
  BY <1>1, <1>2, <1>3 DEF WaitsForStore, StoreLocked
<1>13. \A w \in Orders : y.tx[w] = NoOrder \/ y.tx[w] = imp[p].tx[w]
                         \/ \A q \in ImportRequests \ {p} : imp[q].tx[w] = NoOrder
  BY <1>1, <1>8, <1>9, <1>12
<1>14. imp' = [imp EXCEPT ![p] = y] /\ UNCHANGED <<head, comps, order, mixed>>
  BY <1>1, <1>5, <1>7 DEF ImportOne, ImportInv
<1> QED BY <1>8, <1>11, <1>13, <1>14, RequestBecomes

(* The request commits.                                                    *)
LEMMA StepCommitImport ==
  ASSUME ImportInv, NEW p \in ImportRequests, CommitImport(p)
  PROVE  ImportInv'
<1>1. PICK z, e, W : z = imp[p] /\ e = EndedImport /\ W = WrittenBy(p)
  OBVIOUS
<1>2. /\ z \in ImportRequest /\ RequestInv(z)
      /\ W = {o \in Orders : z.tx[o] # NoOrder}
  BY <1>1 DEF ImportInv, WrittenBy
<1>3. /\ e \in ImportRequest /\ DOMAIN e.ids = {} /\ e.heads = [o \in Orders |-> 0]
      /\ e.tx = [o \in Orders |-> NoOrder]
  BY <1>1, NoneIs
<1>4. PICK next, ord, mix : next = imp' /\ ord = order' /\ mix = mixed'
  OBVIOUS
<1>5. /\ ord = [o \in Orders |-> IF o \in W THEN z.tx[o] ELSE order[o]]
      /\ mix = [o \in Orders |-> IF o \in W THEN z.between[o] ELSE mixed[o]]
      /\ next = [imp EXCEPT ![p] = e] /\ UNCHANGED <<head, comps>>
  BY <1>1, <1>4 DEF CommitImport
<1>6. /\ next \in [ImportRequests -> ImportRequest] /\ next[p] = e
      /\ \A q \in ImportRequests \ {p} : next[q] = imp[q]
  BY <1>3, <1>5 DEF ImportInv
<1>7. TreeInv'
  BY <1>5 DEF ImportInv, TreeInv
<1>8. OrderInv'
  <2>1. ASSUME NEW o \in Orders
        PROVE  /\ ord[o] \in OrderRow /\ mix[o] \in Betweens /\ ord[o].v \in 0..Len(Content[o])
               /\ ord[o] = NoOrder \/ Sound(o, ord[o], mix[o])
    <3>1. CASE o \in W
      <4>1. ord[o] = z.tx[o] /\ mix[o] = z.between[o]
        BY <1>5, <3>1
      <4>2. WroteInv(z, o)
        BY <1>2, <3>1 DEF RequestInv
      <4> QED BY <1>2, <4>1, <4>2 DEF WroteInv, ImportRequest
    <3>2. CASE o \notin W
      <4>1. ord[o] = order[o] /\ mix[o] = mixed[o]
        BY <1>5, <3>2
      <4> QED BY <4>1 DEF ImportInv, OrderInv
    <3> QED BY <3>1, <3>2
  <2>2. ord \in [Orders -> OrderRow] /\ mix \in [Orders -> Betweens]
    BY <1>5, <2>1
  <2> QED BY <1>4, <1>5, <2>1, <2>2 DEF OrderInv
<1>9. ASSUME NEW q \in ImportRequests PROVE RequestInv(next[q])'
  <2>1. CASE q = p
    <3>1. RequestInv(e)
      BY <1>3, FS_EmptySet DEF RequestInv, ImportInv, TreeInv
    <3>2. \A o \in Orders : e.tx[o] = NoOrder /\ e.heads[o] = 0
      BY <1>3
    <3>3. RequestInv(e)'
      BY <1>5, <3>1, <3>2 DEF RequestInv
    <3> QED BY <1>6, <2>1, <3>3
  <2>2. CASE q # p
    <3>1. PICK y : y = imp[q]
      OBVIOUS
    <3>2. next[q] = y /\ RequestInv(y)
      BY <1>6, <2>2, <3>1 DEF ImportInv
    <3>3. ASSUME NEW o \in Orders, y.tx[o] # NoOrder PROVE ord[o] = NoOrder
      <4>1. imp[p].tx[o] = NoOrder
        BY <2>2, <3>1, <3>3 DEF ImportInv
      <4>2. o \notin W
        BY <1>1, <1>2, <4>1
      <4>3. order[o] = NoOrder
        BY <3>2, <3>3 DEF RequestInv, WroteInv
      <4> QED BY <1>5, <4>2, <4>3
    <3>4. RequestInv(y)'
      BY <1>4, <1>5, <3>2, <3>3 DEF RequestInv, ReadInv, WroteInv
    <3> QED BY <3>2, <3>4
  <2> QED BY <2>1, <2>2
<1>10. \A q, s \in ImportRequests : \A o \in Orders :
         q # s => next[q].tx[o] = NoOrder \/ next[s].tx[o] = NoOrder
  <2> SUFFICES ASSUME NEW q \in ImportRequests, NEW s \in ImportRequests, NEW o \in Orders,
                      q # s
               PROVE  next[q].tx[o] = NoOrder \/ next[s].tx[o] = NoOrder
    OBVIOUS
  <2>1. imp[q].tx[o] = NoOrder \/ imp[s].tx[o] = NoOrder
    BY DEF ImportInv
  <2> QED BY <1>3, <1>6, <2>1
<1> QED BY <1>4, <1>6, <1>7, <1>8, <1>9, <1>10 DEF ImportInv

(* A sync commits: what was read stays what it was.                        *)
LEMMA StepSyncCommit ==
  ASSUME ImportInv, NEW o \in Orders, NEW v \in DOMAIN Content[o],
         NEW left \in SUBSET comps[o], SyncCommit(o, v, left)
  PROVE  ImportInv'
<1>1. PICK hd, cs, next : hd = head' /\ cs = comps' /\ next = imp'
  OBVIOUS
<1>2. PICK C : C = RowsAt(o, v) \cup left
  OBVIOUS
<1>3. PICK m : m = IF left = {} THEN "whole" ELSE "torn"
  OBVIOUS
<1>4. /\ hd = [head EXCEPT ![o] = v] /\ cs = [comps EXCEPT ![o] = C]
      /\ next = [p \in ImportRequests |->
                   IF imp[p].pc # "components" THEN imp[p]
                   ELSE [imp[p] EXCEPT !.between[o] = m]]
      /\ UNCHANGED <<order, mixed>>
      /\ left = {} \/ left = {r \in comps[o] : r.id \notin DOMAIN Content[o][v]}
  BY <1>1, <1>2, <1>3 DEF SyncCommit
<1>5. /\ head \in [Orders -> Nat] /\ comps \in [Orders -> SUBSET ImportRow]
      /\ v \in 1..Len(Content[o]) /\ Len(Content[o]) \in Nat /\ m \in Betweens
  BY <1>3, ContentIs DEF ImportInv, TreeInv, Betweens
<1>6. /\ hd \in [Orders -> Nat] /\ hd[o] = v /\ cs[o] = C
      /\ \A x \in Orders \ {o} : hd[x] = head[x] /\ cs[x] = comps[x]
  BY <1>4, <1>5
<1>7. RowsOK(o, C) /\ TreeOf(o, v, C)
  <2>1. RowsOK(o, comps[o])
    BY DEF ImportInv, TreeInv
  <2>2. RowsOK(o, RowsAt(o, v))
    BY RowsAtAre
  <2>3. IsFiniteSet(left)
    BY <2>1, FS_Subset DEF RowsOK
  <2>4. IsFiniteSet(C)
    BY <1>2, <2>2, <2>3, FS_Union DEF RowsOK
  <2>5. RowsOK(o, C)
    BY <1>2, <2>1, <2>2, <2>4 DEF RowsOK
  <2> QED BY <1>2, <1>4, <2>5 DEF TreeOf
<1>8. TreeInv'
  <2>1. ASSUME NEW x \in Orders
        PROVE  /\ hd[x] \in 0..Len(Content[x]) /\ RowsOK(x, cs[x])
               /\ IF hd[x] = 0 THEN cs[x] = {} ELSE TreeOf(x, hd[x], cs[x])
    <3>1. CASE x = o
      BY <1>5, <1>6, <1>7, <3>1
    <3>2. CASE x # o
      BY <1>6, <3>2 DEF ImportInv, TreeInv
    <3> QED BY <3>1, <3>2
  <2>2. cs \in [Orders -> SUBSET ImportRow]
    BY <1>4, <1>5, <1>7 DEF RowsOK
  <2> QED BY <1>1, <1>6, <2>1, <2>2 DEF TreeInv
<1>9. OrderInv'
  BY <1>4 DEF ImportInv, OrderInv
<1>10. ASSUME NEW p \in ImportRequests
       PROVE  next[p] \in ImportRequest /\ next[p].tx = imp[p].tx /\ RequestInv(next[p])'
  <2>1. PICK y, z : y = next[p] /\ z = imp[p]
    OBVIOUS
  <2>2. z \in ImportRequest /\ RequestInv(z)
    BY <2>1 DEF ImportInv
  <2>3. /\ y \in ImportRequest /\ y.tx = z.tx /\ y.pc = z.pc /\ y.ids = z.ids
        /\ y.heads = z.heads /\ y.comps = z.comps
        /\ y.between = IF z.pc = "components" THEN [z.between EXCEPT ![o] = m]
                       ELSE z.between
    <3>1. CASE z.pc # "components"
      BY <1>4, <2>1, <2>2, <3>1
    <3>2. CASE z.pc = "components"
      <4>1. PICK b : b = [z.between EXCEPT ![o] = m]
        OBVIOUS
      <4>2. b \in [Orders -> Betweens]
        BY <1>5, <2>2, <4>1 DEF ImportRequest
      <4>3. y = [z EXCEPT !.between = b]
        BY <1>4, <2>1, <3>2, <4>1
      <4> QED BY <2>2, <3>2, <4>1, <4>2, <4>3 DEF ImportRequest
    <3> QED BY <3>1, <3>2
  <2>4. /\ z.heads \in [Orders -> Nat] /\ z.between \in [Orders -> Betweens]
        /\ z.tx \in [Orders -> OrderRow]
    BY <2>2 DEF ImportRequest
  <2>5. ASSUME NEW x \in Orders
        PROVE  /\ y.heads[x] \in 0..Len(Content[x])
               /\ y.heads[x] # 0 /\ x \in Range(y.ids) => ReadInv(y, x)'
               /\ y.tx[x] # NoOrder => WroteInv(y, x)'
    <3>1. /\ z.heads[x] \in 0..Len(Content[x])
          /\ z.heads[x] # 0 /\ x \in Range(z.ids) => ReadInv(z, x)
          /\ z.tx[x] # NoOrder => WroteInv(z, x)
      BY <2>2 DEF RequestInv
    <3>2. y.heads[x] \in 0..Len(Content[x])
      BY <2>3, <3>1
    <3>3. ASSUME y.heads[x] # 0, x \in Range(y.ids) PROVE ReadInv(y, x)'
      <4>1. ReadInv(z, x)
        BY <2>3, <3>1, <3>3
      <4>2. CASE z.pc = "components" /\ x = o
        <5>1. y.between[x] = m
          BY <2>3, <2>4, <4>2
        <5>2. m # "none" /\ (m = "whole" => cs[x] = RowsAt(x, hd[x]))
          BY <1>2, <1>3, <1>6, <4>2
        <5>3. hd[x] # 0
          BY <1>5, <1>6, <4>2
        <5> QED BY <1>1, <2>3, <4>2, <5>1, <5>2, <5>3 DEF ReadInv
      <4>3. CASE z.pc = "components" /\ x # o
        <5>1. y.between[x] = z.between[x] /\ hd[x] = head[x] /\ cs[x] = comps[x]
          BY <1>6, <2>3, <2>4, <4>3
        <5> QED BY <1>1, <2>3, <4>1, <4>3, <5>1 DEF ReadInv
      <4>4. CASE z.pc # "components"
        BY <1>1, <2>3, <4>1, <4>4 DEF ReadInv
      <4> QED BY <4>2, <4>3, <4>4
    <3>4. ASSUME y.tx[x] # NoOrder PROVE WroteInv(y, x)'
      <4>1. WroteInv(z, x)
        BY <2>3, <3>1, <3>4
      <4>2. z.pc = "write"
        BY <4>1 DEF WroteInv
      <4>3. y.between = z.between
        BY <2>3, <4>2
      <4> QED BY <1>1, <1>4, <2>3, <4>1, <4>2, <4>3 DEF WroteInv
    <3> QED BY <3>2, <3>3, <3>4
  <2>6. RequestInv(y)'
    BY <1>1, <2>2, <2>3, <2>5 DEF RequestInv
  <2> QED BY <2>1, <2>3, <2>6
<1>11. next \in [ImportRequests -> ImportRequest]
  BY <1>4, <1>10
<1>12. \A p, q \in ImportRequests : \A x \in Orders :
         p # q => next[p].tx[x] = NoOrder \/ next[q].tx[x] = NoOrder
  BY <1>10 DEF ImportInv
<1> QED BY <1>1, <1>8, <1>9, <1>10, <1>11, <1>12 DEF ImportInv

(* A warehouse is assigned.                                                *)
LEMMA StepManualAssign ==
  ASSUME ImportInv, NEW o \in Orders, NEW w \in Warehouses, ManualAssign(o, w)
  PROVE  ImportInv'
<1>1. PICK ord, x : /\ ord = order'
                    /\ x = [order[o] EXCEPT !.ff = "MANUALLY_ASSIGNED", !.wh = w]
  OBVIOUS
<1>2. /\ ord = [order EXCEPT ![o] = x] /\ UNCHANGED <<head, comps, imp, mixed>>
      /\ order[o] # NoOrder /\ order \in [Orders -> OrderRow]
  BY <1>1 DEF ManualAssign, ImportInv, OrderInv
<1>3. /\ x \in OrderRow /\ x.v = order[o].v /\ x.lines = order[o].lines
      /\ x.items = order[o].items
  <2>1. PICK z : z = order[o]
    OBVIOUS
  <2>2. z \in OrderRow /\ x = [z EXCEPT !.ff = "MANUALLY_ASSIGNED", !.wh = w]
    BY <1>1, <1>2, <2>1
  <2> QED BY <2>1, <2>2 DEF OrderRow
<1>4. ord \in [Orders -> OrderRow] /\ ord[o] = x
      /\ \A u \in Orders \ {o} : ord[u] = order[u]
  BY <1>2, <1>3
<1>5. TreeInv'
  BY <1>2 DEF ImportInv, TreeInv
<1>6. OrderInv'
  <2>1. ASSUME NEW u \in Orders
        PROVE  ord[u].v \in 0..Len(Content[u]) /\ (ord[u] = NoOrder \/ Sound(u, ord[u], mixed[u]))
    <3>1. CASE u = o
      BY <1>2, <1>3, <1>4, <3>1 DEF ImportInv, OrderInv, Sound
    <3>2. CASE u # o
      BY <1>4, <3>2 DEF ImportInv, OrderInv
    <3> QED BY <3>1, <3>2
  <2> QED BY <1>1, <1>2, <1>4, <2>1 DEF ImportInv, OrderInv
<1>7. ASSUME NEW p \in ImportRequests PROVE RequestInv(imp[p])'
  <2>1. PICK y : y = imp[p]
    OBVIOUS
  <2>2. RequestInv(y)
    BY <2>1 DEF ImportInv
  <2>3. \A u \in Orders : order[u] = NoOrder => ord[u] = NoOrder
    BY <1>2, <1>4
  <2>4. RequestInv(y)'
    BY <1>1, <1>2, <2>2, <2>3 DEF RequestInv, ReadInv, WroteInv
  <2> QED BY <1>2, <2>1, <2>4
<1> QED BY <1>2, <1>5, <1>6, <1>7 DEF ImportInv

(* Every step keeps the invariant.                                         *)
LEMMA ImportGoesOn ==
  ASSUME ImportInv, [ImportNext]_importVars
  PROVE  ImportInv'
<1>1. CASE \E p \in ImportRequests : \E batch \in Batches[p] : StartImport(p, batch)
  BY <1>1, StepStartImport
<1>2. ASSUME NEW p \in ImportRequests, ImportStep(p) \/ FailImport(p) PROVE ImportInv'
  <2>1. CASE LoadComponents(p)
    BY <2>1, StepLoadComponents
  <2>2. CASE LoadExisting(p)
    BY <2>2, StepLoadExisting
  <2>3. CASE SkipOrder(p)
    BY <2>3, StepSkip
  <2>4. CASE ImportOne(p)
    BY <2>4, StepImportOne
  <2>5. CASE CommitImport(p)
    BY <2>5, StepCommitImport
  <2>6. CASE ImportConflict(p) \/ ImportDeadlock(p) \/ FailImport(p)
    BY <2>6, StepRollback DEF ImportConflict, ImportDeadlock, FailImport
  <2> QED BY <1>2, <2>1, <2>2, <2>3, <2>4, <2>5, <2>6 DEF ImportStep
<1>3. CASE \E o \in Orders : \E v \in DOMAIN Content[o], left \in SUBSET comps[o] :
             SyncCommit(o, v, left)
  BY <1>3, StepSyncCommit
<1>4. CASE \E o \in Orders, w \in Warehouses : ManualAssign(o, w)
  BY <1>4, StepManualAssign
<1>5. CASE UNCHANGED importVars
  BY <1>5 DEF importVars, ImportInv, TreeInv, OrderInv, RequestInv, ReadInv, WroteInv
<1> QED BY <1>1, <1>2, <1>3, <1>4, <1>5 DEF ImportNext

(* What is imported is sound.                                              *)
LEMMA ImportInvIs ==
  ASSUME ImportInv
  PROVE  ImportedIsOneVersion
<1>1. ASSUME NEW o \in Orders
      PROVE  /\ head[o] \in 0..Len(Content[o])
             /\ order[o].v \in 0..Len(Content[o])
             /\ order[o].items \in [Skus -> Nat]
             /\ order[o].ff \in {"NONE", "OMS_IMPORTED", "MANUALLY_ASSIGNED"}
             /\ order[o].wh \in Warehouses \cup {NoWarehouse}
  BY DEF ImportInv, TreeInv, OrderInv, OrderRow
<1>2. ImportTypeOK
  BY <1>1 DEF ImportTypeOK, ImportInv, OrderInv, Betweens
<1>3. ASSUME NEW o \in Orders, order[o] # NoOrder, mixed[o] # "torn"
      PROVE  \E v \in DOMAIN Content[o] :
               /\ order[o].lines = RowsAt(o, v)
               /\ mixed[o] = "none" => order[o].v = v
  BY <1>3 DEF ImportInv, OrderInv, Sound
<1>4. ASSUME NEW o \in Orders, NEW k \in Skus
      PROVE  order[o].items[k] = SkuTotal(o, order[o].lines, k)
  <2>1. CASE order[o] = NoOrder
    <3>1. PICK n : n = NoOrder
      OBVIOUS
    <3>2. n.lines = {} /\ n.items[k] = 0
      BY <3>1, NoneIs
    <3> QED BY <2>1, <3>1, <3>2, NoTotal
  <2>2. CASE order[o] # NoOrder
    BY <2>2 DEF ImportInv, OrderInv, Sound
  <2> QED BY <2>1, <2>2
<1> QED BY <1>2, <1>3, <1>4 DEF ImportedIsOneVersion

(* An order is imported once.                                              *)
LEMMA OrderIsLeft ==
  ASSUME ImportInv, [ImportNext]_importVars, NEW o \in Orders, order[o] # NoOrder
  PROVE  /\ order'[o].lines = order[o].lines /\ order'[o].items = order[o].items
         /\ order[o].wh # NoWarehouse => order'[o].wh # NoWarehouse
<1>1. CASE order' = order
  BY <1>1
<1>2. ASSUME NEW p \in ImportRequests, CommitImport(p) PROVE order'[o] = order[o]
  <2>1. imp[p].tx[o] = NoOrder
    BY DEF ImportInv, RequestInv, WroteInv
  <2> QED BY <1>2, <2>1 DEF CommitImport, WrittenBy
<1>3. ASSUME NEW u \in Orders, NEW w \in Warehouses, ManualAssign(u, w)
      PROVE  /\ order'[o].lines = order[o].lines /\ order'[o].items = order[o].items
             /\ order[o].wh # NoWarehouse => order'[o].wh # NoWarehouse
  <2>1. order \in [Orders -> OrderRow] /\ w # NoWarehouse
    BY ImportAssumption DEF ImportInv, OrderInv
  <2>2. CASE u = o
    <3>1. PICK z : z = order[o]
      OBVIOUS
    <3>2. /\ z \in OrderRow
          /\ order'[o] = [z EXCEPT !.ff = "MANUALLY_ASSIGNED", !.wh = w]
      BY <1>3, <2>1, <2>2, <3>1 DEF ManualAssign
    <3> QED BY <2>1, <3>1, <3>2 DEF OrderRow
  <2>3. CASE u # o
    BY <1>3, <2>1, <2>3 DEF ManualAssign
  <2> QED BY <2>2, <2>3
<1>4. CASE UNCHANGED importVars
  BY <1>4 DEF importVars
<1>5. CASE ImportNext
  <2>1. ASSUME NEW p \in ImportRequests, NEW batch \in Batches[p], StartImport(p, batch)
        PROVE  order' = order
    BY <2>1 DEF StartImport
  <2>2. ASSUME NEW p \in ImportRequests, ImportStep(p) \/ FailImport(p)
        PROVE  order' = order \/ CommitImport(p)
    BY <2>2 DEF ImportStep, FailImport, RollbackImport, LoadComponents, LoadExisting,
                SkipOrder, ImportOne, ImportConflict, ImportDeadlock
  <2>3. ASSUME NEW u \in Orders, NEW v, NEW left, SyncCommit(u, v, left)
        PROVE  order' = order
    BY <2>3 DEF SyncCommit
  <2> QED BY <1>1, <1>2, <1>3, <1>5, <2>1, <2>2, <2>3 DEF ImportNext
<1> QED BY <1>4, <1>5

(* import_orders_from_oms_projection: an imported order has the lines of   *)
(* one version, whole, unless a torn tree was committed between its reads, *)
(* and the quantity of every sku counts each line once.                    *)
THEOREM ImportsAreOneVersion == ImportSpec => []ImportedIsOneVersion
<1>1. ImportInit => ImportInv
  BY ImportBegins
<1>2. ImportInv /\ [ImportNext]_importVars => ImportInv'
  BY ImportGoesOn
<1>3. ImportInv => ImportedIsOneVersion
  BY ImportInvIs
<1> QED BY <1>1, <1>2, <1>3, PTL DEF ImportSpec

(* import_orders_from_oms_projection, manual_assign_fulfillment_warehouse: *)
(* what is to be shipped of an imported order, and the operator's          *)
(* warehouse, stand whatever imports, syncs and conflicts follow.          *)
THEOREM OrdersStand == ImportSpec => OrderStands
<1>1. ImportInit => ImportInv
  BY ImportBegins
<1>2. ImportInv /\ [ImportNext]_importVars => ImportInv'
  BY ImportGoesOn
<1>3. ImportInv /\ [ImportNext]_importVars =>
        [\A o \in Orders : order[o] # NoOrder =>
           /\ order'[o].lines = order[o].lines /\ order'[o].items = order[o].items
           /\ order[o].wh # NoWarehouse => order'[o].wh # NoWarehouse]_importVars
  BY OrderIsLeft
<1> QED BY <1>1, <1>2, <1>3, PTL DEF ImportSpec, OrderStands

-----------------------------------------------------------------------------
(* The order projection.                                                   *)
PageRow == [at : Nat, o : ReadyOrders, v : Nat]

RunLog == {"NONE", "RUNNING", "SUCCESS", "FAILED"}

SyncRun ==
  [st : RunLog, pc : Pcs, flt : SUBSET ReadyOrders, off : Nat, total : Nat,
   page : SUBSET PageRow, t : Tables, snap : SUBSET Row, del : SUBSET Row,
   ins : SUBSET Row, new : [ReadyOrders -> Nat], fresh : BOOLEAN,
   tear : SUBSET ReadyOrders]

(* OMS's list has an order once, and only orders that have a version.      *)
ListingInv ==
  /\ ver \in [ReadyOrders -> Nat]
  /\ \A o \in ReadyOrders : ver[o] \in 0..Len(Trees[o])
  /\ listing \in Seq(ReadyOrders) /\ IsInjective(listing)
  /\ \A i \in DOMAIN listing : ver[listing[i]] # 0

(* The orders a run has still to write, and the version it writes.         *)
TreePageInv(r, V) ==
  /\ r.pc \in {"look", "delete", "write"} <=> r.page # {}
  /\ \A x \in r.page : x.v \in 1..V[x.o]

(* A run has inserted the rows of the orders it wrote and, if nobody       *)
(* committed in between, deleted all the others; it has no others.         *)
WrittenInv(s, r, K, V) ==
  /\ IsFiniteSet(r.ins)
  /\ \A o \in ReadyOrders :
       /\ r.new[o] \in 0..V[o]
       /\ o \notin Replacing(r) =>
            IF r.new[o] = 0
            THEN \A n \in r.ins \cup r.del : n.o # o
            ELSE /\ RowsOf(s, o, r.new[o]) \subseteq r.ins
                 /\ \A n \in r.ins : n.o = o => n \in RowsOf(s, o, r.new[o])
                 /\ o \notin r.tear => \A n \in K : n.o = o => n \in r.del

(* The tables that have been deleted from in the replacement at work.      *)
Cleared(r) ==
  IF r.pc = "write" THEN Tables ELSE IF r.t = "lines" THEN {"components"} ELSE {}

(* What a replacement has done to the rows of its order.                   *)
ReplaceInv(r, K) ==
  \A o \in Replacing(r) :
    /\ \A t \in Cleared(r) :
         /\ \A n \in r.ins : n.o = o => n.t # t
         /\ o \notin r.tear => \A n \in K : n.o = o /\ n.t = t => n \in r.del
    /\ r.pc = "delete" =>
         /\ \A n \in r.snap : n.o = o
         /\ \A n \in r.ins : n.o = o /\ n.t = r.t => n \in r.snap
         /\ o \notin r.tear =>
              \A n \in K : n.o = o /\ n.t = r.t => n \in r.snap \cup r.del

(* What a fresh run has written of OMS's list.                             *)
FreshInv(r, L, V) ==
  /\ r.fresh /\ r.pc \notin {"done", "finish"} => r.flt = ReadyOrders /\ r.tear = {}
  /\ r.fresh /\ r.pc = "fetch" =>
       \A i \in DOMAIN L : i <= r.off => r.new[L[i]] = V[L[i]]
  /\ r.fresh /\ r.pc \in {"look", "delete", "write"} =>
       /\ r.total = Len(L)
       /\ \A x \in r.page : x.v = V[x.o]
       /\ \A i \in DOMAIN L : i <= r.off + Limit =>
            r.new[L[i]] = V[L[i]] \/ \E x \in r.page : x.o = L[i]
  /\ r.fresh /\ r.pc = "commit" => \A i \in DOMAIN L : r.new[L[i]] = V[L[i]]

RunInv(s, r, K, L, V) ==
  TreePageInv(r, V) /\ WrittenInv(s, r, K, V) /\ ReplaceInv(r, K) /\ FreshInv(r, L, V)

(* What is committed: all rows of the head's writer, and nothing else      *)
(* unless the order is torn.                                               *)
CommittedInv ==
  /\ heads \in [ReadyOrders -> Nat] /\ torn \subseteq ReadyOrders
  /\ kids \subseteq Row /\ IsFiniteSet(kids)
  /\ \A o \in ReadyOrders :
       /\ heads[o] <= ver[o]
       /\ heads[o] # 0 => \E s \in Runs : RowsOf(s, o, heads[o]) \subseteq kids
       /\ o \notin torn => Whole(o)

(* No two runs have written one order, and nobody runs beside a fresh one. *)
ProjInv ==
  /\ ListingInv /\ CommittedInv /\ run \in [Runs -> SyncRun]
  /\ \A s \in Runs : RunInv(s, run[s], kids, listing, ver)
  /\ \A s, q \in Runs : s # q =>
       /\ \A o \in ReadyOrders : run[s].new[o] = 0 \/ run[q].new[o] = 0
       /\ run[s].fresh => run[q].pc = "done"

(* What the trees of the orders are.                                       *)
LEMMA TreesAre ==
  ASSUME NEW o \in ReadyOrders
  PROVE  /\ Len(Trees[o]) \in Nat /\ DOMAIN Trees[o] = 1..Len(Trees[o])
         /\ \A v \in DOMAIN Trees[o] : Trees[o][v] \subseteq Parts /\ IsFiniteSet(Trees[o][v])
<1>1. PICK T : T = Trees[o]
  OBVIOUS
<1>2. T \in Seq(SUBSET Parts)
  BY <1>1, ProjectionAssumption
<1>3. Len(T) \in Nat /\ DOMAIN T = 1..Len(T) /\ \A v \in DOMAIN T : T[v] \subseteq Parts
  BY <1>2
<1> QED BY <1>1, <1>3, ProjectionAssumption

(* The ids of a version's rows.                                            *)
LEMMA IdsAre ==
  ASSUME NEW o \in ReadyOrders, NEW v \in 1..Len(Trees[o]), NEW t \in Tables
  PROVE  Ids(o, v, t) \subseteq RowIds /\ IsFiniteSet(Ids(o, v, t))
<1>1. v \in DOMAIN Trees[o]
  BY TreesAre
<1>2. PICK C : C = Trees[o][v]
  OBVIOUS
<1>3. C \subseteq Parts /\ IsFiniteSet(C)
  BY <1>1, <1>2, TreesAre
<1>4. CASE t = "components"
  BY <1>2, <1>3, <1>4 DEF Ids, RowIds
<1>5. CASE t # "components"
  <2>1. PICK D : D = {LineOf[c] : c \in C}
    OBVIOUS
  <2>2. PICK f : f = [c \in C |-> LineOf[c]]
    OBVIOUS
  <2>3. f \in [C -> D] /\ \A d \in D : \E c \in C : f[c] = d
    BY <2>1, <2>2
  <2>4. f \in Surjection(C, D)
    BY <2>3 DEF Surjection
  <2>5. IsFiniteSet(D)
    BY <1>3, <2>4, FS_Surjection
  <2>6. D \subseteq RowIds
    BY <1>3, <2>1 DEF RowIds
  <2>7. Ids(o, v, t) = D
    BY <1>2, <1>5, <2>1 DEF Ids
  <2> QED BY <2>5, <2>6, <2>7
<1> QED BY <1>4, <1>5

(* The rows of a version in one table are as many as their ids.            *)
LEMMA PartIs ==
  ASSUME NEW s \in Runs, NEW o \in ReadyOrders, NEW v \in 1..Len(Trees[o]), NEW t \in Tables,
         NEW S, S = {n \in RowsOf(s, o, v) : n.t = t}
  PROVE  IsFiniteSet(S) /\ Cardinality(S) = Cardinality(Ids(o, v, t))
<1>1. PICK I : I = Ids(o, v, t)
  OBVIOUS
<1>2. IsFiniteSet(I) /\ I \subseteq RowIds
  BY <1>1, IdsAre
<1>3. PICK f : f = [i \in I |-> [t |-> t, o |-> o, id |-> i, v |-> v, by |-> s]]
  OBVIOUS
<1>4. ASSUME NEW i \in I PROVE f[i] \in S /\ f[i].id = i
  <2>1. f[i] \in [t : Tables, o : {o}, id : RowIds, v : {v}, by : {s}]
    BY <1>2, <1>3
  <2>2. f[i].id = i /\ f[i].t = t
    BY <1>3
  <2> QED BY <1>1, <2>1, <2>2 DEF RowsOf
<1>5. ASSUME NEW n \in S PROVE \E i \in I : f[i] = n
  <2>1. /\ n \in [t : Tables, o : {o}, id : RowIds, v : {v}, by : {s}]
        /\ n.id \in Ids(o, v, n.t) /\ n.t = t
    BY DEF RowsOf
  <2>2. n = [t |-> t, o |-> o, id |-> n.id, v |-> v, by |-> s] /\ n.id \in I
    BY <1>1, <2>1
  <2> QED BY <1>3, <2>2
<1>6. f \in [I -> S]
  BY <1>3, <1>4
<1>7. \A i, j \in I : f[i] = f[j] => i = j
  BY <1>4
<1>8. f \in Injection(I, S)
  BY <1>6, <1>7 DEF Injection, IsInjective
<1>9. f \in Surjection(I, S)
  BY <1>5, <1>6 DEF Surjection
<1>10. ExistsBijection(I, S)
  BY <1>8, <1>9 DEF ExistsBijection, Bijection
<1> QED BY <1>1, <1>2, <1>10, FS_Bijection

(* The rows of a version.                                                  *)
LEMMA RowsOfIs ==
  ASSUME NEW s \in Runs, NEW o \in ReadyOrders, NEW v \in 1..Len(Trees[o])
  PROVE  /\ RowsOf(s, o, v) \subseteq Row /\ IsFiniteSet(RowsOf(s, o, v))
         /\ \A n \in RowsOf(s, o, v) : n.o = o /\ n.v = v
         /\ \A t \in Tables : {n.id : n \in {m \in RowsOf(s, o, v) : m.t = t}} = Ids(o, v, t)
<1>1. PICK R : R = RowsOf(s, o, v)
  OBVIOUS
<1>2. v \in Nat \ {0}
  BY TreesAre
<1>3. R \subseteq Row /\ \A n \in R : n.o = o /\ n.v = v
  BY <1>1, <1>2 DEF RowsOf, Row
<1>4. IsFiniteSet(R)
  <2>1. PICK A, B : /\ A = {n \in R : n.t = "components"}
                    /\ B = {n \in R : n.t = "lines"}
    OBVIOUS
  <2>2. IsFiniteSet(A)
    BY <1>1, <2>1, PartIs DEF Tables
  <2>3. IsFiniteSet(B)
    BY <1>1, <2>1, PartIs DEF Tables
  <2>4. R = A \cup B
    BY <1>3, <2>1 DEF Row, Tables
  <2> QED BY <2>2, <2>3, <2>4, FS_Union
<1>5. ASSUME NEW t \in Tables PROVE {n.id : n \in {m \in R : m.t = t}} = Ids(o, v, t)
  <2>1. \A n \in R : n.t = t => n.id \in Ids(o, v, t)
    BY <1>1 DEF RowsOf
  <2>2. ASSUME NEW i \in Ids(o, v, t) PROVE \E n \in R : n.t = t /\ n.id = i
    <3>1. PICK n : n = [t |-> t, o |-> o, id |-> i, v |-> v, by |-> s]
      OBVIOUS
    <3>2. n \in [t : Tables, o : {o}, id : RowIds, v : {v}, by : {s}]
      BY <3>1, IdsAre
    <3> QED BY <1>1, <3>1, <3>2 DEF RowsOf
  <2> QED BY <2>1, <2>2
<1> QED BY <1>1, <1>3, <1>4, <1>5

(* The earliest order of a page is one of it.                              *)
LEMMA EarliestIs ==
  ASSUME NEW page \in SUBSET PageRow, page # {}
  PROVE  Earliest(page) \in page
<1>1. PICK S : S = {x.at : x \in page}
  OBVIOUS
<1>2. S \in SUBSET Nat /\ S # {}
  BY <1>1 DEF PageRow
<1>3. PICK x \in page : x.at = Min(S)
  BY <1>1, <1>2, MinIs
<1>4. \A y \in page : x.at <= y.at
  BY <1>1, <1>2, <1>3, MinIs
<1> QED BY <1>3, <1>4 DEF Earliest

(* The places a filter selects, and their ranks without a filter.          *)
LEMMA SelectedIs ==
  ASSUME ListingInv, NEW flt \in SUBSET ReadyOrders
  PROVE  /\ Selected(flt) \subseteq DOMAIN listing /\ IsFiniteSet(Selected(flt))
         /\ DOMAIN listing = 1..Len(listing) /\ Len(listing) \in Nat
         /\ \A i \in DOMAIN listing : listing[i] \in ReadyOrders
         /\ flt = ReadyOrders =>
              /\ Cardinality(Selected(flt)) = Len(listing)
              /\ \A i \in DOMAIN listing : Rank(flt, i) = i
<1>1. PICK n : n = Len(listing)
  OBVIOUS
<1>2. /\ n \in Nat /\ DOMAIN listing = 1..n
      /\ \A i \in DOMAIN listing : listing[i] \in ReadyOrders
  BY <1>1 DEF ListingInv
<1>3. \A m \in Nat : IsFiniteSet(1..m) /\ Cardinality(1..m) = m
  <2> TAKE m \in Nat
  <2> QED BY FS_Interval
<1>4. Selected(flt) \subseteq 1..n
  BY <1>2 DEF Selected
<1>5. IsFiniteSet(Selected(flt))
  BY <1>2, <1>3, <1>4, FS_Subset
<1>6. ASSUME flt = ReadyOrders
      PROVE  /\ Cardinality(Selected(flt)) = n
             /\ \A i \in DOMAIN listing : Rank(flt, i) = i
  <2>1. Selected(flt) = 1..n
    BY <1>2, <1>6 DEF Selected
  <2>2. ASSUME NEW i \in DOMAIN listing PROVE Rank(flt, i) = i
    <3>1. i \in Nat /\ {j \in Selected(flt) : j <= i} = 1..i
      BY <1>2, <2>1
    <3>2. Cardinality(1..i) = i
      BY <1>3, <3>1
    <3> QED BY <3>1, <3>2 DEF Rank
  <2> QED BY <1>2, <1>3, <2>1, <2>2
<1> QED BY <1>1, <1>2, <1>4, <1>5, <1>6

(* OMS's list without an order.                                            *)
LEMMA WithoutIs ==
  ASSUME ListingInv, NEW o \in ReadyOrders, NEW W, W = Without(o)
  PROVE  /\ W \in Seq(ReadyOrders) /\ IsInjective(W)
         /\ \A i \in DOMAIN W : W[i] # o /\ \E j \in DOMAIN listing : W[i] = listing[j]
<1>1. PICK L, n : L = listing /\ n = Len(L)
  OBVIOUS
<1>2. L \in Seq(ReadyOrders) /\ n \in Nat /\ DOMAIN L = 1..n /\ IsInjective(L)
  BY <1>1 DEF ListingInv
<1>3. CASE o \notin ToSet(listing)
  <2>1. W = L /\ \A i \in DOMAIN L : L[i] # o
    BY <1>1, <1>3 DEF Without, ToSet
  <2> QED BY <1>1, <1>2, <2>1
<1>4. CASE o \in ToSet(listing)
  <2>1. PICK k : k = CHOOSE i \in DOMAIN L : L[i] = o
    OBVIOUS
  <2>2. k \in 1..n /\ L[k] = o
    BY <1>1, <1>2, <1>4, <2>1 DEF ToSet
  <2>3. PICK A, B : A = SubSeq(L, 1, k - 1) /\ B = SubSeq(L, k + 1, n)
    OBVIOUS
  <2>4. W = A \o B
    BY <1>1, <1>4, <2>1, <2>3 DEF Without, RemoveAt
  <2>5. \A i \in 1..n : L[i] \in ReadyOrders
    BY <1>2
  <2>6. /\ A \in Seq(ReadyOrders) /\ Len(A) = k - 1
        /\ \A i \in 1..(k - 1) : A[i] = L[i]
    <3>1. \A i \in 1..(k - 1) : L[i] \in ReadyOrders
      BY <1>2, <2>2, <2>5
    <3> QED BY <1>2, <2>2, <2>3, <3>1, SubSeqProperties
  <2>7. /\ B \in Seq(ReadyOrders) /\ Len(B) = n - k
        /\ \A i \in 1..(n - k) : B[i] = L[k + i]
    <3>1. \A i \in (k + 1)..n : L[i] \in ReadyOrders
      BY <2>2, <2>5
    <3> QED BY <1>2, <2>2, <2>3, <3>1, SubSeqProperties
  <2>8. /\ W \in Seq(ReadyOrders) /\ Len(W) = n - 1
        /\ \A i \in 1..(n - 1) : W[i] = IF i <= k - 1 THEN A[i] ELSE B[i - (k - 1)]
    <3>1. Len(A) + Len(B) = n - 1
      BY <1>2, <2>2, <2>6, <2>7
    <3>2. /\ W \in Seq(ReadyOrders) /\ Len(W) = Len(A) + Len(B)
          /\ \A i \in 1..(Len(A) + Len(B)) :
               W[i] = IF i <= Len(A) THEN A[i] ELSE B[i - Len(A)]
      <4>1. A \in Seq(ReadyOrders) /\ B \in Seq(ReadyOrders)
        BY <2>6, <2>7
      <4>2. /\ A \o B \in Seq(ReadyOrders) /\ Len(A \o B) = Len(A) + Len(B)
            /\ \A i \in 1..(Len(A) + Len(B)) :
                 (A \o B)[i] = IF i <= Len(A) THEN A[i] ELSE B[i - Len(A)]
        BY <4>1, ConcatProperties, Zenon
      <4> QED BY <2>4, <4>2, Zenon
    <3> QED BY <2>6, <3>1, <3>2
  <2>9. \A i \in 1..(n - 1) : W[i] = L[IF i < k THEN i ELSE i + 1]
    <3> TAKE i \in 1..(n - 1)
    <3>1. CASE i < k
      BY <1>2, <2>2, <2>6, <2>8, <3>1
    <3>2. CASE i >= k
      <4>1. W[i] = B[i - (k - 1)] /\ i - (k - 1) \in 1..(n - k)
        BY <1>2, <2>2, <2>8, <3>2
      <4>2. W[i] = L[k + (i - (k - 1))] /\ k + (i - (k - 1)) = i + 1
        BY <1>2, <2>2, <2>7, <3>2, <4>1
      <4> QED BY <2>2, <3>2, <4>2
    <3> QED BY <1>2, <2>2, <3>1, <3>2
  <2>10. DOMAIN W = 1..(n - 1)
    BY <2>8
  <2>11. ASSUME NEW i \in DOMAIN W
         PROVE  W[i] # o /\ \E j \in DOMAIN L : W[i] = L[j]
    <3>1. PICK j : j = IF i < k THEN i ELSE i + 1
      OBVIOUS
    <3>2. j \in 1..n /\ j # k /\ W[i] = L[j]
      BY <1>2, <2>2, <2>9, <2>10, <3>1
    <3> QED BY <1>2, <2>2, <3>2 DEF IsInjective
  <2>12. IsInjective(W)
    <3> SUFFICES ASSUME NEW i \in DOMAIN W, NEW j \in DOMAIN W, W[i] = W[j]
                 PROVE  i = j
      BY DEF IsInjective
    <3>1. PICK a, b : a = (IF i < k THEN i ELSE i + 1) /\ b = (IF j < k THEN j ELSE j + 1)
      OBVIOUS
    <3>2. a \in 1..n /\ b \in 1..n /\ L[a] = L[b]
      BY <1>2, <2>2, <2>9, <2>10, <3>1
    <3>3. a = b
      BY <1>2, <3>2 DEF IsInjective
    <3> QED BY <1>2, <2>2, <2>10, <3>1, <3>3
  <2> QED BY <1>1, <2>8, <2>11, <2>12
<1> QED BY <1>3, <1>4

(* A run's record when its own step leaves what is committed.              *)
LEMMA RunChanges ==
  ASSUME ProjInv, NEW s \in Runs, NEW y \in SyncRun, RunInv(s, y, kids, listing, ver),
         y.fresh => run[s].fresh,
         y.pc = "done" \/ run[s].pc # "done",
         \A q \in Runs \ {s} : \A o \in ReadyOrders : y.new[o] = 0 \/ run[q].new[o] = 0,
         run' = [run EXCEPT ![s] = y], UNCHANGED <<listing, ver, heads, kids, torn>>
  PROVE  ProjInv'
<1>1. PICK next : next = run'
  OBVIOUS
<1>2. run \in [Runs -> SyncRun] /\ next = [run EXCEPT ![s] = y]
  BY <1>1 DEF ProjInv
<1>3. next \in [Runs -> SyncRun] /\ next[s] = y /\ \A q \in Runs \ {s} : next[q] = run[q]
  BY <1>2
<1>4. ListingInv'
  BY DEF ProjInv, ListingInv
<1>5. CommittedInv'
  BY DEF ProjInv, CommittedInv, Whole, Of
<1>6. \A q \in Runs : RunInv(q, next[q], kids, listing, ver)
  BY <1>3 DEF ProjInv
<1>7. ASSUME NEW p \in Runs, NEW q \in Runs, p # q
      PROVE  /\ \A o \in ReadyOrders : next[p].new[o] = 0 \/ next[q].new[o] = 0
             /\ next[p].fresh => next[q].pc = "done"
  <2>1. /\ \A o \in ReadyOrders : run[p].new[o] = 0 \/ run[q].new[o] = 0
        /\ run[p].fresh => run[q].pc = "done"
    BY <1>7 DEF ProjInv
  <2>2. CASE p = s
    BY <1>3, <1>7, <2>1, <2>2
  <2>3. CASE q = s
    BY <1>3, <1>7, <2>1, <2>3
  <2>4. CASE p # s /\ q # s
    BY <1>3, <2>1, <2>4
  <2> QED BY <2>2, <2>3, <2>4
<1> QED BY <1>1, <1>3, <1>4, <1>5, <1>6, <1>7 DEF ProjInv

SameButStale(y, r) ==
  /\ y.fresh = FALSE /\ y.pc = r.pc /\ y.page = r.page /\ y.t = r.t
  /\ y.snap = r.snap /\ y.del = r.del /\ y.ins = r.ins /\ y.new = r.new
  /\ y.tear = r.tear

(* A run that is not fresh any more, whatever OMS's list is now.           *)
LEMMA RunStales ==
  ASSUME NEW s \in Runs, NEW r \in SyncRun, NEW K, NEW L, NEW V \in [ReadyOrders -> Nat],
         RunInv(s, r, K, L, V), NEW M, NEW U \in [ReadyOrders -> Nat],
         \A o \in ReadyOrders : V[o] <= U[o], NEW y \in SyncRun, SameButStale(y, r)
  PROVE  RunInv(s, y, K, M, U)
<1>1. /\ y.fresh = FALSE /\ y.pc = r.pc /\ y.page = r.page /\ y.t = r.t
      /\ y.snap = r.snap /\ y.del = r.del /\ y.ins = r.ins /\ y.new = r.new
      /\ y.tear = r.tear
  BY DEF SameButStale
<1>2. r.page \in SUBSET PageRow /\ r.new \in [ReadyOrders -> Nat]
  BY DEF SyncRun
<1>3. Replacing(y) = Replacing(r) /\ Cleared(y) = Cleared(r)
  BY <1>1 DEF Replacing, Cleared, TreeAt
<1>4. TreePageInv(y, U)
  <2>1. ASSUME NEW x \in r.page PROVE x.v \in 1..U[x.o]
    <3>1. x.o \in ReadyOrders /\ x.v \in 1..V[x.o]
      BY <1>2 DEF RunInv, TreePageInv, PageRow
    <3> QED BY <3>1
  <2> QED BY <1>1, <2>1 DEF RunInv, TreePageInv
<1>5. WrittenInv(s, y, K, U)
  <2>1. \A o \in ReadyOrders : r.new[o] \in 0..U[o]
    BY <1>2 DEF RunInv, WrittenInv
  <2> QED BY <1>1, <1>3, <2>1 DEF RunInv, WrittenInv
<1>6. ReplaceInv(y, K)
  BY <1>1, <1>3 DEF RunInv, ReplaceInv
<1>7. FreshInv(y, M, U)
  BY <1>1 DEF FreshInv
<1> QED BY <1>1, <1>4, <1>5, <1>6, <1>7 DEF RunInv

(* OMS's list changes.                                                     *)
LEMMA ListChanges ==
  ASSUME ProjInv, Stale, UNCHANGED <<heads, kids, torn>>, ListingInv',
         \A o \in ReadyOrders : ver[o] <= ver'[o]
  PROVE  ProjInv'
<1>1. PICK next, L, U : next = run' /\ L = listing' /\ U = ver'
  OBVIOUS
<1>2. /\ run \in [Runs -> SyncRun] /\ ver \in [ReadyOrders -> Nat]
      /\ U \in [ReadyOrders -> Nat] /\ \A o \in ReadyOrders : ver[o] <= U[o]
      /\ next = [s \in Runs |-> [run[s] EXCEPT !.fresh = FALSE]]
  BY <1>1 DEF ProjInv, ListingInv, Stale
<1>3. ASSUME NEW s \in Runs
      PROVE  /\ next[s] \in SyncRun /\ RunInv(s, next[s], kids, L, U)
             /\ next[s].pc = run[s].pc /\ next[s].new = run[s].new
             /\ next[s].fresh = FALSE
  <2>1. PICK r, y : r = run[s] /\ y = [r EXCEPT !.fresh = FALSE]
    OBVIOUS
  <2>2. r \in SyncRun /\ RunInv(s, r, kids, listing, ver)
    BY <1>2, <2>1 DEF ProjInv
  <2>3. next[s] = y
    BY <1>2, <2>1
  <2>4. /\ y \in SyncRun /\ RunInv(s, y, kids, L, U)
        /\ y.pc = r.pc /\ y.new = r.new /\ y.fresh = FALSE
    <3>1. y \in SyncRun /\ SameButStale(y, r)
      BY <2>1, <2>2 DEF SyncRun, SameButStale
    <3>2. ver \in [ReadyOrders -> Nat] /\ U \in [ReadyOrders -> Nat]
      BY <1>2
    <3>3. \A o \in ReadyOrders : ver[o] <= U[o]
      BY <1>2
    <3>4. RunInv(s, y, kids, L, U)
      BY <2>2, <3>1, <3>2, <3>3, RunStales
    <3> QED BY <3>1, <3>4 DEF SameButStale
  <2> QED BY <2>1, <2>3, <2>4
<1>4. next \in [Runs -> SyncRun]
  BY <1>2, <1>3
<1>5. CommittedInv'
  <2>1. ASSUME NEW o \in ReadyOrders PROVE heads[o] <= U[o]
    BY <1>2 DEF ProjInv, CommittedInv
  <2> QED BY <1>1, <2>1 DEF ProjInv, CommittedInv, Whole, Of
<1>6. \A s, q \in Runs : s # q =>
        /\ \A o \in ReadyOrders : next[s].new[o] = 0 \/ next[q].new[o] = 0
        /\ next[s].fresh => next[q].pc = "done"
  <2> TAKE s, q \in Runs
  <2>1. next[s].new = run[s].new /\ next[q].new = run[q].new /\ next[s].fresh = FALSE
    BY <1>3
  <2>2. s # q => \A o \in ReadyOrders : run[s].new[o] = 0 \/ run[q].new[o] = 0
    BY DEF ProjInv
  <2> QED BY <2>1, <2>2
<1> QED BY <1>1, <1>3, <1>4, <1>5, <1>6 DEF ProjInv

(* An order becomes ready or changes.                                      *)
LEMMA StepPublish ==
  ASSUME ProjInv, NEW o \in ReadyOrders, Publish(o)
  PROVE  ProjInv'
<1>1. PICK L, U, W : L = listing' /\ U = ver' /\ W = Without(o)
  OBVIOUS
<1>2. /\ L = <<o>> \o W /\ U = [ver EXCEPT ![o] = ver[o] + 1] /\ ver[o] < Len(Trees[o])
      /\ ver \in [ReadyOrders -> Nat] /\ \A x \in ReadyOrders : ver[x] \in 0..Len(Trees[x])
  BY <1>1 DEF Publish, ProjInv, ListingInv
<1>3. /\ W \in Seq(ReadyOrders) /\ IsInjective(W)
      /\ \A i \in DOMAIN W : W[i] # o /\ \E j \in DOMAIN listing : W[i] = listing[j]
  BY <1>1, WithoutIs DEF ProjInv
<1>4. PICK n : n = Len(W)
  OBVIOUS
<1>5. n \in Nat /\ DOMAIN W = 1..n
  BY <1>3, <1>4
<1>6. /\ L \in Seq(ReadyOrders) /\ DOMAIN L = 1..(n + 1) /\ L[1] = o
      /\ \A i \in 2..(n + 1) : L[i] = W[i - 1] /\ i - 1 \in DOMAIN W
  <2>1. PICK A : A = <<o>>
    OBVIOUS
  <2>2. A \in Seq(ReadyOrders) /\ Len(A) = 1 /\ A[1] = o
    BY <2>1
  <2>3. /\ A \o W \in Seq(ReadyOrders) /\ Len(A \o W) = Len(A) + Len(W)
        /\ \A i \in 1..(Len(A) + Len(W)) :
             (A \o W)[i] = IF i <= Len(A) THEN A[i] ELSE W[i - Len(A)]
    BY <1>3, <2>2, ConcatProperties, Zenon
  <2>4. L = A \o W
    BY <1>2, <2>1
  <2>5. /\ L \in Seq(ReadyOrders) /\ Len(L) = 1 + n
        /\ \A i \in 1..(1 + n) : L[i] = IF i <= 1 THEN A[i] ELSE W[i - 1]
    BY <1>4, <2>2, <2>3, <2>4
  <2>6. DOMAIN L = 1..(n + 1)
    BY <1>5, <2>5
  <2>7. L[1] = o
    BY <1>5, <2>2, <2>5
  <2>8. ASSUME NEW i \in 2..(n + 1) PROVE L[i] = W[i - 1] /\ i - 1 \in DOMAIN W
    BY <1>5, <2>5
  <2> QED BY <2>5, <2>6, <2>7, <2>8
<1>7. IsInjective(L)
  <2> SUFFICES ASSUME NEW i \in DOMAIN L, NEW j \in DOMAIN L, L[i] = L[j]
               PROVE  i = j
    BY DEF IsInjective
  <2>1. CASE i = 1 \/ j = 1
    BY <1>3, <1>5, <1>6, <2>1
  <2>2. CASE i # 1 /\ j # 1
    <3>1. i - 1 \in DOMAIN W /\ j - 1 \in DOMAIN W /\ W[i - 1] = W[j - 1]
      BY <1>5, <1>6, <2>2
    <3>2. i - 1 = j - 1
      BY <1>3, <3>1 DEF IsInjective
    <3> QED BY <1>5, <1>6, <3>2
  <2> QED BY <2>1, <2>2
<1>8. /\ U \in [ReadyOrders -> Nat] /\ U[o] # 0
      /\ \A x \in ReadyOrders : U[x] \in 0..Len(Trees[x]) /\ ver[x] <= U[x]
  BY <1>2, TreesAre
<1>9. ASSUME NEW i \in DOMAIN L PROVE U[L[i]] # 0
  <2>1. CASE i = 1
    BY <1>6, <1>8, <2>1
  <2>2. CASE i # 1
    <3>1. PICK j \in DOMAIN listing : L[i] = listing[j] /\ L[i] # o
      BY <1>3, <1>5, <1>6, <2>2
    <3>2. ver[L[i]] # 0 /\ L[i] \in ReadyOrders
      BY <1>6, <3>1 DEF ProjInv, ListingInv
    <3> QED BY <1>2, <3>1, <3>2
  <2> QED BY <2>1, <2>2
<1>10. ListingInv'
  BY <1>1, <1>6, <1>7, <1>8, <1>9 DEF ListingInv
<1>11. Stale /\ UNCHANGED <<heads, kids, torn>> /\ \A x \in ReadyOrders : ver[x] <= ver'[x]
  BY <1>1, <1>8 DEF Publish
<1> QED BY <1>10, <1>11, ListChanges

(* An order is no longer ready.                                            *)
LEMMA StepWithdraw ==
  ASSUME ProjInv, NEW o \in ReadyOrders, Withdraw(o)
  PROVE  ProjInv'
<1>1. PICK L, W : L = listing' /\ W = Without(o)
  OBVIOUS
<1>2. L = W /\ ver' = ver /\ Stale /\ UNCHANGED <<heads, kids, torn>>
  BY <1>1 DEF Withdraw
<1>3. /\ W \in Seq(ReadyOrders) /\ IsInjective(W)
      /\ \A i \in DOMAIN W : W[i] # o /\ \E j \in DOMAIN listing : W[i] = listing[j]
  BY <1>1, WithoutIs DEF ProjInv
<1>4. \A i \in DOMAIN L : ver[L[i]] # 0
  BY <1>2, <1>3 DEF ProjInv, ListingInv
<1>5. ListingInv'
  BY <1>1, <1>2, <1>3, <1>4 DEF ProjInv, ListingInv
<1>6. \A x \in ReadyOrders : ver[x] <= ver'[x]
  BY <1>2 DEF ProjInv, ListingInv
<1> QED BY <1>2, <1>5, <1>6, ListChanges

(* A run that has not begun or has ended keeps the invariant.              *)
LEMMA NoRunIs ==
  ASSUME NEW s \in Runs, NEW y \in SyncRun, y.pc \in {"done", "finish"}, y.page = {},
         y.del = {}, y.ins = {}, y.new = [o \in ReadyOrders |-> 0],
         NEW K, NEW L, NEW V \in [ReadyOrders -> Nat]
  PROVE  RunInv(s, y, K, L, V)
<1>1. Replacing(y) = {}
  BY DEF Replacing
<1>2. TreePageInv(y, V)
  BY DEF TreePageInv
<1>3. WrittenInv(s, y, K, V)
  BY FS_EmptySet DEF WrittenInv
<1>4. ReplaceInv(y, K)
  BY <1>1 DEF ReplaceInv
<1>5. FreshInv(y, L, V)
  BY DEF FreshInv
<1> QED BY <1>2, <1>3, <1>4, <1>5 DEF RunInv

(* The record of such a run.                                               *)
LEMMA EndedIs ==
  ASSUME NEW st \in RunLog, NEW y, y = EndedRun(st) \/ y = NewRun
  PROVE  /\ y \in SyncRun /\ y.pc = "done" /\ y.page = {} /\ y.del = {} /\ y.ins = {}
         /\ y.new = [o \in ReadyOrders |-> 0] /\ y.fresh = FALSE /\ y.off = 0 /\ y.tear = {}
<1>1. PICK new : new = [o \in ReadyOrders |-> 0]
  OBVIOUS
<1>2. new \in [ReadyOrders -> Nat]
  BY <1>1
<1>3. PICK z \in RunLog :
        y = [st |-> z, pc |-> "done", flt |-> {}, off |-> 0, total |-> 0, page |-> {},
             t |-> "components", snap |-> {}, del |-> {}, ins |-> {}, new |-> new,
             fresh |-> FALSE, tear |-> {}]
  BY <1>1 DEF EndedRun, NewRun, RunLog
<1> QED BY <1>1, <1>2, <1>3 DEF SyncRun, Pcs, Tables

(* The states the projection starts in.                                    *)
LEMMA ProjStarts ==
  ASSUME ProjInit
  PROVE  ProjInv
<1>1. PICK y : y = NewRun
  OBVIOUS
<1>2. y = NewRun
  BY <1>1
<1>3. "NONE" \in RunLog
  BY DEF RunLog
<1>4. /\ y \in SyncRun /\ y.pc = "done" /\ y.page = {} /\ y.del = {} /\ y.ins = {}
      /\ y.new = [o \in ReadyOrders |-> 0] /\ y.fresh = FALSE
  BY <1>2, <1>3, EndedIs
<1>5. run = [s \in Runs |-> y]
  BY <1>1 DEF ProjInit
<1>6. ver \in [ReadyOrders -> Nat]
  BY DEF ProjInit
<1>7. \A s \in Runs : RunInv(s, y, kids, listing, ver)
  BY <1>4, <1>6, NoRunIs
<1>8. ListingInv
  <2>1. \A o \in ReadyOrders : 0 \in 0..Len(Trees[o])
    BY TreesAre
  <2>2. listing \in Seq(ReadyOrders) /\ DOMAIN listing = {}
    BY DEF ProjInit
  <2> QED BY <2>1, <2>2 DEF ProjInit, ListingInv, IsInjective
<1>9. CommittedInv
  BY FS_EmptySet DEF ProjInit, CommittedInv, Whole, Of
<1> QED BY <1>4, <1>5, <1>7, <1>8, <1>9 DEF ProjInv

(* A run ends.                                                             *)
LEMMA StepEnd ==
  ASSUME ProjInv, NEW s \in Runs, FinishRun(s) \/ FailRun(s) \/ CrashRun(s)
  PROVE  ProjInv'
<1>1. PICK st \in RunLog : run' = [run EXCEPT ![s] = EndedRun(st)]
  BY DEF FinishRun, FailRun, CrashRun, RunLog
<1>2. PICK y : y = EndedRun(st)
  OBVIOUS
<1>3. /\ y \in SyncRun /\ y.pc = "done" /\ y.page = {} /\ y.del = {} /\ y.ins = {}
      /\ y.new = [o \in ReadyOrders |-> 0] /\ y.fresh = FALSE
  BY <1>2, EndedIs
<1>4. ver \in [ReadyOrders -> Nat]
  BY DEF ProjInv, ListingInv
<1>5. RunInv(s, y, kids, listing, ver)
  BY <1>3, <1>4, NoRunIs
<1>6. run' = [run EXCEPT ![s] = y] /\ UNCHANGED <<listing, ver, heads, kids, torn>>
  BY <1>1, <1>2 DEF FinishRun, FailRun, CrashRun
<1>7. \A q \in Runs \ {s} : \A o \in ReadyOrders : y.new[o] = 0 \/ run[q].new[o] = 0
  BY <1>3
<1> QED BY <1>3, <1>5, <1>6, <1>7, RunChanges

(* A run is created; nobody is fresh beside it.                            *)
LEMMA StepCreateRun ==
  ASSUME ProjInv, NEW s \in Runs, NEW flt \in Filters, CreateRun(s, flt)
  PROVE  ProjInv'
<1>1. PICK next, new, f : /\ next = run' /\ new = NewRun
                          /\ f = (flt = ReadyOrders /\ \A x \in Runs : ~InFlight(x))
  OBVIOUS
<1>2. /\ new \in SyncRun /\ new.pc = "done" /\ new.page = {} /\ new.del = {} /\ new.ins = {}
      /\ new.new = [o \in ReadyOrders |-> 0] /\ new.off = 0 /\ new.tear = {}
  <2>1. "NONE" \in RunLog
    BY DEF RunLog
  <2> QED BY <1>1, <2>1, EndedIs
<1>3. PICK y : y = [new EXCEPT !.st = "RUNNING", !.pc = "fetch", !.flt = flt, !.fresh = f]
  OBVIOUS
<1>4. flt \in SUBSET ReadyOrders /\ f \in BOOLEAN
  BY <1>1, ProjectionAssumption
<1>5. /\ y \in SyncRun /\ y.pc = "fetch" /\ y.flt = flt /\ y.fresh = f /\ y.page = {}
      /\ y.del = {} /\ y.ins = {} /\ y.new = [o \in ReadyOrders |-> 0] /\ y.off = 0
      /\ y.tear = {}
  BY <1>2, <1>3, <1>4 DEF SyncRun, RunLog, Pcs
<1>6. /\ run \in [Runs -> SyncRun] /\ ver \in [ReadyOrders -> Nat]
      /\ next = [q \in Runs |-> IF q = s THEN y ELSE [run[q] EXCEPT !.fresh = FALSE]]
      /\ UNCHANGED <<listing, ver, heads, kids, torn>>
  BY <1>1, <1>3 DEF CreateRun, ProjInv, ListingInv
<1>7. RunInv(s, y, kids, listing, ver)
  <2>1. Replacing(y) = {}
    BY <1>5 DEF Replacing
  <2>2. TreePageInv(y, ver)
    BY <1>5 DEF TreePageInv
  <2>3. WrittenInv(s, y, kids, ver)
    BY <1>5, <1>6, FS_EmptySet DEF WrittenInv
  <2>4. ReplaceInv(y, kids)
    BY <2>1 DEF ReplaceInv
  <2>5. \A i \in DOMAIN listing : ~(i <= 0)
    BY DEF ProjInv, ListingInv
  <2>6. FreshInv(y, listing, ver)
    BY <1>1, <1>5, <2>5 DEF FreshInv
  <2> QED BY <2>2, <2>3, <2>4, <2>6 DEF RunInv
<1>8. ASSUME NEW q \in Runs, q # s
      PROVE  /\ next[q] \in SyncRun /\ SameButStale(next[q], run[q])
             /\ RunInv(q, next[q], kids, listing, ver)
  <2>1. PICK r, z : r = run[q] /\ z = next[q]
    OBVIOUS
  <2>2. r \in SyncRun /\ RunInv(q, r, kids, listing, ver)
    BY <1>6, <2>1 DEF ProjInv
  <2>3. z = [r EXCEPT !.fresh = FALSE]
    BY <1>6, <1>8, <2>1
  <2>4. z \in SyncRun /\ SameButStale(z, r)
    BY <2>2, <2>3 DEF SyncRun, SameButStale
  <2>5. \A o \in ReadyOrders : ver[o] <= ver[o]
    BY <1>6
  <2>6. RunInv(q, z, kids, listing, ver)
    BY <1>6, <2>2, <2>4, <2>5, RunStales
  <2> QED BY <2>1, <2>4, <2>6
<1>9. next[s] = y /\ next \in [Runs -> SyncRun]
  BY <1>5, <1>6, <1>8
<1>10. \A q \in Runs : RunInv(q, next[q], kids, listing, ver)
  BY <1>7, <1>8, <1>9
<1>11. ASSUME NEW p \in Runs, NEW q \in Runs, p # q
       PROVE  /\ \A o \in ReadyOrders : next[p].new[o] = 0 \/ next[q].new[o] = 0
              /\ next[p].fresh => next[q].pc = "done"
  <2>1. CASE p = s
    <3>1. next[p].new = [o \in ReadyOrders |-> 0]
      BY <1>5, <1>9, <2>1
    <3>2. next[p].fresh => run[q].pc = "done"
      BY <1>1, <1>5, <1>9, <2>1 DEF InFlight
    <3>3. next[q].pc = run[q].pc
      BY <1>8, <1>11, <2>1 DEF SameButStale
    <3> QED BY <3>1, <3>2, <3>3
  <2>2. CASE p # s
    <3>1. next[p].fresh = FALSE /\ next[p].new = run[p].new
      BY <1>8, <2>2 DEF SameButStale
    <3>2. CASE q = s
      <4>1. next[q].new = [o \in ReadyOrders |-> 0]
        BY <1>5, <1>9, <3>2
      <4> QED BY <3>1, <4>1
    <3>3. CASE q # s
      <4>1. next[q].new = run[q].new
        BY <1>8, <3>3 DEF SameButStale
      <4>2. \A o \in ReadyOrders : run[p].new[o] = 0 \/ run[q].new[o] = 0
        BY <1>11 DEF ProjInv
      <4> QED BY <3>1, <4>1, <4>2
    <3> QED BY <3>2, <3>3
  <2> QED BY <2>1, <2>2
<1>12. ListingInv'
  BY <1>6 DEF ProjInv, ListingInv
<1>13. CommittedInv'
  BY <1>6 DEF ProjInv, CommittedInv, Whole, Of
<1> QED BY <1>1, <1>6, <1>9, <1>10, <1>11, <1>12, <1>13 DEF ProjInv

(* A page is fetched.                                                      *)
LEMMA StepFetchList ==
  ASSUME ProjInv, NEW s \in Runs, FetchList(s)
  PROVE  ProjInv'
<1>1. PICK z : z = run[s]
  OBVIOUS
<1>2. /\ z \in SyncRun /\ RunInv(s, z, kids, listing, ver) /\ z.pc = "fetch"
      /\ run \in [Runs -> SyncRun] /\ ver \in [ReadyOrders -> Nat] /\ ListingInv
  BY <1>1 DEF ProjInv, ListingInv, FetchList
<1>3. PICK pg, tot : pg = Page(z.flt, z.off) /\ tot = Cardinality(Selected(z.flt))
  OBVIOUS
<1>4. z.flt \in SUBSET ReadyOrders /\ z.off \in Nat
  BY <1>2 DEF SyncRun
<1>5. PICK n : n = Len(listing)
  OBVIOUS
<1>6. /\ Selected(z.flt) \subseteq DOMAIN listing /\ IsFiniteSet(Selected(z.flt))
      /\ DOMAIN listing = 1..n /\ n \in Nat
      /\ \A i \in DOMAIN listing : listing[i] \in ReadyOrders
      /\ z.flt = ReadyOrders =>
           tot = n /\ \A i \in DOMAIN listing : Rank(z.flt, i) = i
  BY <1>2, <1>3, <1>4, <1>5, SelectedIs
<1>7. tot \in Nat
  BY <1>3, <1>6, FS_CardinalityType
<1>8. ASSUME NEW x \in pg
      PROVE  x \in PageRow /\ x.v = ver[x.o] /\ x.v \in 1..ver[x.o]
  <2>1. PICK i \in Selected(z.flt) : x = [at |-> i, o |-> listing[i], v |-> ver[listing[i]]]
    BY <1>3 DEF Page
  <2>2. i \in DOMAIN listing /\ listing[i] \in ReadyOrders
    BY <1>6, <2>1
  <2>3. ver[listing[i]] # 0
    BY <1>2, <2>2 DEF ListingInv
  <2> QED BY <1>2, <1>6, <2>1, <2>2, <2>3 DEF PageRow
<1>9. PICK y : y = [z EXCEPT !.page = pg, !.total = tot, !.t = "components",
                             !.pc = IF pg = {} THEN "commit" ELSE "look"]
  OBVIOUS
<1>10. pg \in SUBSET PageRow
  BY <1>8
<1>11. /\ y \in SyncRun /\ y.page = pg /\ y.total = tot /\ y.t = "components"
       /\ y.pc = (IF pg = {} THEN "commit" ELSE "look") /\ y.flt = z.flt /\ y.off = z.off
       /\ y.del = z.del /\ y.ins = z.ins /\ y.new = z.new /\ y.fresh = z.fresh
       /\ y.tear = z.tear
  BY <1>2, <1>7, <1>9, <1>10 DEF SyncRun, Pcs, Tables
<1>12. Replacing(y) = {} /\ Replacing(z) = {}
  BY <1>2, <1>11 DEF Replacing
<1>13. TreePageInv(y, ver)
  BY <1>8, <1>11 DEF TreePageInv
<1>14. WrittenInv(s, y, kids, ver)
  BY <1>2, <1>11, <1>12 DEF RunInv, WrittenInv
<1>15. ReplaceInv(y, kids)
  BY <1>12 DEF ReplaceInv
<1>16. FreshInv(y, listing, ver)
  <2>1. CASE ~z.fresh
    BY <1>11, <2>1 DEF FreshInv
  <2>2. CASE z.fresh
    <3>1. /\ z.flt = ReadyOrders /\ z.tear = {}
          /\ \A i \in DOMAIN listing : i <= z.off => z.new[listing[i]] = ver[listing[i]]
      BY <1>2, <2>2 DEF RunInv, FreshInv
    <3>2. ASSUME NEW i \in DOMAIN listing, z.off < i, i <= z.off + Limit
          PROVE  \E x \in pg : x.o = listing[i]
      <4>1. Rank(z.flt, i) = i /\ i \in Selected(z.flt)
        BY <1>6, <3>1 DEF Selected
      <4>2. PICK x : x = [at |-> i, o |-> listing[i], v |-> ver[listing[i]]]
        OBVIOUS
      <4>3. x \in pg
        BY <1>3, <3>2, <4>1, <4>2 DEF Page
      <4> QED BY <4>2, <4>3
    <3>3. CASE pg = {}
      <4>1. ASSUME NEW i \in DOMAIN listing PROVE i <= z.off
        <5>1. z.off + 1 \in 1..n => z.off + 1 <= z.off + Limit
          BY <1>4, ProjectionAssumption
        <5>2. z.off + 1 \notin 1..n
          BY <1>4, <1>6, <3>2, <3>3, <5>1
        <5> QED BY <1>4, <1>6, <5>2
      <4>2. y.pc = "commit"
        BY <1>11, <3>3
      <4> QED BY <1>11, <3>1, <4>1, <4>2 DEF FreshInv
    <3>4. CASE pg # {}
      <4>1. y.pc = "look" /\ y.total = Len(listing)
        BY <1>5, <1>6, <1>11, <3>1, <3>4
      <4>2. ASSUME NEW i \in DOMAIN listing, i <= y.off + Limit
            PROVE  y.new[listing[i]] = ver[listing[i]] \/ \E x \in y.page : x.o = listing[i]
        <5>1. CASE i <= z.off
          BY <1>11, <3>1, <5>1
        <5>2. CASE ~(i <= z.off)
          BY <1>4, <1>6, <1>11, <3>2, <4>2, <5>2
        <5> QED BY <5>1, <5>2
      <4> QED BY <1>8, <1>11, <3>1, <4>1, <4>2 DEF FreshInv
    <3> QED BY <3>3, <3>4
  <2> QED BY <2>1, <2>2
<1>17. RunInv(s, y, kids, listing, ver)
  BY <1>13, <1>14, <1>15, <1>16 DEF RunInv
<1>18. run' = [run EXCEPT ![s] = y] /\ UNCHANGED <<listing, ver, heads, kids, torn>>
  BY <1>1, <1>2, <1>3, <1>9 DEF FetchList
<1>19. \A q \in Runs \ {s} : \A o \in ReadyOrders : y.new[o] = 0 \/ run[q].new[o] = 0
  BY <1>1, <1>11 DEF ProjInv
<1>20. (y.fresh => run[s].fresh) /\ run[s].pc # "done"
  BY <1>1, <1>2, <1>11
<1> QED BY <1>11, <1>17, <1>18, <1>19, <1>20, RunChanges

(* The order a run is at.                                                  *)
LEMMA AtIs ==
  ASSUME NEW z \in SyncRun, NEW V, TreePageInv(z, V), z.pc \in {"look", "delete", "write"}
  PROVE  /\ Earliest(z.page) \in z.page /\ Earliest(z.page) \in PageRow
         /\ TreeAt(z) = Earliest(z.page).o /\ TreeAt(z) \in ReadyOrders
         /\ Earliest(z.page).v \in 1..V[TreeAt(z)]
<1>1. z.page \in SUBSET PageRow /\ z.page # {}
  BY DEF SyncRun, TreePageInv
<1>2. Earliest(z.page) \in z.page
  BY <1>1, EarliestIs
<1>3. Earliest(z.page) \in PageRow
  BY <1>1, <1>2
<1> QED BY <1>2, <1>3 DEF TreeAt, TreePageInv, PageRow

(* A DELETE begins.                                                        *)
LEMMA StepLook ==
  ASSUME ProjInv, NEW s \in Runs, Look(s)
  PROVE  ProjInv'
<1>1. PICK z : z = run[s]
  OBVIOUS
<1>2. /\ z \in SyncRun /\ RunInv(s, z, kids, listing, ver) /\ z.pc = "look"
      /\ run \in [Runs -> SyncRun] /\ kids \subseteq Row
  BY <1>1 DEF ProjInv, CommittedInv, Look
<1>3. PICK o, S : o = TreeAt(z) /\ S = {n \in View(z) : n.t = z.t /\ n.o = o}
  OBVIOUS
<1>4. o \in ReadyOrders
  BY <1>2, <1>3, AtIs DEF RunInv
<1>5. S \in SUBSET Row
  BY <1>2, <1>3 DEF View, SyncRun
<1>6. PICK y : y = [z EXCEPT !.snap = S, !.pc = "delete"]
  OBVIOUS
<1>7. /\ y \in SyncRun /\ y.pc = "delete" /\ y.snap = S /\ y.page = z.page /\ y.t = z.t
      /\ y.total = z.total /\ y.flt = z.flt /\ y.off = z.off /\ y.del = z.del
      /\ y.ins = z.ins /\ y.new = z.new /\ y.fresh = z.fresh /\ y.tear = z.tear
  BY <1>2, <1>5, <1>6 DEF SyncRun, Pcs
<1>8. /\ Replacing(y) = {o}
      /\ Replacing(z) = IF z.t = "lines" THEN {o} ELSE {}
      /\ Cleared(y) = Cleared(z) /\ Cleared(y) = IF z.t = "lines" THEN {"components"} ELSE {}
  BY <1>2, <1>3, <1>7 DEF Replacing, Cleared, TreeAt
<1>9. TreePageInv(y, ver)
  BY <1>2, <1>7 DEF RunInv, TreePageInv
<1>10. WrittenInv(s, y, kids, ver)
  BY <1>2, <1>7, <1>8 DEF RunInv, WrittenInv
<1>11. ReplaceInv(y, kids)
  <2>1. ASSUME NEW t \in Cleared(y)
        PROVE  /\ \A n \in y.ins : n.o = o => n.t # t
               /\ o \notin y.tear => \A n \in kids : n.o = o /\ n.t = t => n \in y.del
    BY <1>2, <1>7, <1>8, <2>1 DEF RunInv, ReplaceInv
  <2>2. /\ \A n \in y.snap : n.o = o
        /\ \A n \in y.ins : n.o = o /\ n.t = y.t => n \in y.snap
        /\ \A n \in kids : n.o = o /\ n.t = y.t => n \in y.snap \cup y.del
    BY <1>3, <1>7 DEF View
  <2> QED BY <1>8, <2>1, <2>2 DEF ReplaceInv
<1>12. FreshInv(y, listing, ver)
  BY <1>2, <1>7 DEF RunInv, FreshInv
<1>13. RunInv(s, y, kids, listing, ver)
  BY <1>9, <1>10, <1>11, <1>12 DEF RunInv
<1>14. run' = [run EXCEPT ![s] = y] /\ UNCHANGED <<listing, ver, heads, kids, torn>>
  BY <1>1, <1>2, <1>3, <1>6 DEF Look
<1>15. \A q \in Runs \ {s} : \A x \in ReadyOrders : y.new[x] = 0 \/ run[q].new[x] = 0
  BY <1>1, <1>7 DEF ProjInv
<1>16. (y.fresh => run[s].fresh) /\ run[s].pc # "done"
  BY <1>1, <1>2, <1>7
<1> QED BY <1>7, <1>13, <1>14, <1>15, <1>16, RunChanges

(* A DELETE ends.                                                          *)
LEMMA StepDeleteRows ==
  ASSUME ProjInv, NEW s \in Runs, DeleteRows(s)
  PROVE  ProjInv'
<1>1. PICK z : z = run[s]
  OBVIOUS
<1>2. /\ z \in SyncRun /\ RunInv(s, z, kids, listing, ver) /\ z.pc = "delete"
      /\ run \in [Runs -> SyncRun] /\ kids \subseteq Row
  BY <1>1 DEF ProjInv, CommittedInv, DeleteRows
<1>3. PICK o : o = TreeAt(z)
  OBVIOUS
<1>4. PICK D, I, c : /\ D = z.del \cup (z.snap \cap kids) /\ I = z.ins \ z.snap
                     /\ c = IF z.t = "components" THEN "look" ELSE "write"
  OBVIOUS
<1>5. D \in SUBSET Row /\ I \in SUBSET Row /\ c \in {"look", "write"} /\ z.t \in Tables
  BY <1>2, <1>4 DEF SyncRun
<1>6. PICK y : y = [z EXCEPT !.del = D, !.ins = I, !.snap = {}, !.t = "lines", !.pc = c]
  OBVIOUS
<1>7. /\ y \in SyncRun /\ y.pc = c /\ y.snap = {} /\ y.page = z.page /\ y.t = "lines"
      /\ y.total = z.total /\ y.flt = z.flt /\ y.off = z.off /\ y.del = D
      /\ y.ins = I /\ y.new = z.new /\ y.fresh = z.fresh /\ y.tear = z.tear
  BY <1>2, <1>5, <1>6 DEF SyncRun, Pcs, Tables
<1>8. Replacing(y) = {o} /\ Replacing(z) = {o}
  BY <1>2, <1>3, <1>5, <1>7 DEF Replacing, TreeAt
<1>9. /\ \A n \in z.snap : n.o = o
      /\ \A n \in z.ins : n.o = o /\ n.t = z.t => n \in z.snap
      /\ o \notin z.tear => \A n \in kids : n.o = o /\ n.t = z.t => n \in z.snap \cup z.del
  BY <1>2, <1>8 DEF RunInv, ReplaceInv
<1>10. TreePageInv(y, ver)
  BY <1>2, <1>5, <1>7 DEF RunInv, TreePageInv
<1>11. WrittenInv(s, y, kids, ver)
  <2>1. IsFiniteSet(I)
    BY <1>2, <1>4, FS_Subset DEF RunInv, WrittenInv
  <2>2. ASSUME NEW x \in ReadyOrders, x # o
        PROVE  IF y.new[x] = 0
               THEN \A n \in y.ins \cup y.del : n.o # x
               ELSE /\ RowsOf(s, x, y.new[x]) \subseteq y.ins
                    /\ \A n \in y.ins : n.o = x => n \in RowsOf(s, x, y.new[x])
                    /\ x \notin y.tear => \A n \in kids : n.o = x => n \in y.del
    <3>1. CASE z.new[x] = 0
      <4>1. \A n \in z.ins \cup z.del : n.o # x
        BY <1>2, <1>8, <2>2, <3>1 DEF RunInv, WrittenInv
      <4> QED BY <1>4, <1>7, <1>9, <2>2, <3>1, <4>1
    <3>2. CASE z.new[x] # 0
      <4>1. /\ RowsOf(s, x, z.new[x]) \subseteq z.ins
            /\ \A n \in z.ins : n.o = x => n \in RowsOf(s, x, z.new[x])
            /\ x \notin z.tear => \A n \in kids : n.o = x => n \in z.del
        BY <1>2, <1>8, <2>2, <3>2 DEF RunInv, WrittenInv
      <4>2. \A n \in RowsOf(s, x, z.new[x]) : n.o = x
        BY DEF RowsOf
      <4> QED BY <1>4, <1>7, <1>9, <2>2, <3>2, <4>1, <4>2
    <3> QED BY <3>1, <3>2
  <2>3. \A x \in ReadyOrders : y.new[x] \in 0..ver[x]
    BY <1>2, <1>7 DEF RunInv, WrittenInv
  <2> QED BY <1>7, <1>8, <2>1, <2>2, <2>3 DEF WrittenInv
<1>12. ReplaceInv(y, kids)
  <2>1. ASSUME NEW t \in Cleared(y)
        PROVE  /\ \A n \in y.ins : n.o = o => n.t # t
               /\ o \notin y.tear => \A n \in kids : n.o = o /\ n.t = t => n \in y.del
    <3>1. CASE t = z.t
      BY <1>4, <1>7, <1>9, <3>1
    <3>2. CASE t # z.t
      <4>1. t \in Cleared(z)
        BY <1>2, <1>4, <1>5, <1>7, <2>1, <3>2 DEF Cleared, Tables
      <4>2. /\ \A n \in z.ins : n.o = o => n.t # t
            /\ o \notin z.tear => \A n \in kids : n.o = o /\ n.t = t => n \in z.del
        BY <1>2, <1>8, <4>1 DEF RunInv, ReplaceInv
      <4> QED BY <1>4, <1>7, <4>2
    <3> QED BY <3>1, <3>2
  <2>2. y.pc # "delete"
    BY <1>5, <1>7
  <2> QED BY <1>8, <2>1, <2>2 DEF ReplaceInv
<1>13. FreshInv(y, listing, ver)
  BY <1>2, <1>5, <1>7 DEF RunInv, FreshInv
<1>14. RunInv(s, y, kids, listing, ver)
  BY <1>10, <1>11, <1>12, <1>13 DEF RunInv
<1>15. run' = [run EXCEPT ![s] = y] /\ UNCHANGED <<listing, ver, heads, kids, torn>>
  BY <1>1, <1>2, <1>4, <1>6 DEF DeleteRows
<1>16. \A q \in Runs \ {s} : \A x \in ReadyOrders : y.new[x] = 0 \/ run[q].new[x] = 0
  BY <1>1, <1>7 DEF ProjInv
<1>17. (y.fresh => run[s].fresh) /\ run[s].pc # "done"
  BY <1>1, <1>2, <1>7
<1> QED BY <1>7, <1>14, <1>15, <1>16, <1>17, RunChanges

(* A tree is written.                                                      *)
LEMMA StepWriteTree ==
  ASSUME ProjInv, NEW s \in Runs, WriteTree(s)
  PROVE  ProjInv'
<1>1. PICK z : z = run[s]
  OBVIOUS
<1>2. /\ z \in SyncRun /\ RunInv(s, z, kids, listing, ver) /\ z.pc = "write"
      /\ run \in [Runs -> SyncRun] /\ kids \subseteq Row /\ ver \in [ReadyOrders -> Nat]
      /\ \A x \in ReadyOrders : ver[x] \in 0..Len(Trees[x])
  BY <1>1 DEF ProjInv, CommittedInv, ListingInv, WriteTree
<1>3. PICK e, o, v : e = Earliest(z.page) /\ o = TreeAt(z) /\ v = e.v
  OBVIOUS
<1>4. e \in z.page /\ e \in PageRow /\ o = e.o /\ o \in ReadyOrders /\ v \in 1..ver[o]
  BY <1>2, <1>3, AtIs DEF RunInv
<1>5. v \in 1..Len(Trees[o]) /\ v \in Nat \ {0}
  BY <1>2, <1>4, TreesAre
<1>6. PICK R : R = RowsOf(s, o, v)
  OBVIOUS
<1>7. R \subseteq Row /\ IsFiniteSet(R) /\ \A n \in R : n.o = o
  BY <1>4, <1>5, <1>6, RowsOfIs
<1>8. PICK nw, I, pg : /\ nw = [z.new EXCEPT ![o] = v] /\ I = z.ins \cup R
                       /\ pg = z.page \ {e}
  OBVIOUS
<1>9. /\ nw \in [ReadyOrders -> Nat] /\ nw[o] = v
      /\ \A x \in ReadyOrders \ {o} : nw[x] = z.new[x]
      /\ I \in SUBSET Row /\ pg \in SUBSET PageRow /\ z.off \in Nat /\ Limit \in Nat
      /\ z.total \in Nat
  BY <1>2, <1>4, <1>5, <1>7, <1>8, ProjectionAssumption DEF SyncRun
<1>10. PICK y0 : y0 = [z EXCEPT !.new = nw, !.ins = I, !.page = pg, !.t = "components",
                                !.pc = "look"]
  OBVIOUS
<1>11. PICK y : y = IF pg = {}
                    THEN [y0 EXCEPT !.off = z.off + Limit,
                            !.pc = IF z.off + Limit >= z.total THEN "commit" ELSE "fetch"]
                    ELSE y0
  OBVIOUS
<1>12. /\ y0 \in SyncRun /\ y0.pc = "look" /\ y0.page = pg /\ y0.t = "components"
       /\ y0.total = z.total /\ y0.flt = z.flt /\ y0.off = z.off /\ y0.del = z.del
       /\ y0.ins = I /\ y0.new = nw /\ y0.fresh = z.fresh /\ y0.tear = z.tear
  BY <1>2, <1>9, <1>10 DEF SyncRun, Pcs, Tables
<1>13. /\ y \in SyncRun /\ y.page = pg /\ y.t = "components"
       /\ y.pc = (IF pg # {} THEN "look"
                  ELSE IF z.off + Limit >= z.total THEN "commit" ELSE "fetch")
       /\ y.off = (IF pg # {} THEN z.off ELSE z.off + Limit)
       /\ y.total = z.total /\ y.flt = z.flt /\ y.del = z.del
       /\ y.ins = I /\ y.new = nw /\ y.fresh = z.fresh /\ y.tear = z.tear
  <2>1. CASE pg # {}
    BY <1>11, <1>12, <2>1
  <2>2. CASE pg = {}
    <3>1. PICK off, c : /\ off = z.off + Limit
                        /\ c = IF z.off + Limit >= z.total THEN "commit" ELSE "fetch"
      OBVIOUS
    <3>2. off \in Nat /\ c \in Pcs
      BY <1>9, <3>1 DEF Pcs
    <3>3. y = [y0 EXCEPT !.off = off, !.pc = c]
      BY <1>11, <2>2, <3>1
    <3>4. /\ y \in SyncRun /\ y.page = pg /\ y.t = "components" /\ y.pc = c /\ y.off = off
          /\ y.total = z.total /\ y.flt = z.flt /\ y.del = z.del
          /\ y.ins = I /\ y.new = nw /\ y.fresh = z.fresh /\ y.tear = z.tear
      BY <1>12, <3>2, <3>3 DEF SyncRun
    <3> QED BY <2>2, <3>1, <3>4
  <2> QED BY <2>1, <2>2
<1>14. Replacing(y) = {} /\ Replacing(z) = {o} /\ Cleared(z) = Tables
  BY <1>2, <1>3, <1>13 DEF Replacing, Cleared
<1>15. TreePageInv(y, ver)
  BY <1>2, <1>8, <1>13 DEF RunInv, TreePageInv
<1>16. /\ \A n \in z.ins : n.o # o
       /\ o \notin z.tear => \A n \in kids : n.o = o => n \in z.del
  <2>1. /\ \A t \in Tables : \A n \in z.ins : n.o = o => n.t # t
        /\ o \notin z.tear =>
             \A t \in Tables : \A n \in kids : n.o = o /\ n.t = t => n \in z.del
    BY <1>2, <1>14 DEF RunInv, ReplaceInv
  <2>2. \A n \in Row : n.t \in Tables
    BY DEF Row
  <2>3. z.ins \subseteq Row
    BY <1>2 DEF SyncRun
  <2> QED BY <1>2, <2>1, <2>2, <2>3
<1>17. WrittenInv(s, y, kids, ver)
  <2>1. IsFiniteSet(I)
    BY <1>2, <1>7, <1>8, FS_Union DEF RunInv, WrittenInv
  <2>2. ASSUME NEW x \in ReadyOrders
        PROVE  IF nw[x] = 0
               THEN \A n \in I \cup z.del : n.o # x
               ELSE /\ RowsOf(s, x, nw[x]) \subseteq I
                    /\ \A n \in I : n.o = x => n \in RowsOf(s, x, nw[x])
                    /\ x \notin z.tear => \A n \in kids : n.o = x => n \in z.del
    <3>1. CASE x = o
      BY <1>5, <1>6, <1>8, <1>9, <1>16, <3>1
    <3>2. CASE x # o /\ z.new[x] = 0
      <4>1. \A n \in z.ins \cup z.del : n.o # x
        BY <1>2, <1>14, <3>2 DEF RunInv, WrittenInv
      <4> QED BY <1>7, <1>8, <1>9, <3>2, <4>1
    <3>3. CASE x # o /\ z.new[x] # 0
      <4>1. /\ RowsOf(s, x, z.new[x]) \subseteq z.ins
            /\ \A n \in z.ins : n.o = x => n \in RowsOf(s, x, z.new[x])
            /\ x \notin z.tear => \A n \in kids : n.o = x => n \in z.del
        BY <1>2, <1>14, <3>3 DEF RunInv, WrittenInv
      <4> QED BY <1>7, <1>8, <1>9, <3>3, <4>1
    <3> QED BY <3>1, <3>2, <3>3
  <2>3. ASSUME NEW x \in ReadyOrders PROVE nw[x] \in 0..ver[x]
    <3>1. z.new[x] \in 0..ver[x]
      BY <1>2 DEF RunInv, WrittenInv
    <3> QED BY <1>2, <1>4, <1>9, <3>1
  <2> QED BY <1>13, <1>14, <2>1, <2>2, <2>3 DEF WrittenInv
<1>18. ReplaceInv(y, kids)
  BY <1>14 DEF ReplaceInv
<1>19. FreshInv(y, listing, ver)
  <2>1. CASE ~z.fresh
    BY <1>13, <2>1 DEF FreshInv
  <2>2. CASE z.fresh
    <3>1. /\ z.flt = ReadyOrders /\ z.tear = {} /\ z.total = Len(listing)
          /\ \A x \in z.page : x.v = ver[x.o]
          /\ \A i \in DOMAIN listing : i <= z.off + Limit =>
               z.new[listing[i]] = ver[listing[i]] \/ \E x \in z.page : x.o = listing[i]
      BY <1>2, <2>2 DEF RunInv, FreshInv
    <3>2. DOMAIN listing = 1..z.total /\ \A i \in DOMAIN listing : listing[i] \in ReadyOrders
      BY <3>1 DEF ProjInv, ListingInv
    <3>3. ASSUME NEW i \in DOMAIN listing, i <= z.off + Limit
          PROVE  nw[listing[i]] = ver[listing[i]] \/ \E x \in pg : x.o = listing[i]
      <4>1. CASE listing[i] = o
        BY <1>3, <1>4, <1>9, <3>1, <4>1
      <4>2. CASE listing[i] # o
        <5>1. CASE z.new[listing[i]] = ver[listing[i]]
          BY <1>9, <3>2, <4>2, <5>1
        <5>2. CASE \E x \in z.page : x.o = listing[i]
          BY <1>4, <1>8, <4>2, <5>2
        <5> QED BY <3>1, <3>3, <5>1, <5>2
      <4> QED BY <4>1, <4>2
    <3>4. CASE pg # {}
      <4>1. y.pc = "look" /\ y.off = z.off
        BY <1>13, <3>4
      <4>2. \A x \in y.page : x.v = ver[x.o]
        BY <1>8, <1>13, <3>1
      <4> QED BY <1>13, <3>1, <3>3, <4>1, <4>2 DEF FreshInv
    <3>5. CASE pg = {}
      <4>1. y.pc = (IF z.off + Limit >= z.total THEN "commit" ELSE "fetch")
            /\ y.off = z.off + Limit
        BY <1>13, <3>5
      <4>2. \A i \in DOMAIN listing : i <= z.off + Limit => nw[listing[i]] = ver[listing[i]]
        BY <3>3, <3>5
      <4>3. CASE z.off + Limit >= z.total
        <5>1. \A i \in DOMAIN listing : nw[listing[i]] = ver[listing[i]]
          BY <1>9, <3>2, <4>2, <4>3
        <5> QED BY <1>13, <3>1, <4>1, <4>3, <5>1 DEF FreshInv
      <4>4. CASE ~(z.off + Limit >= z.total)
        BY <1>13, <3>1, <4>1, <4>2, <4>4 DEF FreshInv
      <4> QED BY <4>3, <4>4
    <3> QED BY <3>4, <3>5
  <2> QED BY <2>1, <2>2
<1>20. RunInv(s, y, kids, listing, ver)
  BY <1>15, <1>17, <1>18, <1>19 DEF RunInv
<1>21. run' = [run EXCEPT ![s] = y] /\ UNCHANGED <<listing, ver, heads, kids, torn>>
  <2>1. PICK y1 : y1 = [z EXCEPT !.new[o] = v, !.ins = z.ins \cup R]
    OBVIOUS
  <2>2. /\ run' = [run EXCEPT ![s] = NextOrder(y1)]
        /\ UNCHANGED <<listing, ver, heads, kids, torn>>
    <3>1. TreeAt(run[s]) = o /\ Earliest(run[s].page).v = v /\ RowsOf(s, o, v) = R
      BY <1>1, <1>3, <1>6
    <3>2. y1 = [run[s] EXCEPT !.new[o] = v, !.ins = run[s].ins \cup R]
      BY <1>1, <2>1
    <3>3. run' = [run EXCEPT ![s] = NextOrder(
                    [run[s] EXCEPT !.new[o] = v, !.ins = run[s].ins \cup R])]
      BY <3>1 DEF WriteTree
    <3>4. run' = [run EXCEPT ![s] = NextOrder(y1)]
      BY <3>2, <3>3
    <3> QED BY <3>4 DEF WriteTree
  <2>3. y1 = [z EXCEPT !.new = nw, !.ins = I] /\ y1.page = z.page
    BY <1>2, <1>8, <2>1 DEF SyncRun
  <2>4. [y1 EXCEPT !.page = y1.page \ {Earliest(y1.page)}, !.t = "components", !.pc = "look"]
          = y0
    BY <1>2, <1>3, <1>8, <1>10, <2>3 DEF SyncRun
  <2>5. NextOrder(y1) = IF y0.page = {} THEN AfterPage(y0) ELSE y0
    BY <2>4 DEF NextOrder
  <2>6. AfterPage(y0) = [y0 EXCEPT !.off = z.off + Limit,
                           !.pc = IF z.off + Limit >= z.total THEN "commit" ELSE "fetch"]
    BY <1>12 DEF AfterPage
  <2> QED BY <1>11, <1>12, <2>2, <2>5, <2>6
<1>22. \A q \in Runs \ {s} : \A x \in ReadyOrders : y.new[x] = 0 \/ run[q].new[x] = 0
  <2>1. \A q \in Runs \ {s} : run[q].new[o] = 0
    BY <1>1, <1>3 DEF WriteTree, HeadUnlocked, TreeAt
  <2>2. \A q \in Runs \ {s} : \A x \in ReadyOrders : z.new[x] = 0 \/ run[q].new[x] = 0
    BY <1>1 DEF ProjInv
  <2> QED BY <1>9, <1>13, <2>1, <2>2
<1>23. (y.fresh => run[s].fresh) /\ run[s].pc # "done"
  BY <1>1, <1>2, <1>13
<1> QED BY <1>13, <1>20, <1>21, <1>22, <1>23, RunChanges

(* A tree whose rows are those of one run and version is whole.            *)
LEMMA OneRunIsWhole ==
  ASSUME NEW s \in Runs, NEW o \in ReadyOrders, NEW v \in 1..Len(Trees[o]),
         NEW K \in SUBSET Row, {n \in K : n.o = o} = RowsOf(s, o, v), NEW t \in Tables
  PROVE  /\ {n.id : n \in {m \in K : m.o = o /\ m.t = t}} = Ids(o, v, t)
         /\ \A n \in K : n.o = o /\ n.t = t => n.v = v
<1>1. PICK R : R = RowsOf(s, o, v)
  OBVIOUS
<1>2. /\ \A n \in R : n.o = o /\ n.v = v
      /\ {n.id : n \in {m \in R : m.t = t}} = Ids(o, v, t)
  BY <1>1, RowsOfIs
<1>3. {m \in K : m.o = o /\ m.t = t} = {m \in R : m.t = t}
  BY <1>1
<1> QED BY <1>1, <1>2, <1>3

(* A run commits.                                                          *)
LEMMA StepCommitRun ==
  ASSUME ProjInv, NEW s \in Runs, CommitRun(s)
  PROVE  ProjInv'
<1>1. PICK z, W, K : z = run[s] /\ W = WrittenIn(z) /\ K = View(z)
  OBVIOUS
<1>2. PICK hd, tn, next : hd = heads' /\ tn = torn' /\ next = run'
  OBVIOUS
<1>3. /\ z \in SyncRun /\ RunInv(s, z, kids, listing, ver) /\ z.pc = "commit"
      /\ run \in [Runs -> SyncRun] /\ kids \subseteq Row /\ IsFiniteSet(kids)
      /\ ver \in [ReadyOrders -> Nat] /\ heads \in [ReadyOrders -> Nat]
      /\ \A x \in ReadyOrders : ver[x] \in 0..Len(Trees[x])
      /\ torn \subseteq ReadyOrders
  BY <1>1 DEF ProjInv, CommittedInv, ListingInv, CommitRun
<1>4. PICK y : y = [z EXCEPT !.pc = "finish", !.del = {}, !.ins = {},
                             !.new = [o \in ReadyOrders |-> 0]]
  OBVIOUS
<1>5. /\ kids' = K
      /\ hd = [o \in ReadyOrders |-> IF o \in W THEN z.new[o] ELSE heads[o]]
      /\ tn = (torn \ W) \cup (z.tear \cap W)
      /\ next = [q \in Runs |->
                   IF q = s THEN y
                   ELSE [run[q] EXCEPT !.tear = run[q].tear \cup (W \cap Replacing(run[q]))]]
      /\ UNCHANGED <<listing, ver>>
  BY <1>1, <1>2, <1>4 DEF CommitRun
<1>6. W = {o \in ReadyOrders : z.new[o] # 0} /\ K = (kids \ z.del) \cup z.ins
  BY <1>1 DEF WrittenIn, View
<1>7. z.ins \in SUBSET Row /\ z.new \in [ReadyOrders -> Nat] /\ z.tear \subseteq ReadyOrders
  BY <1>3 DEF SyncRun
<1>8. z.page = {} /\ Replacing(z) = {}
  BY <1>3 DEF RunInv, TreePageInv, Replacing
<1>9. K \in SUBSET Row /\ IsFiniteSet(K)
  <2>1. IsFiniteSet(kids \ z.del)
    BY <1>3, FS_Subset
  <2>2. IsFiniteSet(z.ins)
    BY <1>3 DEF RunInv, WrittenInv
  <2> QED BY <1>3, <1>6, <1>7, <2>1, <2>2, FS_Union
<1>10. ASSUME NEW o \in W
       PROVE  /\ z.new[o] \in 1..ver[o] /\ z.new[o] \in 1..Len(Trees[o])
              /\ RowsOf(s, o, z.new[o]) \subseteq K
              /\ o \notin z.tear => {n \in K : n.o = o} = RowsOf(s, o, z.new[o])
  <2>1. o \in ReadyOrders /\ z.new[o] # 0
    BY <1>6
  <2>2. /\ z.new[o] \in 0..ver[o]
        /\ RowsOf(s, o, z.new[o]) \subseteq z.ins
        /\ \A n \in z.ins : n.o = o => n \in RowsOf(s, o, z.new[o])
        /\ o \notin z.tear => \A n \in kids : n.o = o => n \in z.del
    BY <1>3, <1>8, <2>1 DEF RunInv, WrittenInv
  <2>3. ver[o] \in Nat /\ ver[o] \in 0..Len(Trees[o]) /\ Len(Trees[o]) \in Nat
    BY <1>3, <2>1, TreesAre
  <2>4. z.new[o] \in 1..ver[o] /\ z.new[o] \in 1..Len(Trees[o])
    BY <2>1, <2>2, <2>3
  <2>5. \A n \in RowsOf(s, o, z.new[o]) : n.o = o
    BY DEF RowsOf
  <2> QED BY <1>6, <2>2, <2>4, <2>5
<1>11. ASSUME NEW o \in ReadyOrders \ W, NEW n, n.o = o
       PROVE  n \in K <=> n \in kids
  <2>1. \A m \in z.ins \cup z.del : m.o # o
    BY <1>3, <1>6, <1>8 DEF RunInv, WrittenInv
  <2> QED BY <1>6, <1>11, <2>1
<1>12. hd \in [ReadyOrders -> Nat] /\ tn \subseteq ReadyOrders
  BY <1>3, <1>5, <1>6, <1>7
<1>13. ASSUME NEW o \in ReadyOrders
       PROVE  /\ hd[o] <= ver[o]
              /\ hd[o] # 0 => \E q \in Runs : RowsOf(q, o, hd[o]) \subseteq K
              /\ o \notin tn => Whole(o)'
  <2>1. CASE o \in W
    <3>1. hd[o] = z.new[o]
      BY <1>5, <2>1
    <3>2. ASSUME o \notin tn PROVE Whole(o)'
      <4>1. {n \in K : n.o = o} = RowsOf(s, o, hd[o])
        BY <1>5, <1>10, <2>1, <3>1, <3>2
      <4>2. hd[o] \in 1..Len(Trees[o]) /\ hd[o] # 0
        BY <1>6, <1>10, <2>1, <3>1
      <4>3. ASSUME NEW t \in Tables
            PROVE  /\ {n.id : n \in {m \in K : m.o = o /\ m.t = t}} = Ids(o, hd[o], t)
                   /\ \A n \in K : n.o = o /\ n.t = t => n.v = hd[o]
        <5>1. PICK v : v = hd[o]
          OBVIOUS
        <5>2. v \in 1..Len(Trees[o]) /\ {n \in K : n.o = o} = RowsOf(s, o, v)
          BY <4>1, <4>2, <5>1
        <5>3. K \in SUBSET Row
          BY <1>9
        <5>4. /\ {n.id : n \in {m \in K : m.o = o /\ m.t = t}} = Ids(o, v, t)
              /\ \A n \in K : n.o = o /\ n.t = t => n.v = v
          BY <5>2, <5>3, OneRunIsWhole
        <5> QED BY <5>1, <5>4
      <4>4. kids' = K /\ heads' = hd
        BY <1>2, <1>5
      <4> QED BY <4>2, <4>3, <4>4 DEF Whole, Of
    <3>3. hd[o] <= ver[o]
      BY <1>3, <1>10, <2>1, <3>1
    <3> QED BY <1>10, <2>1, <3>1, <3>2, <3>3
  <2>2. CASE o \notin W
    <3>1. hd[o] = heads[o]
      BY <1>5, <2>2
    <3>2. ASSUME o \notin tn PROVE Whole(o)'
      <4>1. Whole(o)
        BY <1>5, <2>2, <3>2 DEF ProjInv, CommittedInv
      <4>2. \A t \in Tables : {m \in K : m.o = o /\ m.t = t} = {m \in kids : m.o = o /\ m.t = t}
        BY <1>11, <2>2
      <4>3. kids' = K /\ heads' = hd
        BY <1>2, <1>5
      <4> QED BY <3>1, <4>1, <4>2, <4>3 DEF Whole, Of
    <3>3. heads[o] <= ver[o]
      BY DEF ProjInv, CommittedInv
    <3>4. ASSUME hd[o] # 0 PROVE \E q \in Runs : RowsOf(q, o, hd[o]) \subseteq K
      <4>1. PICK q \in Runs : RowsOf(q, o, hd[o]) \subseteq kids
        BY <3>1, <3>4 DEF ProjInv, CommittedInv
      <4>2. \A n \in RowsOf(q, o, hd[o]) : n.o = o
        BY DEF RowsOf
      <4> QED BY <1>11, <2>2, <4>1, <4>2
    <3> QED BY <3>1, <3>2, <3>3, <3>4
  <2> QED BY <2>1, <2>2
<1>14. CommittedInv'
  <2>1. kids' = K /\ heads' = hd /\ torn' = tn /\ ver' = ver
    BY <1>2, <1>5
  <2> QED BY <1>9, <1>12, <1>13, <2>1 DEF CommittedInv
<1>15. ListingInv'
  BY <1>5 DEF ProjInv, ListingInv
<1>16. /\ y \in SyncRun /\ y.pc = "finish" /\ y.page = {} /\ y.del = {} /\ y.ins = {}
       /\ y.new = [o \in ReadyOrders |-> 0]
  <2>1. PICK zero : zero = [o \in ReadyOrders |-> 0]
    OBVIOUS
  <2>2. zero \in [ReadyOrders -> Nat]
    BY <2>1
  <2>3. y = [z EXCEPT !.pc = "finish", !.del = {}, !.ins = {}, !.new = zero]
    BY <1>4, <2>1
  <2>4. /\ y \in SyncRun /\ y.pc = "finish" /\ y.page = {} /\ y.del = {} /\ y.ins = {}
        /\ y.new = zero
    BY <1>3, <1>8, <2>2, <2>3 DEF SyncRun, Pcs
  <2> QED BY <2>1, <2>4
<1>17. RunInv(s, y, K, listing, ver)
  BY <1>3, <1>16, NoRunIs
<1>18. ASSUME NEW q \in Runs, q # s
       PROVE  /\ next[q] \in SyncRun /\ RunInv(q, next[q], K, listing, ver)
              /\ next[q].new = run[q].new /\ next[q].fresh = FALSE
  <2>1. PICK r, u : r = run[q] /\ u = r.tear \cup (W \cap Replacing(r))
    OBVIOUS
  <2>2. r \in SyncRun /\ RunInv(q, r, kids, listing, ver)
    BY <1>3, <2>1 DEF ProjInv
  <2>3. u \in SUBSET ReadyOrders
    BY <1>6, <2>1, <2>2 DEF SyncRun
  <2>4. PICK w : w = [r EXCEPT !.tear = u]
    OBVIOUS
  <2>5. next[q] = w
    BY <1>5, <1>18, <2>1, <2>4
  <2>6. /\ w \in SyncRun /\ w.pc = r.pc /\ w.page = r.page /\ w.t = r.t /\ w.snap = r.snap
        /\ w.del = r.del /\ w.ins = r.ins /\ w.new = r.new /\ w.fresh = r.fresh
        /\ w.tear = u
    BY <2>2, <2>3, <2>4 DEF SyncRun
  <2>7. r.fresh = FALSE
    <3>1. r.fresh => z.pc = "done"
      BY <1>1, <1>18, <2>1 DEF ProjInv
    <3>2. r.fresh \in BOOLEAN
      BY <2>2 DEF SyncRun
    <3> QED BY <1>3, <3>1, <3>2
  <2>8. Replacing(w) = Replacing(r) /\ Cleared(w) = Cleared(r)
    BY <2>6 DEF Replacing, Cleared, TreeAt
  <2>9. TreePageInv(w, ver)
    BY <2>2, <2>6 DEF RunInv, TreePageInv
  <2>10. WrittenInv(q, w, K, ver)
    <3>1. ASSUME NEW o \in ReadyOrders, r.new[o] # 0, o \notin Replacing(r), o \notin u
          PROVE  \A n \in K : n.o = o => n \in r.del
      <4>1. o \notin W
        BY <1>1, <1>6, <1>18, <2>1, <3>1 DEF ProjInv
      <4>2. \A n \in kids : n.o = o => n \in r.del
        BY <2>1, <2>2, <3>1 DEF RunInv, WrittenInv
      <4> QED BY <1>11, <4>1, <4>2
    <3> QED BY <2>2, <2>6, <2>8, <3>1 DEF RunInv, WrittenInv
  <2>11. ReplaceInv(w, K)
    <3>1. ASSUME NEW o \in Replacing(r)
          PROVE  /\ \A t \in Cleared(r) :
                      /\ \A n \in r.ins : n.o = o => n.t # t
                      /\ o \notin u => \A n \in K : n.o = o /\ n.t = t => n \in r.del
                 /\ r.pc = "delete" =>
                      /\ \A n \in r.snap : n.o = o
                      /\ \A n \in r.ins : n.o = o /\ n.t = r.t => n \in r.snap
                      /\ o \notin u =>
                           \A n \in K : n.o = o /\ n.t = r.t => n \in r.snap \cup r.del
      <4>1. /\ \A t \in Cleared(r) :
                 /\ \A n \in r.ins : n.o = o => n.t # t
                 /\ o \notin r.tear => \A n \in kids : n.o = o /\ n.t = t => n \in r.del
            /\ r.pc = "delete" =>
                 /\ \A n \in r.snap : n.o = o
                 /\ \A n \in r.ins : n.o = o /\ n.t = r.t => n \in r.snap
                 /\ o \notin r.tear =>
                      \A n \in kids : n.o = o /\ n.t = r.t => n \in r.snap \cup r.del
        BY <2>2, <3>1 DEF RunInv, ReplaceInv
      <4>2. ASSUME o \notin u PROVE o \notin r.tear /\ \A n \in K : n.o = o => n \in kids
        <5>1. o \notin r.tear /\ o \notin W
          BY <2>1, <3>1, <4>2
        <5>2. o \in ReadyOrders
          BY <2>2, <3>1, AtIs DEF Replacing, RunInv
        <5> QED BY <1>11, <5>1, <5>2
      <4> QED BY <4>1, <4>2
    <3> QED BY <2>6, <2>8, <3>1 DEF ReplaceInv
  <2>12. FreshInv(w, listing, ver)
    BY <2>6, <2>7 DEF FreshInv
  <2>13. RunInv(q, w, K, listing, ver)
    BY <2>9, <2>10, <2>11, <2>12 DEF RunInv
  <2> QED BY <2>1, <2>5, <2>6, <2>7, <2>13
<1>19. next[s] = y /\ next \in [Runs -> SyncRun]
  BY <1>5, <1>16, <1>18
<1>20. \A q \in Runs : RunInv(q, next[q], K, listing, ver)
  BY <1>17, <1>18, <1>19
<1>21. ASSUME NEW p \in Runs, NEW q \in Runs, p # q
       PROVE  /\ \A o \in ReadyOrders : next[p].new[o] = 0 \/ next[q].new[o] = 0
              /\ next[p].fresh => next[q].pc = "done"
  <2>1. CASE p = s
    <3>1. next[p].new = [o \in ReadyOrders |-> 0]
      BY <1>16, <1>19, <2>1
    <3>2. next[p].fresh = run[p].fresh
      BY <1>1, <1>3, <1>4, <1>19, <2>1 DEF SyncRun
    <3>3. next[q].pc = run[q].pc
      BY <1>3, <1>5, <1>21, <2>1 DEF SyncRun
    <3>4. run[p].fresh => run[q].pc = "done"
      BY <1>21 DEF ProjInv
    <3> QED BY <3>1, <3>2, <3>3, <3>4
  <2>2. CASE p # s
    <3>1. next[p].fresh = FALSE /\ next[p].new = run[p].new
      BY <1>18, <2>2
    <3>2. CASE q = s
      <4>1. next[q].new = [o \in ReadyOrders |-> 0]
        BY <1>16, <1>19, <3>2
      <4> QED BY <3>1, <4>1
    <3>3. CASE q # s
      <4>1. next[q].new = run[q].new
        BY <1>18, <3>3
      <4>2. \A o \in ReadyOrders : run[p].new[o] = 0 \/ run[q].new[o] = 0
        BY <1>21 DEF ProjInv
      <4> QED BY <3>1, <4>1, <4>2
    <3> QED BY <3>2, <3>3
  <2> QED BY <2>1, <2>2
<1> QED BY <1>2, <1>5, <1>14, <1>15, <1>19, <1>20, <1>21 DEF ProjInv

(* Every step keeps the invariant.                                         *)
LEMMA ProjGoesOn ==
  ASSUME ProjInv, [ProjNext]_projVars
  PROVE  ProjInv'
<1>1. ASSUME NEW o \in ReadyOrders, Publish(o) PROVE ProjInv'
  BY <1>1, StepPublish
<1>2. ASSUME NEW o \in ReadyOrders, Withdraw(o) PROVE ProjInv'
  BY <1>2, StepWithdraw
<1>3. ASSUME NEW s \in Runs, Sync(s) PROVE ProjInv'
  BY <1>3, StepCreateRun, StepFetchList, StepLook, StepDeleteRows, StepWriteTree, StepCommitRun,
     StepEnd DEF Sync
<1>4. CASE UNCHANGED projVars
  BY <1>4 DEF projVars, ProjInv, ListingInv, CommittedInv, Whole, Of
<1> QED BY <1>1, <1>2, <1>3, <1>4 DEF ProjNext

(* If an order has as many rows as its head counts, they are the rows of   *)
(* the run that wrote the head.                                            *)
LEMMA CountedIs ==
  ASSUME ProjInv, NEW o \in ReadyOrders, heads[o] # 0, NEW t \in Tables,
         Cardinality(Of(o, t)) = Cardinality(Ids(o, heads[o], t))
  PROVE  {r.id : r \in Of(o, t)} = Ids(o, heads[o], t) /\ \A r \in Of(o, t) : r.v = heads[o]
<1>1. PICK v, S : v = heads[o] /\ S = Of(o, t)
  OBVIOUS
<1>2. v \in 1..Len(Trees[o])
  <2>1. /\ heads[o] <= ver[o] /\ heads[o] \in Nat /\ ver[o] \in 0..Len(Trees[o])
        /\ Len(Trees[o]) \in Nat
    BY TreesAre DEF ProjInv, CommittedInv, ListingInv
  <2> QED BY <1>1, <2>1
<1>3. PICK s \in Runs : RowsOf(s, o, v) \subseteq kids
  BY <1>1 DEF ProjInv, CommittedInv
<1>4. PICK T : T = {n \in RowsOf(s, o, v) : n.t = t}
  OBVIOUS
<1>5. /\ \A n \in RowsOf(s, o, v) : n.o = o /\ n.v = v
      /\ {n.id : n \in {m \in RowsOf(s, o, v) : m.t = t}} = Ids(o, v, t)
  BY <1>2, RowsOfIs
<1>6. T \in SUBSET S
  BY <1>1, <1>3, <1>4, <1>5 DEF Of
<1>7. S \subseteq kids /\ IsFiniteSet(kids)
  BY <1>1 DEF Of, ProjInv, CommittedInv
<1>8. IsFiniteSet(S)
  BY <1>7, FS_Subset
<1>9. Cardinality(T) = Cardinality(Ids(o, v, t))
  BY <1>2, <1>4, PartIs
<1>10. Cardinality(S) = Cardinality(T)
  BY <1>1, <1>9
<1>11. S = T
  BY <1>6, <1>8, <1>10, FS_Subset
<1> QED BY <1>1, <1>4, <1>5, <1>11

(* What the checks find no issue with is whole.                            *)
LEMMA CheckedIsWhole ==
  ASSUME ProjInv, NEW o \in ReadyOrders, Checked(o)
  PROVE  Whole(o)
<1>1. CASE heads[o] # 0
  <2>1. ASSUME NEW t \in Tables
        PROVE  /\ {r.id : r \in Of(o, t)} = Ids(o, heads[o], t)
               /\ \A r \in Of(o, t) : r.v = heads[o]
    <3>1. Cardinality(Of(o, t)) = Cardinality(Ids(o, heads[o], t))
      BY <1>1 DEF Checked, CheckOrders
    <3> QED BY <1>1, <3>1, CountedIs
  <2> QED BY <1>1, <2>1 DEF Whole
<1>2. CASE heads[o] = 0
  <2>1. Of(o, "lines") = {} /\ Of(o, "components") = {}
    BY <1>2 DEF Checked, CheckLines, CheckComponents
  <2>2. \A t \in Tables : Of(o, t) = {}
    BY <2>1 DEF Tables
  <2> QED BY <1>2, <2>2 DEF Whole
<1> QED BY <1>1, <1>2

(* What the invariant is for.                                              *)
LEMMA TreesAreWhole ==
  ASSUME ProjInv
  PROVE  TreesWhole
<1>1. ASSUME NEW o \in ReadyOrders
      PROVE  ver[o] \in 0..Len(Trees[o]) /\ heads[o] \in 0..ver[o]
  <2>1. ver[o] \in 0..Len(Trees[o]) /\ ver[o] \in Nat /\ heads[o] \in Nat /\ heads[o] <= ver[o]
    BY DEF ProjInv, ListingInv, CommittedInv
  <2> QED BY <2>1
<1>2. ToSet(listing) \subseteq ReadyOrders /\ IsInjective(listing)
  BY DEF ProjInv, ListingInv, ToSet
<1>3. ASSUME NEW s \in Runs
      PROVE  /\ run[s].st \in {"NONE", "RUNNING", "SUCCESS", "FAILED"}
             /\ run[s].pc \in Pcs
             /\ run[s].del \cup run[s].ins \cup run[s].snap \subseteq Row
  <2>1. run[s] \in SyncRun
    BY DEF ProjInv
  <2> QED BY <2>1 DEF SyncRun, RunLog
<1>4. ProjTypeOK
  BY <1>1, <1>2, <1>3 DEF ProjTypeOK, ProjInv, CommittedInv
<1>5. ASSUME NEW o \in ReadyOrders, o \notin torn \/ Checked(o) PROVE Whole(o)
  BY <1>5, CheckedIsWhole DEF ProjInv, CommittedInv
<1> QED BY <1>4, <1>5 DEF TreesWhole

(* However syncs of the order projection overlap, fail and crash, *)
(* the tree of an order is whole unless a sync committed in the middle of  *)
(* another's replacement of it, and what check_projection finds no issue   *)
(* with is whole although it only compares counts and references.          *)
THEOREM TreesStayWhole == ProjSpec => []TreesWhole
<1>1. ProjInit => ProjInv
  BY ProjStarts
<1>2. ProjInv /\ [ProjNext]_projVars => ProjInv'
  BY ProjGoesOn
<1>3. ProjInv => TreesWhole
  BY TreesAreWhole
<1> QED BY <1>1, <1>2, <1>3, PTL DEF ProjSpec

(* Only its own commit takes a run from "commit" to "finish".              *)
LEMMA OnlyCommitFinishes ==
  ASSUME ProjInv, ProjNext, NEW s \in Runs, run[s].pc = "commit", run'[s].pc = "finish"
  PROVE  CommitRun(s)
<1>1. run \in [Runs -> SyncRun]
  BY DEF ProjInv
<1>2. ASSUME Stale PROVE FALSE
  <2>1. run'[s] = [run[s] EXCEPT !.fresh = FALSE]
    BY <1>2 DEF Stale
  <2>2. run'[s].pc = run[s].pc
    BY <1>1, <2>1 DEF SyncRun
  <2> QED BY <2>2
<1>3. ASSUME NEW q \in Runs, Sync(q) PROVE CommitRun(s)
  <2>1. ASSUME NEW flt \in Filters, CreateRun(q, flt) PROVE FALSE
    <3>1. q # s
      <4>1. run'[q] = [NewRun EXCEPT !.st = "RUNNING", !.pc = "fetch", !.flt = flt,
                         !.fresh = (flt = ReadyOrders /\ \A x \in Runs : ~InFlight(x))]
        BY <2>1 DEF CreateRun
      <4>2. run'[q].pc = "fetch"
        BY <4>1 DEF NewRun
      <4> QED BY <4>2
    <3>2. run'[s] = [run[s] EXCEPT !.fresh = FALSE]
      BY <2>1, <3>1 DEF CreateRun
    <3>3. run'[s].pc = run[s].pc
      BY <1>1, <3>2 DEF SyncRun
    <3> QED BY <3>3
  <2>2. CASE CommitRun(q)
    <3>1. CASE q = s
      BY <2>2, <3>1
    <3>2. CASE q # s
      <4>1. PICK T : T = run[s].tear \cup (WrittenIn(run[q]) \cap Replacing(run[s]))
        OBVIOUS
      <4>2. run'[s] = [run[s] EXCEPT !.tear = T]
        BY <2>2, <3>2, <4>1 DEF CommitRun
      <4>3. run'[s].pc = run[s].pc
        BY <1>1, <4>2 DEF SyncRun
      <4> QED BY <4>3
    <3> QED BY <3>1, <3>2
  <2>3. ASSUME FetchList(q) \/ Look(q) \/ DeleteRows(q) \/ WriteTree(q) \/ FinishRun(q)
               \/ FailRun(q) \/ CrashRun(q)
        PROVE  FALSE
    <3>1. PICK y : run' = [run EXCEPT ![q] = y]
      BY <2>3 DEF FetchList, Look, DeleteRows, WriteTree, FinishRun, FailRun, CrashRun
    <3>2. q = s
      BY <1>1, <3>1
    <3>3. run[s].pc # "finish" /\ run[s].pc \notin {"fetch", "look", "delete", "write"}
      OBVIOUS
    <3>4. FailRun(s) \/ CrashRun(s)
      BY <2>3, <3>2 DEF FetchList, Look, DeleteRows, WriteTree, FinishRun
    <3>5. PICK st \in RunLog : run'[s] = EndedRun(st)
      BY <1>1, <3>4 DEF FailRun, CrashRun, RunLog
    <3>6. run'[s].pc = "done"
      BY <3>5, EndedIs
    <3> QED BY <3>6
  <2> QED BY <1>3, <2>1, <2>2, <2>3 DEF Sync
<1> QED BY <1>2, <1>3 DEF ProjNext, Publish, Withdraw

(* A fresh run has written all of OMS's list when it commits.              *)
LEMMA FreshIsCurrent ==
  ASSUME ProjInv, ProjInv', NEW s \in Runs, CommitRun(s), run[s].fresh,
         NEW o \in ToSet(listing)
  PROVE  heads'[o] = ver[o] /\ Whole(o)'
<1>1. /\ run[s].pc = "commit" /\ run[s].tear = {}
      /\ \A i \in DOMAIN listing : run[s].new[listing[i]] = ver[listing[i]]
  BY DEF CommitRun, ProjInv, RunInv, FreshInv
<1>2. PICK i \in DOMAIN listing : o = listing[i]
  BY DEF ToSet
<1>3. o \in ReadyOrders /\ ver[o] # 0
  BY <1>2 DEF ProjInv, ListingInv
<1>4. run[s].new[o] = ver[o] /\ o \in WrittenIn(run[s])
  BY <1>1, <1>2, <1>3 DEF WrittenIn
<1>5. heads'[o] = ver[o] /\ o \notin torn'
  BY <1>1, <1>3, <1>4 DEF CommitRun
<1>6. Whole(o)'
  <2>1. \A x \in ReadyOrders : x \notin torn' => Whole(x)'
    BY DEF ProjInv, CommittedInv
  <2> QED BY <1>3, <1>5, <2>1
<1> QED BY <1>5, <1>6

(* A sync without a filter, alone and with nothing changing in    *)
(* OMS meanwhile, brings every listed order to OMS's version and makes its *)
(* tree whole, whatever earlier syncs left.                                *)
THEOREM FreshSyncsCatchUp == ProjSpec => FreshSyncCatchesUp
<1>1. ProjInit => ProjInv
  BY ProjStarts
<1>2. ProjInv /\ [ProjNext]_projVars => ProjInv'
  BY ProjGoesOn
<1>3. ProjInv /\ ProjInv' /\ [ProjNext]_projVars =>
        [\A s \in Runs : run[s].fresh /\ run[s].pc = "commit" /\ run'[s].pc = "finish" =>
           \A o \in ToSet(listing) : heads'[o] = ver[o] /\ Whole(o)']_projVars
  <2> SUFFICES ASSUME ProjInv, ProjInv', ProjNext, NEW s \in Runs, run[s].fresh,
                      run[s].pc = "commit", run'[s].pc = "finish", NEW o \in ToSet(listing)
               PROVE  heads'[o] = ver[o] /\ Whole(o)'
    OBVIOUS
  <2>1. CommitRun(s)
    BY OnlyCommitFinishes
  <2> QED BY <2>1, FreshIsCurrent
<1> QED BY <1>1, <1>2, <1>3, PTL DEF ProjSpec, FreshSyncCatchesUp

AcceptedInv == \A o \in ReadyOrders : Accepted(o) \in 0..ver[o]

(* What an import accepts is a version OMS has had, or nothing.            *)
LEMMA AcceptedIs ==
  ASSUME ProjInv, NEW o \in ReadyOrders
  PROVE  Accepted(o) \in 0..ver[o]
<1>1. ver[o] \in Nat /\ heads[o] \in Nat /\ heads[o] <= ver[o]
  BY DEF ProjInv, ListingInv, CommittedInv
<1>2. CASE heads[o] # 0 /\ Cardinality(Of(o, "components")) = Cardinality(Trees[o][heads[o]])
  <2>1. Ids(o, heads[o], "components") = Trees[o][heads[o]] /\ "components" \in Tables
    BY DEF Ids, Tables
  <2>2. \A r \in Of(o, "components") : r.v = heads[o]
    BY <1>2, <2>1, CountedIs
  <2>3. PICK vs : vs = {r.v : r \in Of(o, "components")} \cup {heads[o]}
    OBVIOUS
  <2>4. vs = {heads[o]}
    BY <2>2, <2>3
  <2>5. Cardinality(vs) = 1
    BY <2>4, FS_Singleton
  <2>6. Accepted(o) = heads[o]
    BY <1>2, <2>3, <2>5 DEF Accepted
  <2> QED BY <1>1, <2>6
<1>3. CASE ~(heads[o] # 0 /\ Cardinality(Of(o, "components")) = Cardinality(Trees[o][heads[o]]))
  <2>1. Accepted(o) = 0
    BY <1>3 DEF Accepted
  <2> QED BY <1>1, <2>1
<1> QED BY <1>2, <1>3

(* Every step is OMS's advance or a refresh of the index.                  *)
LEMMA StepRefreshes ==
  ASSUME AcceptedInv', [ProjNext]_projVars
  PROVE  [Index!Next]_<<ver, [o \in ReadyOrders |-> Accepted(o)]>>
<1>1. ASSUME UNCHANGED <<heads, kids>>, NEW o \in ReadyOrders PROVE Accepted(o)' = Accepted(o)
  BY <1>1 DEF Accepted, Of
<1>2. ASSUME NEW o \in ReadyOrders, Publish(o) PROVE Index!Advance
  <2>1. ver' = [ver EXCEPT ![o] = ver[o] + 1] /\ UNCHANGED <<heads, kids>>
    BY <1>2 DEF Publish
  <2>2. \A x \in ReadyOrders : Accepted(x)' = Accepted(x)
    BY <1>1, <2>1
  <2> QED BY <2>1, <2>2 DEF Index!Advance
<1>3. ASSUME ver' = ver PROVE Index!Refresh
  <2>1. \A o \in ReadyOrders : Accepted(o)' \in 0..ver[o]
    BY <1>3 DEF AcceptedInv
  <2> QED BY <1>3, <2>1 DEF Index!Refresh
<1>4. CASE \E o \in ReadyOrders : Publish(o)
  BY <1>2, <1>4 DEF Index!Next
<1>5. CASE ~\E o \in ReadyOrders : Publish(o)
  <2>1. ver' = ver
    BY <1>5 DEF ProjNext, projVars, Withdraw, Sync, CreateRun, FetchList, Look, DeleteRows,
       WriteTree, CommitRun, FinishRun, FailRun, CrashRun
  <2> QED BY <1>3, <2>1 DEF Index!Next
<1> QED BY <1>4, <1>5

(* The order projection, as an import reads it, implements the read index: *)
(* whatever syncs overlap, fail or tear, an order whose component rows are *)
(* as many as its head counts is one version OMS has had, whole.           *)
THEOREM ProjectionImplementsIndex == ProjSpec => IndexSpec
<1>1. ProjInit => ProjInv
  BY ProjStarts
<1>2. ProjInv /\ [ProjNext]_projVars => ProjInv'
  BY ProjGoesOn
<1>3. ProjInit => Index!Init
  BY DEF ProjInit, Index!Init, Accepted
<1>4. ProjInv => AcceptedInv
  BY AcceptedIs DEF AcceptedInv
<1>5. AcceptedInv' /\ [ProjNext]_projVars =>
        [Index!Next]_<<ver, [o \in ReadyOrders |-> Accepted(o)]>>
  BY StepRefreshes
<1> QED BY <1>1, <1>2, <1>3, <1>4, <1>5, PTL DEF ProjSpec, IndexSpec, Index!Spec
=============================================================================
