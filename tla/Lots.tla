-------------------------------- MODULE Lots --------------------------------
(***************************************************************************)
(* How an inbound line gets its lot: resolve_inbound_lot finds the lot or  *)
(* creates it, for one item in one warehouse (every key has both).         *)
(*                                                                         *)
(* The item's policy is the product service's and is asked for over HTTP   *)
(* at several points of one request; it may change in between.  A row that *)
(* is inserted is seen by others at the commit; an INSERT of the same      *)
(* unique key waits for that transaction to end (ON CONFLICT DO NOTHING).  *)
(***************************************************************************)
EXTENDS Integers, Sequences

CONSTANTS Requests,     \* inbound lines that can be in flight together
          Inputs,       \* what clients enter: supplier lot code and dates
          Policies,     \* the policies PMS may give the item
          MaxChanges,   \* bound on how often PMS changes the policy
          Legacy        \* the lots at the start: supplier lots of old

None == 0               \* SQL NULL

Policy == [source : {"SUPPLIER_ONLY", "INTERNAL_ONLY"}, expiry : {"REQUIRED", "NONE"},
           life : Nat, derive : BOOLEAN]

ASSUME LotsAssumption ==
  /\ Inputs \subseteq [code : Nat, pd : Nat, ed : Nat]
  /\ Policies \subseteq Policy
  /\ \A q \in Policies : q.expiry = "NONE" => q.life = None
  /\ MaxChanges \in Nat

VARIABLES policy,       \* PMS: the policy of the item now
          changes,      \* how often it was changed
          lots,         \* committed lots, by id
          req           \* requests in flight

vars == <<policy, changes, lots, req>>

(* A request: the line's code and dates, the policy it decided with and    *)
(* the one it read last, its own uncommitted row, the lot it got (0: its   *)
(* own row), the expiry date it patches, and whether all policies it read  *)
(* agree (history).                                                        *)
NoRow == [source |-> "NONE", code |-> None, pd |-> None, ed |-> None,
          snap |-> [source |-> "NONE", expiry |-> "NONE", life |-> None, derive |-> FALSE]]
Idle  == [pc |-> "idle", code |-> None, pd |-> None, ed |-> None,
          pol |-> NoRow.snap, now |-> NoRow.snap, own |-> NoRow, lot |-> 0,
          patch |-> None, steady |-> TRUE]

Init ==
  /\ policy \in Policies
  /\ changes = 0
  /\ lots = Legacy
  /\ req = [p \in Requests |-> Idle]

(* PMS changes the item's policy.                                          *)
ChangePolicy(q) ==
  /\ policy # q /\ changes < MaxChanges
  /\ policy' = q
  /\ changes' = changes + 1
  /\ UNCHANGED <<lots, req>>

Become(p, r) ==
  /\ req' = [req EXCEPT ![p] = r]
  /\ UNCHANGED <<policy, changes, lots>>

(* The request goes on as r if ok, otherwise it is refused and rolled back.*)
GoOn(p, ok, r) == Become(p, IF ok THEN r ELSE Idle)

(* The policy was read once more.                                          *)
Read(r) == [r EXCEPT !.now = policy, !.steady = @ /\ policy = r.pol]

-----------------------------------------------------------------------------
(* submit_inbound_operation_repo and _resolve_line of the atomic commit    *)
(* read the policy.  The commit gives an item without expiry no dates and  *)
(* asks a supplier lot's code of the client; then the source is decided.   *)
Decide(p, via, in) ==
  LET dated == via = "operation" \/ policy.expiry = "REQUIRED"
      r == [Idle EXCEPT !.code = in.code, !.pol = policy, !.now = policy,
                        !.pd = IF dated THEN in.pd ELSE None,
                        !.ed = IF dated THEN in.ed ELSE None]
  IN /\ req[p] = Idle
     /\ via = "commit" /\ policy.source = "SUPPLIER_ONLY" => in.code # None
     /\ Become(p, [r EXCEPT !.pc = IF via = "commit" /\ policy.expiry = "REQUIRED"
                                   THEN "normalise" ELSE "resolve"])

Forward(pd, life)  == IF life = None THEN None ELSE pd + life
Backward(ed, life) == IF life = None \/ ed <= life THEN None ELSE ed - life

(* A missing date is derived from the other by the shelf life.             *)
Dated(r, life) ==
  IF r.ed = None /\ r.pd # None THEN [r EXCEPT !.ed = Forward(r.pd, life)]
  ELSE IF r.pd = None /\ r.ed # None THEN [r EXCEPT !.pd = Backward(r.ed, life)]
  ELSE r

InOrder(r) == r.pd # None /\ r.ed # None => r.pd <= r.ed

(* normalize_batch_dates_for_item; both dates are needed afterwards.       *)
Normalise(p) ==
  LET r == Read(req[p])
      n == IF policy.expiry = "NONE" THEN [r EXCEPT !.pd = None, !.ed = None]
           ELSE Dated(r, IF policy.derive THEN policy.life ELSE None)
  IN /\ req[p].pc = "normalise"
     /\ GoOn(p, n.pd # None /\ n.ed # None /\ InOrder(n), [n EXCEPT !.pc = "resolve"])

(* resolve_inbound_lot, resolve_or_create_lot: by the policy of the        *)
(* request the line goes to the item's INTERNAL lot, without code and      *)
(* dates, or to a SUPPLIER lot.                                            *)
ResolveInternal(p) ==
  /\ req[p].pc = "resolve"
  /\ req[p].pol.source = "INTERNAL_ONLY"
  /\ Become(p, [req[p] EXCEPT !.pc = "find", !.code = None, !.pd = None, !.ed = None])

(* ensure_lot_full reads the policy again and derives dates by it.         *)
ResolveSupplier(p) ==
  LET r == Read(req[p])
      d == IF policy.expiry = "REQUIRED" THEN Dated(r, policy.life) ELSE r
  IN /\ req[p].pc = "resolve"
     /\ req[p].pol.source = "SUPPLIER_ONLY"
     /\ GoOn(p, /\ r.code # None
                /\ r.pol.expiry = "REQUIRED" => r.pd # None
                /\ InOrder(d), [d EXCEPT !.pc = "find"])

-----------------------------------------------------------------------------
Internal(r) == r.pol.source = "INTERNAL_ONLY"

(* _get_supplier_lot_by_production_date.                                   *)
FoundByDate(r) == {n \in DOMAIN lots : lots[n].source = "SUPPLIER" /\ lots[n].pd = r.pd}

(* _get_supplier_lot_ids_by_lot_code.                                      *)
FoundByCode(r) == {n \in DOMAIN lots : lots[n].source = "SUPPLIER" /\ lots[n].code = r.code}

FoundInternal == {n \in DOMAIN lots : lots[n].source = "INTERNAL" /\ lots[n].code = None}

(* The lots the request may use: by identity for the INTERNAL lot and for  *)
(* an item with expiry, by the code for the rest.                          *)
Dateless(r) == ~Internal(r) /\ (r.now.expiry = "NONE" \/ r.pd = None)

Found(r) ==
  IF Internal(r) THEN FoundInternal
  ELSE IF Dateless(r) THEN FoundByCode(r) ELSE FoundByDate(r)

(* The request uses lot n; its missing expiry date is patched for an item  *)
(* with expiry.                                                            *)
Uses(r, n) ==
  [r EXCEPT !.lot = n, !.pc = IF Internal(r) THEN "got" ELSE "check",
            !.patch = IF ~Internal(r) /\ r.now.expiry = "REQUIRED" THEN r.ed ELSE None]

(* The SELECT: one lot is used, two are ambiguous; without one a new lot   *)
(* needs both its dates, and there is none for an item without expiry.  A  *)
(* new INTERNAL lot needs the policy.                                      *)
Find(p) ==
  LET r == req[p] IN
  /\ r.pc = "find"
  /\ IF Found(r) # {}
     THEN \E n \in Found(r) : GoOn(p, Found(r) = {n} \/ ~Dateless(r), Uses(r, n))
     ELSE GoOn(p, Internal(r) \/ (~Dateless(r) /\ r.ed # None),
               [r EXCEPT !.pc = IF Internal(r) THEN "load" ELSE "insert"])

Load(p) ==
  /\ req[p].pc = "load"
  /\ Become(p, [Read(req[p]) EXCEPT !.pc = "insert"])

NewRow(r) == [source |-> IF Internal(r) THEN "INTERNAL" ELSE "SUPPLIER",
              code |-> r.code, pd |-> r.pd, ed |-> r.ed, snap |-> r.now]

(* The CHECK constraints of lots.                                          *)
Checked(row) ==
  /\ (row.snap.expiry = "REQUIRED") <=> row.pd # None
  /\ row.snap.expiry = "REQUIRED" => row.source = "SUPPLIER" /\ row.ed # None
  /\ row.pd # None /\ row.ed # None => row.pd <= row.ed

(* Fault: the unique indexes have the lot code, too.                       *)
SameKeyAndCode(a, b) == a.source = b.source /\ a.pd = b.pd /\ a.code = b.code

(* uq_lots_required_single_wh_item_prod, uq_lots_internal_single_wh_item.  *)
SameKey(a, b) ==
  /\ a.source = b.source
  /\ a.source = "SUPPLIER" => a.snap.expiry = "REQUIRED" /\ b.snap.expiry = "REQUIRED"
  /\ a.pd = b.pd

(* The lots at the start: rows the constraints allow, INTERNAL ones without*)
(* a code.                                                                 *)
ASSUME LegacyAssumption ==
  /\ Legacy \in Seq([source : {"SUPPLIER", "INTERNAL"}, code : Nat, pd : Nat, ed : Nat,
                     snap : Policy])
  /\ \A n \in DOMAIN Legacy :
       Checked(Legacy[n]) /\ (Legacy[n].source = "INTERNAL" => Legacy[n].code = None)
  /\ \A m, n \in DOMAIN Legacy : SameKey(Legacy[m], Legacy[n]) => m = n

(* INSERT ... ON CONFLICT DO NOTHING: waits for the row of another         *)
(* transaction, and inserts nothing if it was committed.                   *)
Insert(p) ==
  LET r == req[p] IN
  /\ r.pc = "insert"
  /\ \A q \in Requests \ {p} : ~SameKey(req[q].own, NewRow(r))
  /\ IF \E n \in DOMAIN lots : SameKey(lots[n], NewRow(r))
     THEN Become(p, [r EXCEPT !.pc = "again"])
     ELSE GoOn(p, Checked(NewRow(r)),
               [r EXCEPT !.own = NewRow(r), !.pc = IF Internal(r) THEN "got" ELSE "check"])

(* The winner's row is read; without one the request fails.                *)
Again(p) ==
  LET r == req[p] IN
  /\ r.pc = "again"
  /\ IF Found(r) = {} THEN Become(p, Idle)
     ELSE \E n \in Found(r) : Become(p, Uses(r, n))

Row(r) == IF r.lot = 0 THEN r.own ELSE lots[r.lot]

(* Fault: compared with the policy the lot layer read.                     *)
SnapshotEqualNow(r) == Row(r).snap = r.now

(* _snapshot_equal: the lot's snapshot is the policy of the request.       *)
SnapshotEqual(r) == Row(r).snap = r.pol

(* lot_snapshot_conflict.                                                  *)
Check(p) ==
  /\ req[p].pc = "check"
  /\ GoOn(p, SnapshotEqual(req[p]), [req[p] EXCEPT !.pc = "got"])

-----------------------------------------------------------------------------
(* Fault: a date that is there is overwritten.                             *)
PatchedAnyway(row, ed) == IF ed # None THEN [row EXCEPT !.ed = ed] ELSE row

(* _patch_lot_expiry_if_null.                                              *)
Patched(row, ed) == IF row.ed = None THEN [row EXCEPT !.ed = ed] ELSE row

(* The movement is made and the request commits.                           *)
Commit(p) ==
  LET r == req[p] IN
  /\ r.pc = "got"
  /\ lots' = IF r.lot = 0 THEN Append(lots, r.own)
             ELSE [lots EXCEPT ![r.lot] = Patched(@, r.patch)]
  /\ req' = [req EXCEPT ![p] = Idle]
  /\ UNCHANGED <<policy, changes>>

(* PMS does not answer, or anything else fails.                            *)
Fail(p) ==
  /\ req[p] # Idle
  /\ Become(p, Idle)

Next ==
  \/ \E q \in Policies : ChangePolicy(q)
  \/ \E p \in Requests :
       \/ \E via \in {"commit", "operation"}, in \in Inputs : Decide(p, via, in)
       \/ Normalise(p) \/ ResolveInternal(p) \/ ResolveSupplier(p)
       \/ Find(p) \/ Load(p) \/ Insert(p) \/ Again(p) \/ Check(p)
       \/ Commit(p) \/ Fail(p)

Spec == Init /\ [][Next]_vars

-----------------------------------------------------------------------------
TypeOK ==
  /\ policy \in Policies /\ changes \in 0..MaxChanges
  /\ \A n \in DOMAIN lots :
       /\ lots[n].source \in {"SUPPLIER", "INTERNAL"}
       /\ lots[n].snap.expiry = "REQUIRED" => lots[n].ed # None
       /\ lots[n].pd # None /\ lots[n].ed # None => lots[n].pd <= lots[n].ed
  /\ \A p \in Requests :
       /\ req[p].pc \in {"idle", "normalise", "resolve", "find", "load", "insert",
                         "again", "check", "got"}
       /\ req[p].lot \in 0..Len(lots)

(* Whatever requests run together and however the policy changes, there is *)
(* one lot of a production date and one INTERNAL lot, and a request that   *)
(* lost the race for a new lot finds the winner's: the RuntimeError after  *)
(* the second SELECT is never raised.                                      *)
OneLotPerKey ==
  /\ TypeOK
  /\ \A m, n \in DOMAIN lots :
       /\ lots[m].source = lots[n].source
       /\ lots[m].pd = lots[n].pd
       /\ lots[m].source = "SUPPLIER" => lots[m].pd # None
       => m = n
  /\ \A p \in Requests : req[p].pc = "again" => Found(req[p]) # {}

(* A line goes to a SUPPLIER lot only under the policy the lot was made    *)
(* for, although the lot layer reads a policy of its own; and if the       *)
(* policy stayed the same during the request, a line with expiry goes to   *)
(* the lot of its production date.                                         *)
LotFitsLine ==
  \A p \in Requests :
    req[p].pc = "got" /\ ~Internal(req[p]) =>
      /\ Row(req[p]).source = "SUPPLIER" /\ Row(req[p]).snap = req[p].pol
      /\ req[p].steady /\ req[p].pol.expiry = "REQUIRED" =>
           Row(req[p]).pd = req[p].pd

(* A lot is never changed, but for an expiry date it did not have.         *)
LotsStand ==
  [][\A n \in DOMAIN lots : n \in DOMAIN lots' /\
       lots'[n] \in {lots[n]} \cup {[lots[n] EXCEPT !.ed = d] :
                                      d \in IF lots[n].ed = None THEN {lots'[n].ed} ELSE {}}]_vars
=============================================================================
