--------------------------- MODULE OrderProjection --------------------------
(***************************************************************************)
(* The projection of OMS's fulfilment-ready orders: per order one head,    *)
(* with the number of its lines and components, and the rows of its lines  *)
(* and components in two further tables without foreign keys.  A sync run  *)
(* pages through OMS's list by offset and replaces each order's tree, all  *)
(* in one transaction; its log entry (RUNNING, then SUCCESS or FAILED) is  *)
(* committed on its own.                                                   *)
(*                                                                         *)
(* The transaction is READ COMMITTED.  A DELETE works on the rows that     *)
(* were committed when it began: it waits for a row another transaction is *)
(* deleting, passes over it if that one commits, and does not see what     *)
(* that one inserted.                                                      *)
(***************************************************************************)
EXTENDS Naturals, Sequences, FiniteSets, SequencesExt

CONSTANTS ReadyOrders,  \* ready_order_id
          Parts,        \* ready_component_id within an order
          Trees,        \* the components of each version of an order in OMS
          LineOf,       \* the line of a component
          Runs,         \* sync runs: the bound on their number
          Filters,      \* the orders a platform and store filter selects
          Parallel,     \* bound on the runs in flight at once
          Limit         \* page size

RowIds == Parts \cup {LineOf[c] : c \in Parts}

ASSUME ProjectionAssumption ==
  /\ Trees \in [ReadyOrders -> Seq(SUBSET Parts)]
  /\ \A o \in ReadyOrders : \A v \in DOMAIN Trees[o] : IsFiniteSet(Trees[o][v])
  /\ Filters \subseteq SUBSET ReadyOrders
  /\ Limit \in Nat \ {0}

VARIABLES listing,      \* OMS: its list, the last change first
          ver,          \* OMS: the version of each order, 0 before the first
          heads,        \* committed heads: the version they are of, 0 for none
          kids,         \* committed lines and components
          run,          \* sync runs
          torn          \* orders whose tree was replaced by a run in which
                        \* another run's commit came between the DELETE
                        \* and the INSERT (history)

projVars == <<listing, ver, heads, kids, run, torn>>

Tables == {"components", "lines"}
Row    == [t : Tables, o : ReadyOrders, id : RowIds, v : Nat \ {0}, by : Runs]

NewRun ==
  [st |-> "NONE", pc |-> "done", flt |-> {}, off |-> 0, total |-> 0,
   page |-> {},                             \* orders still to write, with their
                                            \* position in the list and version
   t |-> "components", snap |-> {},         \* the DELETE at work
   del |-> {}, ins |-> {},                  \* uncommitted deletes, inserts
   new |-> [o \in ReadyOrders |-> 0],       \* and heads
   fresh |-> FALSE, tear |-> {}]            \* history

ProjInit ==
  /\ listing = << >>
  /\ ver = [o \in ReadyOrders |-> 0]
  /\ heads = [o \in ReadyOrders |-> 0]
  /\ kids = {}
  /\ run = [s \in Runs |-> NewRun]
  /\ torn = {}

InFlight(s) == run[s].pc # "done"

(* The rows the session of run r sees.                                     *)
View(r) == (kids \ r.del) \cup r.ins

(* The ids of the rows of version v of order o in table t.                 *)
Ids(o, v, t) == IF t = "components" THEN Trees[o][v] ELSE {LineOf[c] : c \in Trees[o][v]}

-----------------------------------------------------------------------------
(* External: OMS.  A change puts an order in front of the list; an order   *)
(* that is no longer ready leaves it.  No run is fresh any more.           *)
Stale == run' = [s \in Runs |-> [run[s] EXCEPT !.fresh = FALSE]]

Without(o) ==
  IF o \in ToSet(listing)
  THEN RemoveAt(listing, CHOOSE i \in DOMAIN listing : listing[i] = o)
  ELSE listing

Publish(o) ==
  /\ ver[o] < Len(Trees[o])
  /\ ver' = [ver EXCEPT ![o] = @ + 1]
  /\ listing' = <<o>> \o Without(o)
  /\ Stale
  /\ UNCHANGED <<heads, kids, torn>>

Withdraw(o) ==
  /\ o \in ToSet(listing)
  /\ listing' = Without(o)
  /\ Stale
  /\ UNCHANGED <<ver, heads, kids, torn>>

-----------------------------------------------------------------------------
(* create_sync_run: RUNNING is committed before the sync starts.  A run is *)
(* fresh if it has no filter, no other run is in flight with it and OMS    *)
(* stays as it is.                                                         *)
CreateRun(s, flt) ==
  /\ run[s].st = "NONE"
  /\ Cardinality({q \in Runs : InFlight(q)}) < Parallel
  /\ run' = [q \in Runs |->
       IF q = s
       THEN [NewRun EXCEPT !.st = "RUNNING", !.pc = "fetch", !.flt = flt,
               !.fresh = (flt = ReadyOrders /\ \A x \in Runs : ~InFlight(x))]
       ELSE [run[q] EXCEPT !.fresh = FALSE]]
  /\ UNCHANGED <<listing, ver, heads, kids, torn>>

(* The places of the list a filter selects, and the rank of one of them.   *)
Selected(flt) == {i \in DOMAIN listing : listing[i] \in flt}
Rank(flt, i)  == Cardinality({j \in Selected(flt) : j <= i})

(* _fetch_page: at most Limit orders of the filtered list from the offset  *)
(* on, as they are in OMS now.                                             *)
Page(flt, off) ==
  {[at |-> i, o |-> listing[i], v |-> ver[listing[i]]] :
     i \in {j \in Selected(flt) : off < Rank(flt, j) /\ Rank(flt, j) <= off + Limit}}

FetchList(s) ==
  /\ run[s].pc = "fetch"
  /\ LET page == Page(run[s].flt, run[s].off)
     IN  run' = [run EXCEPT ![s].page = page,
                            ![s].total = Cardinality(Selected(run[s].flt)),
                            ![s].t = "components",
                            ![s].pc = IF page = {} THEN "commit" ELSE "look"]
  /\ UNCHANGED <<listing, ver, heads, kids, torn>>

-----------------------------------------------------------------------------
(* _upsert_order_tree, for the first order of the page.                    *)
Earliest(page) == CHOOSE x \in page : \A y \in page : x.at <= y.at
TreeAt(r)      == Earliest(r.page).o

(* Fault: the components of the order are not deleted.                     *)
LookLines(s) ==
  /\ run[s].pc = "look"
  /\ run' = [run EXCEPT ![s].snap = {r \in View(run[s]) : r.t = run[s].t /\ r.t = "lines"
                                                          /\ r.o = TreeAt(run[s])},
                        ![s].pc = "delete"]
  /\ UNCHANGED <<listing, ver, heads, kids, torn>>

(* _replace_order_children deletes the components, then the lines: the     *)
(* rows a DELETE begins with ...                                           *)
Look(s) ==
  /\ run[s].pc = "look"
  /\ run' = [run EXCEPT ![s].snap = {r \in View(run[s]) : r.t = run[s].t /\ r.o = TreeAt(run[s])},
                        ![s].pc = "delete"]
  /\ UNCHANGED <<listing, ver, heads, kids, torn>>

Unlocked(s, rs) == \A q \in Runs \ {s} : rs \cap run[q].del = {}

(* ... and those of them it deletes, once nobody else is deleting them.    *)
DeleteRows(s) ==
  /\ run[s].pc = "delete"
  /\ Unlocked(s, run[s].snap)
  /\ run' = [run EXCEPT ![s].del = @ \cup (run[s].snap \cap kids),
                        ![s].ins = @ \ run[s].snap,
                        ![s].snap = {},
                        ![s].t = "lines",
                        ![s].pc = IF run[s].t = "components" THEN "look" ELSE "write"]
  /\ UNCHANGED <<listing, ver, heads, kids, torn>>

HeadUnlocked(s, o) == \A q \in Runs \ {s} : run[q].new[o] = 0

RowsOf(s, o, v) ==
  {n \in [t : Tables, o : {o}, id : RowIds, v : {v}, by : {s}] : n.id \in Ids(o, v, n.t)}

(* No primary key of the new rows is taken.                                *)
NoConflict(s, new) == \A r \in View(run[s]), n \in new : <<r.t, r.o, r.id>> # <<n.t, n.o, n.id>>

(* Fault: off by one, the last page is not asked for.                      *)
AfterPageShort(r) ==
  [r EXCEPT !.off = @ + Limit,
            !.pc = IF r.off + Limit + 1 >= r.total THEN "commit" ELSE "fetch"]

(* The page is done: go on behind it, up to the total OMS told with it.    *)
AfterPage(r) ==
  [r EXCEPT !.off = @ + Limit,
            !.pc = IF r.off + Limit >= r.total THEN "commit" ELSE "fetch"]

NextOrder(r) ==
  LET rest == [r EXCEPT !.page = @ \ {Earliest(@)}, !.t = "components", !.pc = "look"]
  IN  IF rest.page = {} THEN AfterPage(rest) ELSE rest

(* Fault: ON CONFLICT DO NOTHING on lines and components.                  *)
WriteTreeIgnoring(s) ==
  /\ run[s].pc = "write"
  /\ LET o   == TreeAt(run[s])
         v   == Earliest(run[s].page).v
         new == {n \in RowsOf(s, o, v) : NoConflict(s, {n})}
     IN  /\ HeadUnlocked(s, o)
         /\ run' = [run EXCEPT ![s] = NextOrder(
                      [run[s] EXCEPT !.new[o] = v, !.ins = @ \cup new])]
  /\ UNCHANGED <<listing, ver, heads, kids, torn>>

(* The head is upserted, which waits for a run that wrote it, and the new  *)
(* lines and components are inserted; a conflict is a Fail.                *)
WriteTree(s) ==
  /\ run[s].pc = "write"
  /\ LET o   == TreeAt(run[s])
         v   == Earliest(run[s].page).v
         new == RowsOf(s, o, v)
     IN  /\ HeadUnlocked(s, o)
         /\ NoConflict(s, new)
         /\ run' = [run EXCEPT ![s] = NextOrder(
                      [run[s] EXCEPT !.new[o] = v, !.ins = @ \cup new])]
  /\ UNCHANGED <<listing, ver, heads, kids, torn>>

-----------------------------------------------------------------------------
EndedRun(st) == [NewRun EXCEPT !.st = st]

WrittenIn(r) == {o \in ReadyOrders : r.new[o] # 0}

(* The orders a run is replacing, from the begin of its first DELETE on.   *)
Replacing(r) ==
  IF r.pc \in {"delete", "write"} \/ (r.pc = "look" /\ r.t = "lines") THEN {TreeAt(r)} ELSE {}

(* The sync's own session commits.                                         *)
CommitRun(s) ==
  /\ run[s].pc = "commit"
  /\ LET written == WrittenIn(run[s])
     IN  /\ kids' = View(run[s])
         /\ heads' = [o \in ReadyOrders |-> IF o \in written THEN run[s].new[o] ELSE heads[o]]
         /\ torn' = (torn \ written) \cup (run[s].tear \cap written)
         /\ run' = [q \in Runs |->
              IF q = s
              THEN [run[s] EXCEPT !.pc = "finish", !.del = {}, !.ins = {},
                                  !.new = [o \in ReadyOrders |-> 0]]
              ELSE [run[q] EXCEPT !.tear = @ \cup (written \cap Replacing(run[q]))]]
  /\ UNCHANGED <<listing, ver>>

(* finish_sync_run.                                                        *)
FinishRun(s) ==
  /\ run[s].pc = "finish"
  /\ run' = [run EXCEPT ![s] = EndedRun("SUCCESS")]
  /\ UNCHANGED <<listing, ver, heads, kids, torn>>

(* OMS does not answer, a key conflicts, or the database ends a deadlock:  *)
(* the session is rolled back and the run FAILED.                          *)
FailRun(s) ==
  /\ InFlight(s) /\ run[s].pc # "finish"
  /\ run' = [run EXCEPT ![s] = EndedRun("FAILED")]
  /\ UNCHANGED <<listing, ver, heads, kids, torn>>

(* The process dies: nobody ever finishes the run's log entry.             *)
CrashRun(s) ==
  /\ InFlight(s)
  /\ run' = [run EXCEPT ![s] = EndedRun("RUNNING")]
  /\ UNCHANGED <<listing, ver, heads, kids, torn>>

Sync(s) ==
  \/ \E flt \in Filters : CreateRun(s, flt)
  \/ FetchList(s) \/ Look(s) \/ DeleteRows(s) \/ WriteTree(s)
  \/ CommitRun(s) \/ FinishRun(s) \/ FailRun(s) \/ CrashRun(s)

ProjNext ==
  \/ \E o \in ReadyOrders : Publish(o) \/ Withdraw(o)
  \/ \E s \in Runs : Sync(s)

ProjSpec == ProjInit /\ [][ProjNext]_projVars

-----------------------------------------------------------------------------
Pcs == {"done", "fetch", "look", "delete", "write", "commit", "finish"}

ProjTypeOK ==
  /\ \A o \in ReadyOrders : ver[o] \in 0..Len(Trees[o]) /\ heads[o] \in 0..ver[o]
  /\ ToSet(listing) \subseteq ReadyOrders /\ IsInjective(listing)
  /\ kids \subseteq Row
  /\ torn \subseteq ReadyOrders
  /\ \A s \in Runs :
       /\ run[s].st \in {"NONE", "RUNNING", "SUCCESS", "FAILED"}
       /\ run[s].pc \in Pcs
       /\ run[s].del \cup run[s].ins \cup run[s].snap \subseteq Row

Of(o, t) == {r \in kids : r.o = o /\ r.t = t}

Whole(o) ==
  \A t \in Tables :
    /\ {r.id : r \in Of(o, t)} = (IF heads[o] = 0 THEN {} ELSE Ids(o, heads[o], t))
    /\ \A r \in Of(o, t) : r.v = heads[o]

(* check_orders, check_lines and check_components find no issue.           *)
CheckOrders(o) ==
  heads[o] # 0 => \A t \in Tables : Cardinality(Of(o, t)) = Cardinality(Ids(o, heads[o], t))

CheckLines(o) == heads[o] = 0 => Of(o, "lines") = {}

CheckComponents(o) ==
  \A r \in Of(o, "components") :
    heads[o] # 0 /\ LineOf[r.id] \in {l.id : l \in Of(o, "lines")}

Checked(o) == CheckOrders(o) /\ CheckLines(o) /\ CheckComponents(o)

(* However syncs overlap, fail and crash, the lines and components of an   *)
(* order are those of the version its head has; only a commit between the  *)
(* DELETE and the INSERT of another sync spoils it, and the next sync that *)
(* writes the order without such a commit repairs it.  The checks see      *)
(* every tree that is not whole, although they only compare counts and     *)
(* references.                                                             *)
TreesWhole ==
  /\ ProjTypeOK
  /\ \A o \in ReadyOrders : o \notin torn \/ Checked(o) => Whole(o)

(* A sync without a filter, with no other sync beside it and no change in  *)
(* OMS since it began, brings every listed order to OMS's version, whole,  *)
(* whatever earlier syncs left of it.                                      *)
FreshSyncCatchesUp ==
  [][\A s \in Runs : run[s].fresh /\ run[s].pc = "commit" /\ run'[s].pc = "finish" =>
       \A o \in ToSet(listing) : heads'[o] = ver[o] /\ Whole(o)']_projVars

(* What an import accepts of an order: the components, if their number is  *)
(* the head's component_count (import_orders_from_oms_projection).         *)
Accepted(o) ==
  IF heads[o] # 0 /\ Cardinality(Of(o, "components")) = Cardinality(Trees[o][heads[o]])
  THEN LET vs == {r.v : r \in Of(o, "components")} \cup {heads[o]}
       IN  IF Cardinality(vs) = 1 THEN heads[o] ELSE Len(Trees[o]) + 1
  ELSE 0

(* The projection as an import reads it implements the read index: only    *)
(* whole orders that OMS has had are accepted, whatever happens.           *)
Index == INSTANCE ReadIndex WITH Keys <- ReadyOrders, truth <- ver,
                                 copy <- [o \in ReadyOrders |-> Accepted(o)]
IndexSpec == Index!Spec
=============================================================================
