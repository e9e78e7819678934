--------------------------- MODULE ItemProjection ---------------------------
(***************************************************************************)
(* The projection of PMS's master data: items, suppliers, units, SKU codes *)
(* and barcodes in tables of their own, each row with a unique business    *)
(* code.  A sync pages through the feeds of the selected tables, in one    *)
(* order, and upserts row by row, all in one transaction; nothing is ever  *)
(* deleted.  Unlike an order's projection it is repeated without end.      *)
(***************************************************************************)
EXTENDS Naturals, Sequences, FiniteSetsExt, SequencesExt, Functions

CONSTANTS Resources,    \* RESOURCE_ORDER: the row ids of each table, in turn
          Parent,       \* the row a row refers to, Nothing for none
          Codes,        \* business codes
          MaxChanges,   \* bound on the changes in PMS
          Scripts,      \* runs of the script that can be in flight together
          ResourceSyncs, \* sync_resource requests: as many at a time
          MaxFails,     \* bound on the failures from outside
          FeedLimit     \* page size

Nothing == 0

Rows == UNION ToSet(Resources)

Syncs == Scripts \cup ResourceSyncs

TableOf(r) == CHOOSE T \in ToSet(Resources) : r \in T

ASSUME ItemsAssumption ==
  /\ Resources \in Seq(SUBSET Nat) \ {<< >>}
  /\ Rows \subseteq Nat \ {Nothing} /\ Nothing \notin Codes
  /\ \A T \in ToSet(Resources) :
       /\ IsFiniteSet(T)
       /\ \A U \in ToSet(Resources) : T = U \/ T \cap U = {}
  /\ Parent \in [Rows -> Rows \cup {Nothing}]
  /\ FeedLimit \in Nat \ {0} /\ Scripts \cap ResourceSyncs = {}

VARIABLES pms,          \* PMS: per row the codes it has had, Nothing if unlisted
          copy,         \* committed projection: the version of a row, 0 for none
          sync,         \* syncs
          fails,        \* how often a sync failed from outside
          moved         \* a code went from one row to another (history)

itemVars == <<pms, copy, sync, fails, moved>>

NoPage == [r \in {} |-> 0]

(* A sync: its log entry, the tables to go, the place in the feed, the     *)
(* rest of the page (versions by row), its uncommitted rows; whether it is *)
(* of all tables and PMS has stood still since it began (history).         *)
IdleSync == [st |-> "NONE", pc |-> "idle", todo |-> << >>, off |-> 0, page |-> NoPage,
             more |-> FALSE, new |-> [r \in Rows |-> 0], still |-> FALSE]

Code(r) == IF pms[r] = << >> THEN Nothing ELSE Last(pms[r])

ItemsInit ==
  /\ pms = [r \in Rows |-> << >>]
  /\ copy = [r \in Rows |-> 0]
  /\ sync = [s \in Syncs |-> IdleSync]
  /\ fails = 0
  /\ moved = FALSE

Syncing(s) == sync[s].pc # "idle"

(* External: PMS lists a row under a code nobody else has, renames it, or  *)
(* takes it out (c = Nothing); a row's parent is listed as long as it.     *)
Change(r, c) ==
  /\ MapThenSumSet(LAMBDA q : Len(pms[q]), Rows) < MaxChanges /\ c # Code(r)
  /\ c # Nothing => /\ \A q \in TableOf(r) : Code(q) # c
                    /\ Parent[r] # Nothing => Code(Parent[r]) # Nothing
  /\ c = Nothing => \A q \in Rows : Parent[q] = r => Code(q) = Nothing
  /\ pms' = [pms EXCEPT ![r] = Append(@, c)]
  /\ moved' = (moved \/ \E q \in TableOf(r) \ {r} : c # Nothing /\ c \in ToSet(pms[q]))
  /\ sync' = [s \in Syncs |-> [sync[s] EXCEPT !.still = FALSE]]
  /\ UNCHANGED <<copy, fails>>

-----------------------------------------------------------------------------
(* The script syncs all tables and keeps no log; sync_resource commits a   *)
(* RUNNING entry and syncs one table.                                      *)
StartSync(s, sel, st) ==
  /\ ~Syncing(s)
  /\ sync' = [sync EXCEPT ![s] =
                 [IdleSync EXCEPT !.st = st, !.pc = "fetch", !.todo = sel,
                                  !.still = (sel = Resources)]]
  /\ UNCHANGED <<pms, copy, fails, moved>>

StartAll(s) == StartSync(s, Resources, "NONE")
StartOne(s) == \E i \in DOMAIN Resources : StartSync(s, <<Resources[i]>>, "RUNNING")

Listed(T) == {r \in T : Code(r) # Nothing}

(* The feed of a table is in the order of the ids: how many come before r. *)
Place(T, r) == Cardinality({q \in Listed(T) : q < r})

(* _fetch_page: a page of the feed, as it is in PMS now.                   *)
FetchPage(s) ==
  LET T    == Head(sync[s].todo)
      off  == sync[s].off
      part == {r \in Listed(T) : Place(T, r) >= off /\ Place(T, r) < off + FeedLimit}
  IN /\ sync[s].pc = "fetch"
     /\ sync' = [sync EXCEPT ![s].pc = "upsert",
                             ![s].page = [r \in part |-> Len(pms[r])],
                             ![s].more = off + FeedLimit < Cardinality(Listed(T))]
     /\ UNCHANGED <<pms, copy, fails, moved>>

Shown(s, r) == IF sync[s].new[r] # 0 THEN sync[s].new[r] ELSE copy[r]

CodeIn(s, r) == IF Shown(s, r) = 0 THEN Nothing ELSE pms[r][Shown(s, r)]

(* Fault: only the row is waited for, not the code.                        *)
WaitsForRow(s, r, c) == \E q \in Syncs \ {s} : sync[q].new[r] # 0

(* Row r under code c: another sync has written the row or the code's row. *)
UpsertWaits(s, r, c) ==
  \E q \in Syncs \ {s} :
    \/ sync[q].new[r] # 0
    \/ \E x \in TableOf(r) : sync[q].new[x] # 0 /\ c \in {CodeIn(q, x), CodeIn(s, x)}

Taken(s, r, c) == \E x \in TableOf(r) \ {r} : CodeIn(s, x) = c

FirstOf(page) == Min(DOMAIN page)

(* _upsert_rows, one row: INSERT ... ON CONFLICT (id) DO UPDATE; the other *)
(* unique key, the code, is refused.                                       *)
UpsertRow(s) ==
  LET page == sync[s].page
      r    == FirstOf(page)
  IN /\ sync[s].pc = "upsert" /\ DOMAIN page # {}
     /\ ~UpsertWaits(s, r, pms[r][page[r]])
     /\ ~Taken(s, r, pms[r][page[r]])
     /\ sync' = [sync EXCEPT ![s].page = Restrict(page, DOMAIN page \ {r}),
                             ![s].new[r] = page[r]]
     /\ UNCHANGED <<pms, copy, fails, moved>>

(* Fault: the next table is read from where the last one ended.            *)
AfterFeedKeeping(y) ==
  IF y.more THEN [y EXCEPT !.off = @ + FeedLimit, !.pc = "fetch"]
  ELSE IF Len(y.todo) > 1 THEN [y EXCEPT !.todo = Tail(@), !.pc = "fetch"]
  ELSE [y EXCEPT !.todo = << >>, !.off = 0, !.pc = "commit"]

(* Behind the page: the next one, the next table, or the end.              *)
AfterFeed(y) ==
  IF y.more THEN [y EXCEPT !.off = @ + FeedLimit, !.pc = "fetch"]
  ELSE IF Len(y.todo) > 1 THEN [y EXCEPT !.off = 0, !.todo = Tail(@), !.pc = "fetch"]
  ELSE [y EXCEPT !.todo = << >>, !.off = 0, !.pc = "commit"]

PageDone(s) ==
  /\ sync[s].pc = "upsert" /\ DOMAIN sync[s].page = {}
  /\ sync' = [sync EXCEPT ![s] = AfterFeed(@)]
  /\ UNCHANGED <<pms, copy, fails, moved>>

(* The session commits, then sync_resource closes its log entry.           *)
CommitSync(s) ==
  /\ sync[s].pc = "commit"
  /\ copy' = [r \in Rows |-> Shown(s, r)]
  /\ sync' = [sync EXCEPT ![s] = [IdleSync EXCEPT !.st = sync[s].st, !.pc = "finish"]]
  /\ UNCHANGED <<pms, fails, moved>>

LogClosed(st, to) == IF st = "RUNNING" THEN to ELSE st

FinishSync(s) ==
  /\ sync[s].pc = "finish"
  /\ sync' = [sync EXCEPT ![s] = [IdleSync EXCEPT !.st = LogClosed(sync[s].st, "SUCCESS")]]
  /\ UNCHANGED <<pms, copy, fails, moved>>

RolledBack(s) == [IdleSync EXCEPT !.st = LogClosed(sync[s].st, "FAILED")]

(* A code is taken: the sync fails.                                        *)
Refuse(s) ==
  LET page == sync[s].page
      r    == FirstOf(page)
  IN /\ sync[s].pc = "upsert" /\ DOMAIN page # {}
     /\ ~UpsertWaits(s, r, pms[r][page[r]])
     /\ Taken(s, r, pms[r][page[r]])
     /\ sync' = [sync EXCEPT ![s] = RolledBack(s)]
     /\ UNCHANGED <<pms, copy, fails, moved>>

(* PMS does not answer, the database fails, or the process dies, which     *)
(* leaves the log entry RUNNING.                                           *)
FailSync(s) ==
  /\ Syncing(s) /\ fails < MaxFails
  /\ fails' = fails + 1
  /\ \E y \in {RolledBack(s), [IdleSync EXCEPT !.st = sync[s].st]} :
       sync' = [sync EXCEPT ![s] = y]
  /\ UNCHANGED <<pms, copy, moved>>

ItemStep(s) ==
  \/ FetchPage(s) \/ UpsertRow(s) \/ PageDone(s)
  \/ CommitSync(s) \/ FinishSync(s) \/ Refuse(s)

ItemsNext ==
  \/ \E r \in Rows, c \in Codes \cup {Nothing} : Change(r, c)
  \/ \E s \in Scripts : StartAll(s)
  \/ \E s \in ResourceSyncs : StartOne(s)
  \/ \E s \in Syncs : ItemStep(s) \/ FailSync(s)

ItemsSpec == ItemsInit /\ [][ItemsNext]_itemVars

(* The script is run again and again, what was begun goes on, and a row    *)
(* lock is granted in the order in which it was asked for.                 *)
ItemsFairSpec ==
  /\ ItemsSpec
  /\ \A s \in Syncs : WF_itemVars(ItemStep(s)) /\ SF_itemVars(UpsertRow(s))
  /\ \A s \in Scripts : WF_itemVars(StartAll(s))

-----------------------------------------------------------------------------
ItemsTypeOK ==
  /\ pms \in [Rows -> Seq(Codes \cup {Nothing})]
  /\ \A r \in Rows : copy[r] \in 0..Len(pms[r])
  /\ \A s \in Syncs :
       /\ sync[s].st \in {"NONE", "RUNNING", "SUCCESS", "FAILED"}
       /\ sync[s].pc \in {"idle", "fetch", "upsert", "commit", "finish"}
       /\ \A r \in Rows : sync[s].new[r] \in 0..Len(pms[r])
  /\ moved \in BOOLEAN

(* No two rows of a table have one code, in the committed projection: what *)
(* find-by-SKU and find-by-barcode rely on.                                *)
CodesUnique ==
  /\ ItemsTypeOK
  /\ \A T \in ToSet(Resources) : \A r, q \in T :
       r # q /\ copy[r] # 0 /\ copy[q] # 0 => pms[r][copy[r]] # pms[q][copy[q]]

(* _check_items, _check_uoms, _check_sku_codes, _check_barcodes: what a    *)
(* row refers to is there.                                                 *)
NoIssue(r) == copy[r] # 0 /\ Parent[r] # Nothing => copy[Parent[r]] # 0

Current == \A r \in Rows : Code(r) # Nothing => copy[r] = Len(pms[r]) /\ NoIssue(r)

(* When a sync of all tables commits and PMS stood still since it began,   *)
(* the projection has every row as PMS has it and the checks find nothing  *)
(* among them, whatever other syncs committed in between.                  *)
FullSyncIsCurrent ==
  [][\A s \in Syncs : sync[s].still /\ sync'[s].pc = "finish" => Current']_itemVars

(* As long as no code goes from one row to another, the projection becomes *)
(* and stays what PMS has, once PMS stands still, in spite of overlapping  *)
(* syncs and failures.  A code that moved may be refused for ever: the row *)
(* that had it is written later in the feed, or never deleted.             *)
CatchesUp == <>[](moved \/ Current)
=============================================================================
