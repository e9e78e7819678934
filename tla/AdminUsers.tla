----------------------------- MODULE AdminUsers -----------------------------
(***************************************************************************)
(* Users and their permissions, as administrators govern them: create,     *)
(* enable, disable, delete, and save a row of the permission matrix.  The  *)
(* services promise that an active user with page.admin.write is left.     *)
(*                                                                         *)
(* A request checks its actor, reads the target, counts the administrators *)
(* and writes, each in a statement of its own under READ COMMITTED; no     *)
(* row is locked before it is written.  The ORM keeps what it read of the  *)
(* target: later decisions of the request go by that.                      *)
(***************************************************************************)
EXTENDS FiniteSets, Naturals

CONSTANTS Users,        \* ids of users, never used twice
          Root,         \* the administrator the installation starts with
          Requests,     \* HTTP requests that can be in flight together
          Pages,        \* the grantable first-level pages
          AdminPage,    \* the page of user administration
          Unmanaged,    \* permissions of no such page
          Grants        \* sets of permissions users are created with

Read(g)  == <<g, "read">>
Write(g) == <<g, "write">>

Managed == {Read(g) : g \in Pages} \cup {Write(g) : g \in Pages}

Permissions == Managed \cup Unmanaged

ADMIN_WRITE_PERMISSION == Write(AdminPage)

ASSUME AdminAssumption ==
  /\ Root \in Users /\ AdminPage \in Pages
  /\ Unmanaged \cap Managed = {}
  /\ Grants \subseteq SUBSET Permissions

VARIABLES user,         \* the committed users with their user_permissions
          req           \* requests in flight

userVars == <<user, req>>

-----------------------------------------------------------------------------
Present == {"active", "inactive"}

Cells == [Pages -> [read : BOOLEAN, write : BOOLEAN]]

(* A request: its step; the target, and whether that is the actor himself; *)
(* what a save will insert; the target as it was read; the rows of         *)
(* user_permissions a save's DELETE sees, then holds.  And as history: it  *)
(* overlapped with a save of the same user, or with another request that   *)
(* may take an administrator away, on another user or one that was crossed *)
(* so itself.                                                              *)
Idle == [op |-> "idle", at |-> "idle", target |-> Root, self |-> FALSE,
         final |-> {}, st |-> "none", perms |-> {}, rows |-> {},
         mixed |-> FALSE, crossed |-> FALSE]

Is(p, op, at) == req[p].op \in op /\ req[p].at = at

Goto(p, at) == req' = [req EXCEPT ![p].at = at]

IsAdmin(u) ==
  user[u].st = "active" /\ ADMIN_WRITE_PERMISSION \in user[u].perms

(* count_active_users_with_permission *)
Admins == {u \in Users : IsAdmin(u)}

UsersInit ==
  /\ user = [u \in Users |->
       IF u = Root THEN [st |-> "active", perms |-> Permissions]
                   ELSE [st |-> "none", perms |-> {}]]
  /\ req = [p \in Requests |-> Idle]

(* An exception, a refusal or a crash: nothing is committed.               *)
Fail(p) ==
  /\ req[p] # Idle
  /\ req' = [req EXCEPT ![p] = Idle]
  /\ UNCHANGED user

-----------------------------------------------------------------------------
(* _build_desired_managed_permission_names *)
Desired(pages) ==
  {Read(g) : g \in {h \in Pages : pages[h].read \/ pages[h].write}}
    \cup {Write(g) : g \in {h \in Pages : pages[h].write}}

Removals == {"save", "disable", "delete"}

Mixes(r, s) == r.op = "save" /\ s.op = "save" /\ r.target = s.target

Crosses(r, s) ==
  {r.op, s.op} \subseteq Removals /\ (r.target # s.target \/ s.crossed)

(* get_current_user and check_permission; nobody deletes himself.          *)
Request(p, a, t, op, final) ==
  LET r == [Idle EXCEPT !.op = op, !.target = t, !.final = final,
              !.self = (op = "save" /\ a = t),
              !.at = IF op = "create" THEN "write" ELSE "read"]
  IN /\ req[p] = Idle
     /\ IsAdmin(a)
     /\ op = "delete" => a # t
     /\ req' = [q \in Requests |->
          IF q = p
          THEN [r EXCEPT !.mixed   = \E o \in Requests : Mixes(r, req[o]),
                         !.crossed = \E o \in Requests : Crosses(r, req[o])]
          ELSE [req[q] EXCEPT !.mixed   = @ \/ Mixes(r, req[q]),
                              !.crossed = @ \/ Crosses(r, req[q])]]
     /\ UNCHANGED user

(* Fault: permissions of no page are dropped by a save.                    *)
PreservedNone(perms) == {}

Preserved(perms) == perms \ Managed

(* get_user_by_id: the row and, with it, its permissions.  Those of no     *)
(* page are to be kept by a save.                                          *)
ReadTarget(p) ==
  LET r == req[p]  u == user[r.target] IN
  /\ r.at = "read"
  /\ u.st \in Present
  /\ req' = [req EXCEPT ![p] =
       [r EXCEPT !.at = "guard", !.st = u.st, !.perms = u.perms,
                 !.final = IF r.op = "save" THEN @ \cup Preserved(u.perms) ELSE @]]
  /\ UNCHANGED user

-----------------------------------------------------------------------------
(* The request takes page.admin.write from the target, or the target away. *)
TakesAdmin(r) ==
  /\ ADMIN_WRITE_PERMISSION \in r.perms
  /\ \/ r.op = "save" /\ ADMIN_WRITE_PERMISSION \notin r.final
     \/ r.op \in {"disable", "delete"}

(* Fault: a disable does not count the administrators.                     *)
MayGoOnUncounted(r) ==
  /\ r.op = "save" /\ TakesAdmin(r) => ~r.self
  /\ r.op # "disable" /\ r.st = "active" /\ TakesAdmin(r) => Cardinality(Admins) > 1

(* _guard_admin_write_lockout, _ensure_not_last_active_admin_writer: not   *)
(* one's own, not the last active one.                                     *)
MayGoOn(r) ==
  /\ r.op = "save" /\ TakesAdmin(r) => ~r.self
  /\ r.st = "active" /\ TakesAdmin(r) => Cardinality(Admins) > 1

Guard(p) ==
  /\ req[p].at = "guard"
  /\ MayGoOn(req[p])
  /\ Goto(p, "write")
  /\ UNCHANGED user

-----------------------------------------------------------------------------
(* Requests, other than p, that hold deleted rows of u.                    *)
Holders(p, u) ==
  {q \in Requests \ {p} : Is(q, {"save"}, "insert") /\ req[q].target = u}

(* Once rows of u are gone, no DELETE that is waiting for them finds them: *)
(* rows inserted since are not in its snapshot.                            *)
Ended(p, u, gone) ==
  req' = [q \in Requests |->
            IF q = p THEN Idle
            ELSE IF req[q].target = u /\ req[q].at = "delete"
            THEN [req[q] EXCEPT !.rows = @ \ gone] ELSE req[q]]

(* Fault: the old rows are left in place.                                  *)
SeenNone(u) == {}

Seen(u) == user[u].perms

(* _replace_user_permissions: the DELETE takes its snapshot, ...           *)
SaveBegin(p) ==
  /\ Is(p, {"save"}, "write")
  /\ user[req[p].target].st \in Present
  /\ req' = [req EXCEPT ![p].at = "delete", ![p].perms = {},
                        ![p].rows = Seen(req[p].target)]
  /\ UNCHANGED user

(* ... waits for those who hold rows of it, ...                            *)
SaveDelete(p) ==
  /\ Is(p, {"save"}, "delete")
  /\ \A q \in Holders(p, req[p].target) : req[q].rows \cap req[p].rows = {}
  /\ Goto(p, "insert")
  /\ UNCHANGED user

(* ... and the new rows are inserted, unless there is one already or the   *)
(* user is gone, and committed.                                            *)
SaveInsert(p) ==
  LET r == req[p]  u == r.target  left == user[u].perms \ r.rows IN
  /\ Is(p, {"save"}, "insert")
  /\ user[u].st \in Present
  /\ \A q \in Holders(p, u) : req[q].rows \cap r.final = {}
  /\ left \cap r.final = {}
  /\ user' = [user EXCEPT ![u].perms = left \cup r.final]
  /\ Ended(p, u, r.rows)

(* update_user_profile: the ORM writes is_active if it is not what it read.*)
SetActive(p) ==
  LET r == req[p]  st == IF r.op = "enable" THEN "active" ELSE "inactive" IN
  /\ Is(p, {"enable", "disable"}, "write")
  /\ user[r.target].st \in Present
  /\ user' = [user EXCEPT ![r.target].st = IF st = r.st THEN @ ELSE st]
  /\ req' = [req EXCEPT ![p] = Idle]

(* Fault: the rows of user_permissions stay (no ON DELETE CASCADE).        *)
RemovedAlone(u) == [user[u] EXCEPT !.st = "deleted"]

Removed(u) == [st |-> "deleted", perms |-> {}]

(* delete_user: the ORM deletes the rows of user_permissions it read, and  *)
(* fails if one is gone; the rest goes with the user.                      *)
DeleteUser(p) ==
  LET r == req[p]  u == r.target IN
  /\ Is(p, {"delete"}, "write")
  /\ user[u].st \in Present
  /\ \A q \in Holders(p, u) : req[q].rows = {}
  /\ r.perms \subseteq user[u].perms
  /\ user' = [user EXCEPT ![u] = Removed(u)]
  /\ Ended(p, u, user[u].perms)

(* create_user: the name is new and the permissions exist.                 *)
CreateUser(p, given) ==
  LET u == req[p].target IN
  /\ Is(p, {"create"}, "write")
  /\ user[u].st = "none"
  /\ user' = [user EXCEPT ![u] = [st |-> "active", perms |-> given]]
  /\ req' = [req EXCEPT ![p] = Idle]

-----------------------------------------------------------------------------
UsersNext ==
  \E p \in Requests :
    \/ \E a \in Users, t \in Users :
         \/ \E op \in {"create", "enable", "disable", "delete"} :
              Request(p, a, t, op, {})
         \/ \E pages \in Cells : Request(p, a, t, "save", Desired(pages))
    \/ ReadTarget(p) \/ Guard(p)
    \/ SaveBegin(p) \/ SaveDelete(p) \/ SaveInsert(p)
    \/ SetActive(p) \/ DeleteUser(p)
    \/ \E given \in Grants : CreateUser(p, given)
    \/ Fail(p)

UsersSpec == UsersInit /\ [][UsersNext]_userVars

-----------------------------------------------------------------------------
UsersTypeOK ==
  /\ user \in [Users -> [st : Present \cup {"none", "deleted"},
                         perms : SUBSET Permissions]]
  /\ \A p \in Requests :
       /\ req[p].op \in Removals \cup {"idle", "create", "enable"}
       /\ req[p].at \in {"idle", "read", "guard", "write", "delete", "insert"}
       /\ req[p].perms \cup req[p].rows \subseteq Permissions
  /\ \A u \in Users : user[u].st \notin Present => user[u].perms = {}

(* A request never takes the last active user with page.admin.write ("the  *)
(* last one cannot be removed"), by a save, a disable or a delete, unless  *)
(* it overlapped with another such request on another user, or with one    *)
(* that had: the count is not locked.                                      *)
AdminRemains ==
  [][Admins # {} /\ Admins' = {} =>
       \E p \in Requests : req[p].crossed /\ req'[p] = Idle]_userVars

(* A save leaves its user exactly what it was asked to, so what it revokes *)
(* is gone, also when the user is enabled or disabled meanwhile.  Only two *)
(* saves of one user that overlap may leave him what both gave.            *)
SaveIsExact ==
  [][\A p \in Requests :
       LET u == req[p].target IN
       req[p].op = "save" /\ req'[p] = Idle /\ user'[u].perms # user[u].perms =>
         req[p].mixed \/ user'[u].perms = req[p].final]_userVars

(* Also when the rows of two saves mix, the permissions of no page are     *)
(* left alone, although each save deletes them and inserts what it read    *)
(* before, and whatever changed, write on a page comes with read.          *)
MixedSavesKeep ==
  [][\A u \in Users :
       /\ user[u].st \in Present /\ user'[u].st \in Present =>
            user'[u].perms \cap Unmanaged = user[u].perms \cap Unmanaged
       /\ user[u].st \in Present /\ user'[u].perms # user[u].perms =>
            \A g \in Pages :
              Write(g) \in user'[u].perms => Read(g) \in user'[u].perms]_userVars
=============================================================================
