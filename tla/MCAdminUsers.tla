---------------------------- MODULE MCAdminUsers ----------------------------
(* A small installation for TLC.                                           *)
EXTENDS AdminUsers, TLC

(* An administrator, a reader, and somebody with write but not read.       *)
SomeGrants == {Permissions, {Write(AdminPage)}, Unmanaged}

Parallel == Permutations(Requests)
=============================================================================
