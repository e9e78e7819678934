CONSTANTS
  Users = {root, u1}
  Root = root
  Requests = {p, q}
  Pages = {admin}
  AdminPage = admin
  Unmanaged = {other}
  Grants <- SomeGrants
SPECIFICATION UsersSpec
SYMMETRY Parallel
INVARIANTS
  UsersTypeOK
PROPERTIES
  AdminRemains
  SaveIsExact
  MixedSavesKeep
CHECK_DEADLOCK FALSE
