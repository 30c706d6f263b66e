SPECIFICATION LifecycleSpec
CONSTANTS
  q1 = q1
  u1 = u1
  u2 = u2
  r1 = r1
  r2 = r2
  Everyone = everyone
  Queues = {q1}
  Threads = {t1, t2}
  Users = {u1, u2}
  Roles = {r1, r2, everyone}
  MemberOf <- MCMemberOf
  ExistingRoles = {r1, r2, everyone}
  QueueAdders = {u1, u2}
  QueueRemovers = {u1}
  Admins = {u1}
  OwnQueues = {q1}
  PermissionTables <- MCTables
  MaxRequests = 3
  MaxCalls = 3
SYMMETRY Symmetry
INVARIANTS
  LifecycleTypeOK
  CreatorCanManage
PROPERTIES
  PermissionChangesAuthorized
  UpdateTakesEffect
CHECK_DEADLOCK FALSE
