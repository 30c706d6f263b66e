SPECIFICATION FairLifecycleSpec
CONSTANTS
  q1 = q1
  u1 = u1
  u2 = u2
  r1 = r1
  r2 = r2
  Everyone = everyone
  Queues = {q1, q2}
  Threads = {t1, t2}
  Users = {u1, u2}
  Roles = {r1, r2, everyone}
  MemberOf <- MCMemberOf
  ExistingRoles = {r1, everyone}
  QueueAdders = {u1}
  QueueRemovers = {u1}
  Admins = {u1}
  OwnQueues = {q1}
  PermissionTables <- MCTables
  MaxRequests = 2
  MaxCalls = 2
PROPERTIES
  RegistrySpec
  RequestsEnd
CHECK_DEADLOCK FALSE
