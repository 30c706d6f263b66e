SPECIFICATION LifecycleSpec
CONSTANTS
  q1 = q1
  u1 = u1
  u2 = u2
  r1 = r1
  r2 = r2
  Everyone = everyone
  Queues = {q1}
  Threads = {t1, t2}
  Users = {u1}
  Roles = {r1, everyone}
  MemberOf <- MCOneUser
  ExistingRoles = {r1, everyone}
  QueueAdders = {u1}
  QueueRemovers = {u1}
  Admins = {u1}
  OwnQueues = {q1}
  PermissionTables = {}
  MaxRequests = 4
  MaxCalls = 4
SYMMETRY Symmetry
INVARIANT BrokerQueueRegistered
PROPERTIES
  CreateTakesEffect
  DeleteTakesEffect
CHECK_DEADLOCK FALSE
