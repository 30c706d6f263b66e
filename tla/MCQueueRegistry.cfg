SPECIFICATION RegistrySpec
CONSTANTS
  Queues = {q1, q2}
  Threads = {t1, t2, t3}
  MaxCalls = 4
SYMMETRY Symmetry
INVARIANTS
  RegistryTypeOK
  UserCountBounded
  ExactUserCount
\* calls run out at MaxCalls
CHECK_DEADLOCK FALSE
