SPECIFICATION FairRegistrySpec
CONSTANTS
  Queues = {q1}
  Threads = {t1, t2}
  MaxCalls = 4
PROPERTY CallsReturn
CHECK_DEADLOCK FALSE
