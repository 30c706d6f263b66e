SPECIFICATION RegistrySpec
CONSTANTS
  Queues = {q1}
  Threads = {t1, t2}
  MaxCalls = 3
INVARIANT SharersCounted
CHECK_DEADLOCK FALSE
