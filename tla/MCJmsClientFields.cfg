SPECIFICATION JmsSpec
CONSTANTS
  Calls = {c1, c2}
  NoCall = NoCall
  Queues = {q1, q2}
  Users = {u1, u2}
  NoUser = NoUser
  MaxMessages = 1
SYMMETRY Symmetry
INVARIANTS
  JmsTypeOK
  StraysStayBeside
  LoneCallServesCaller
  SuccessMeansSent
  LoneCallClosesConnection
  IdleConnectionClosed
CHECK_DEADLOCK FALSE
