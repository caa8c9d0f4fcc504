CONSTANTS
  c1 = c1
  c2 = c2
  u1 = u1
  Conns = {c1, c2}
  Uuids = {u1}
  UuidOf <- SameUser
  Senders = {s1}
  LockIds = {1, 2, 3, 4, 5, 6, 7}
  NoLock = NoLock
  NoConn = NoConn
  CancelOnClose = TRUE
  MaxSends = 2
SPECIFICATION Spec
INVARIANTS ExclusiveWhileRegistered DeliveredToAll
SYMMETRY ConnSymmetry
CHECK_DEADLOCK FALSE
