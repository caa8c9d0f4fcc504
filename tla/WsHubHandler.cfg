CONSTANTS
  c1 = c1
  c2 = c2
  u1 = u1
  Conns = {c1}
  Uuids = {u1}
  UuidOf <- OneConn
  Senders = {s1, s2}
  LockIds = {1, 2, 3, 4, 5}
  NoLock = NoLock
  NoConn = NoConn
  CancelOnClose = FALSE
  MaxSends = 2
SPECIFICATION FairSpec
PROPERTY
  HandlerExits
CHECK_DEADLOCK FALSE
