SPECIFICATION FairSpec
INVARIANTS NoClosedSend InOrder
PROPERTIES GoneClientLeaves
CONSTANTS
  c1 = c1
  c2 = c2
  u1 = u1
  NoUser = NoUser
  Clients = {c1, c2}
  Users = {u1}
  UserOf <- OneAnonymous
  BufSize = 1
  MaxMsgs = 3
CHECK_DEADLOCK FALSE
