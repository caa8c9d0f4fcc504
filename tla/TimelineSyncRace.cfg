SPECIFICATION Spec
CONSTANTS
  w1 = w1
  w2 = w2
  r1 = r1
  c1 = c1
  u1 = u1
  NoProc = NoProc
  Writers = {w1, w2}
  Readers = {r1}
  Convs = {c1}
  Users = {u1}
  UserLists <- OneUser
  TimelineMaxSize = 2
  MaxCapacity = 100
  TornWrites = FALSE
  MaxCalls = 2
  MaxReads = 2
  MaxCrashes = 0
  MaxFaults = 0
INVARIANTS
  SyncMissesNothing
CHECK_DEADLOCK FALSE
