SPECIFICATION Spec
CONSTANTS
  w1 = w1
  w2 = w2
  r1 = r1
  c1 = c1
  u1 = u1
  NoProc = NoProc
  Writers = {w1, w2}
  Readers = {}
  Convs = {c1}
  Users = {u1}
  UserLists <- Nobody
  TimelineMaxSize = 2
  MaxCapacity = 4
  TornWrites = TRUE
  MaxCalls = 5
  MaxReads = 0
  MaxCrashes = 1
  MaxFaults = 1
INVARIANTS SaverOwnsBlock SavedSurvives
PROPERTIES ImplementsMessageLog
SYMMETRY Symmetry
CHECK_DEADLOCK FALSE
