SPECIFICATION FairSpec
INVARIANTS CommittedIsApplied KeysWhileRunning
PROPERTIES ExecuteReturns
CONSTANTS
  t1 = t1
  t2 = t2
  s1 = s1
  s2 = s2
  k1 = k1
  k2 = k2
  Keys = {k1, k2}
  Txns = {t1, t2}
  Participants <- TwoSharing
  Handlers = {s1}
  Timeout = 2
  MaxTime = 5
CHECK_DEADLOCK FALSE
