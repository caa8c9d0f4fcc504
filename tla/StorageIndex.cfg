CONSTANTS
  Timelines <- MCTimelines
  Key <- MCKey
  Local = "s0"
  Stores = {"s0", "s1"}
  BlockIds = {"b1", "b2"}
  Tasks = {t1, t2}
  WatchCap = 1
  MaxChanges = 3
  MaxMessages = 2
  MaxCreates = 1
  p1 = p1
  p2 = p2
  p3 = p3
  k1 = k1
  Keys = {k1}
  Procs = {p1, p2, p3}
  KeyOf <- OneKey
  Trying = {p1}
  Renewing = {p2}
  TTL = 2
  RenewInterval = 1
  MaxTime = 6
SPECIFICATION Spec
INVARIANTS
  ViewsAgree WatcherFollows CancelHonoured OutcomeIsTrue
  ExclusiveUntilExpiry AutoRenewKeepsLock
PROPERTIES OnlyOwnerEnds
SYMMETRY Symmetry
CHECK_DEADLOCK FALSE
