CONSTANTS
  Users = {1, 2, 3}
  Calls = {c1, c2}
  MaxCalls = 3
  MaxFaults = 1
SPECIFICATION Spec
INVARIANTS InUnlessRemoved CountRightUnlessRaced FriendsByAnswer OneRowUnlessRaced
SYMMETRY Symmetry
CHECK_DEADLOCK FALSE
