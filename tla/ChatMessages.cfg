SPECIFICATION Spec
CONSTANTS
  k1 = k1
  k2 = k2
  alice = alice
  bob = bob
  m1 = m1
  Calls = {k1, k2}
  MaxCalls = 3
  Users = {alice, bob}
  Founders = {alice}
  Admins = {alice}
  ClientIds = {m1}
  MaxRemoved = 1
SYMMETRY Symmetry
INVARIANTS AnswersAgree ListedNotifiedOnce UnreadExactAtRest
PROPERTIES ReadBackOnlyByRace
CHECK_DEADLOCK FALSE
