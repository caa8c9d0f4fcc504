CONSTANTS
  Infos = {i1, i2}
  EventCap = 2
  MaxEvents = 5
  RingStores = {"s1", "s2", "s3"}
  MaxHash = 6
  VnodeHash <- MCVnodeHash
  Replicas = 2
  Loads <- MCLoads
  MaxRouterOps = 4
  MaxStarts = 3
  MaxRebalances = 1
  CacheKeys = {k1, k2}
  Getters = {g1, g2}
  JsonSize <- MCJsonSize
  GzipSize <- MCGzipSize
  Threshold = 2
  L1Max = 2
  L2Max = 2
  MaxSets = 3
  MaxExpiries = 1
  Ips = {"ip1"}
  Uuids = {"u1", "u2"}
  Burst = 9
  Spent <- MCSpent
  Slots = {q1, q2}
  MaxRequests = 2
  MaxRefills = 1
  Pages = {"p1"}
  PageIp <- MCPageIp
  Builds <- MCBuilds
  MaxCuts = 1
  Emails = {e1, e2}
  Passwords = {w1, w2}
  AuthCalls = {c1, c2}
  MaxUsers = 2
  MaxTokens = 3
SPECIFICATION Spec
INVARIANTS RegistryAgrees RoutesToHealthy ReplicaWalk StopReachesEveryLoop
           HitIsLatest RequestsServedRight BrokenHasCause SessionIsNewest
CHECK_DEADLOCK FALSE
