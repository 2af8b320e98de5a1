SPECIFICATION Spec
CONSTANTS
  d1 = d1
  d2 = d2
  Dispatchers <- MCDispatchers
  Jobs <- MCJobs
  Tenantless = {}
  PolicyAttempts <- MCPolicyAttempts
  MaxStalled = 0
  Known <- MCKnown
  Routed <- MCRouted
  BatchSize = 2
  MaxAttempts = 2
  Faults = {"crash", "stop", "rollback", "claim_ack", "requeue"}
  MaxFaults = 1
  p1 = p1
  t1 = t1
  t2 = t2
  Workers <- MCDispatchers
  Posts <- MCPosts
  Targets <- MCTargets
  NoPost = NoPost
  SocialFaults = {"crash", "ceiling", "read", "answer", "write", "slow"}
  MaxSocialTrouble = 1
  Pollers <- MCDispatchers
  Clients <- MCTargets
  Periods = 2
  Nobody = Nobody
  DigestFaults = {"database", "crash"}
  MaxDigestTrouble = 1
INVARIANTS PollersTypeOK DisjointBatches LossBounded PostsSound SecondReportNeedsRace RemovalHolds
PROPERTIES RelaySpec PollersSettle
CHECK_DEADLOCK FALSE
