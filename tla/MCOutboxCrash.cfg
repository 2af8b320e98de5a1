SPECIFICATION OutboxSpec
CONSTANTS
  d1 = d1
  d2 = d2
  Dispatchers <- MCDispatchers
  Jobs <- MCJobs
  Tenantless = {}
  PolicyAttempts <- MCPolicyAttempts
  MaxStalled = 0
  Known <- MCKnown
  Routed <- MCRouted
  BatchSize = 2
  MaxAttempts = 2
  Faults = {"crash"}
  MaxFaults = 1
INVARIANTS NoEventLost

CHECK_DEADLOCK FALSE
