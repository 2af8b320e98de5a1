SPECIFICATION QueueSpec
CONSTANTS
  j1 = j1
  j2 = j2
  j3 = j3
  Jobs <- MCJobs
  Tenantless <- MCTenantless
  PolicyAttempts <- MCPolicyAttempts
  MaxStalled = 2
INVARIANT ExhaustedIsDeadLettered
