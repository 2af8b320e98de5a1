SPECIFICATION WorkflowSpec
CONSTANTS
  a = a
  b = b
  c = c
  d = d
  Jobs <- MCJobs
  Tenantless = {}
  PolicyAttempts <- MCPolicyAttempts
  MaxStalled = 1
  Nodes <- MCNodes
  NoNode = NoNode
  Kind <- MCKind
  Start = a
  Graphs <- MCGraphs
  CanPause = TRUE
  Faults = {"crash", "enqueue", "answer", "write"}
  MaxTrouble = 1
INVARIANTS WorkflowTypeOK DelayHeld RepeatsNeedCause VerdictsSound
PROPERTIES RunSettles
CHECK_DEADLOCK FALSE
