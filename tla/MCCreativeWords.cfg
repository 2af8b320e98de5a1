SPECIFICATION CreativeSpec
CONSTANTS
  c1 = c1
  c2 = c2
  r1 = r1
  r2 = r2
  Jobs <- MCJobs
  Tenantless = {}
  PolicyAttempts <- MCPolicyAttempts
  MaxStalled = 1
  Creatives <- MCCreatives
  Reviewed <- MCReviewed
  ReviewSize = 1
  Again = 1
  w1 = w1
  w2 = w2
  t1 = t1
  t2 = t2
  square = square
  Words <- MCWords
  Templates <- MCTemplates
  Ratios <- MCRatios
  Requests <- MCRequests
  None = None
  Faults = {}
  MaxTrouble = 3
SYMMETRY Symmetry
INVARIANTS WordsMatchArtwork
CHECK_DEADLOCK FALSE
