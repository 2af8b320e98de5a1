SPECIFICATION Spec
CONSTANTS
  x1 = x1
  x2 = x2
  Nothing = Nothing
  o1 = o1
  o2 = o2
  Orgs <- MCOrgs
  Tasks <- MCPair
  Connections <- MCPair
  c1 = c1
  c2 = c2
  None = None
  Jobs <- MCJobs
  Tenantless = {}
  PolicyAttempts <- MCPolicyAttempts
  MaxStalled = 1
  Creatives <- MCCreatives
  Reviewed <- MCReviewed
  ReviewSize = 1
  Requests <- MCPair
  Again = 1
  w1 = w1
  w2 = w2
  t1 = t1
  t2 = t2
  square = square
  Words <- MCWords
  Templates <- MCTemplates
  Ratios <- MCRatios
  Faults = {"crash", "enqueue", "template", "write"}
  MaxTrouble = 3
  MaxBatchTrouble = 2
  Rows <- MCRows
  PageSize = 1
  Names <- MCNames
  NoRow = NoRow
  All = All
  Word = Word
  MaxFlights = 2
  MaxLoads = 3
  MaxChanges = 1
  Chats <- MCPair
  Calls <- MCCalls
  ThreadPage = 1
  MaxMessages = 2
  NoChat = NoChat
SYMMETRY Symmetry
INVARIANTS WorkspaceTypeOK Isolated BatchEndsWithItsRenders PublicationsSound ListingSound InboxSound
CHECK_DEADLOCK FALSE
