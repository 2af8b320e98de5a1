SPECIFICATION Spec
CONSTANTS
  r1 = r1
  r2 = r2
  r3 = r3
  b1 = b1
  b2 = b2
  w1 = w1
  w2 = w2
  l1 = l1
  l2 = l2
  p1 = p1
  Requests <- MCRequests
  Bodies <- MCBodies
  RowSecurity = FALSE
  HasBody = TRUE
  Faults = {"crash", "store", "release"}
  MaxFaults = 2
  Workers <- MCWorkers
  Leads <- MCLeads
  People <- MCPeople
  Batch = 1
  NoLead = NoLead
  NoEmail = NoEmail
  LeadFaults = {"crash", "graph", "write"}
  MaxLeadFaults = 2
  f1 = f1
  f2 = f2
  s1 = s1
  s2 = s2
  Forms <- MCForms
  Submissions <- MCSubmissions
  Addresses <- MCPeople
  Nobody = Nobody
  MaxFormTrouble = 1
  SignIns <- MCRequests
  MaxAttempts = 3
  LockFaults = {"redis", "crash"}
  MaxLockFaults = 1
  MaxTries = 8
  d1 = d1
  d2 = d2
  d3 = d3
  e1 = e1
  e2 = e2
  Documents <- MCDocuments
  Length <- MCLength
  Indexers <- MCWorkers
  Edits <- MCEdits
  Nothing = Nothing
  IndexFaults = {"enqueue", "load", "embed", "write", "fail", "crash"}
  MaxEdits = 3
  MaxIndexFaults = 1
INVARIANTS DeduplicationTypeOK OneAtATime RerunsNeedFaults ReplayIsFaithful DuplicatesNeedOverlap GuessesBounded FormsSound IndexSound
PROPERTIES DeduplicationSettles
CHECK_DEADLOCK FALSE
