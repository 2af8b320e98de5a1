SPECIFICATION Spec
CONSTANTS
  r1 = r1
  r2 = r2
  Nothing = Nothing
  Workers <- MCRequests
  MaxMonth = 3
  MaxSpend = 1
  Thresholds = {1}
  Faults = {"crash", "credit", "mail", "write"}
  MaxTrouble = 1
  a1 = a1
  a2 = a2
  Assets <- MCAssets
  Variants = {1, 2}
  Requests <- MCRequests
  Library = Library
  ReviewFaults = {"crash", "provider", "write"}
  MaxReviewTrouble = 4
  AdHandlers <- MCRequests
  Idle = Idle
  Daily = {1, 2}
  Lifetime = {40}
  Cap = 40
  AdFaults = {"crash", "graph", "timeout", "write"}
  MaxAdRequests = 6
  MaxAdTrouble = 1
  deals = deals
  pipelines = pipelines
  Features <- MCFeatures
  Needs <- MCNeeds
  Plans = {"small", "large"}
  Bundle <- MCBundle
  Admins <- MCRequests
  Callers <- MCRequests
  Absent = Absent
  CacheFaults = {"redis", "crash"}
  MaxChanges = 2
  MaxCacheFaults = 1
  u1 = u1
  u2 = u2
  Users <- MCUsers
  Founder = u1
  MemberHandlers <- MCRequests
  Rest = Rest
  MaxMemberRequests = 5
SYMMETRY Symmetry
INVARIANTS TenantTypeOK AlertsAtMostOnce ShownMonthsAreClosed AssetWasApproved  AdsSound FeaturesSound MembersSound
PROPERTIES ArtworkKept
CHECK_DEADLOCK FALSE
