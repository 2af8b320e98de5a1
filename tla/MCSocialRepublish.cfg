SPECIFICATION SocialSafe
CONSTANTS
  w1 = w1
  w2 = w2
  p1 = p1
  t1 = t1
  t2 = t2
  Workers <- MCWorkers
  Posts <- MCPosts
  Targets <- MCTargets
  NoPost = NoPost
  SocialFaults = {}
  MaxSocialTrouble = 1
PROPERTIES OnlyFailedTargetsRetried
CHECK_DEADLOCK FALSE
