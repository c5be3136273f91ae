SPECIFICATION FairSpec
CONSTANTS
  Pods = {1, 2, 3}
  Containers = {1, 2, 3, 4}
  PodOf <- MCPodOf
  OnNode = {2, 3}
  Limit = 2
INVARIANTS
  ResolvedStaysResolved
PROPERTIES
  CacheFollowsTheCluster
CHECK_DEADLOCK FALSE
