SPECIFICATION FairSpec
CONSTANTS
  p1 = p1
  p2 = p2
  e1 = e1
  e2 = e2
  ip1 = ip1
  ip2 = ip2
  u1 = u1
  u2 = u2
  NoIp = NoIp
  Process = {p1}
  Env = {e1}
  Upstream = {u1, u2}
  LanSets <- TwoLans
INVARIANT ComposesFullyRouted
PROPERTY EveryCommandEnds
