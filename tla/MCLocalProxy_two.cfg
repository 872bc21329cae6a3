SPECIFICATION Spec
CONSTANTS
  p1 = p1
  p2 = p2
  e1 = e1
  e2 = e2
  ip1 = ip1
  ip2 = ip2
  u1 = u1
  u2 = u2
  NoIp = NoIp
  Process = {p1, p2}
  Env = {e1, e2}
  Upstream = {u1}
  LanSets <- NoLan
VIEW LiveView
SYMMETRY BothSym
INVARIANT SitesStayRegistered
