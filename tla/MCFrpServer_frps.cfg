SPECIFICATION SceneSpec
CONSTANTS
  c1 = c1
  c2 = c2
  c3 = c3
  r1 = r1
  r2 = r2
  k1 = k1
  k2 = k2
  na = na
  nb = nb
  ng = ng
  nh = nh
  ni = ni
  Ctl = {c1, c2, c3}
  Run = {r1, r2}
  Key = {k1, k2}
  Name = {na, nb, ng, nh, ni}
  p1 = p1
  p2 = p2
  Port = {p1, p2}
  User = {u}
  None = none
  AnyPort = any
  WantOf <- MCWantOf
  Grouped = {ng, nh, ni}
  MaxGen = 3
  Setups <- MCSetups
  x1 = x1
  x2 = x2
  x3 = x3
  Pxy = {x1, x2, x3}
  Req = {"q1", "q2"}
  MaxInst = 3
INVARIANTS
  ServerSound
  RoutesSound
  WaysSound
PROPERTIES
  ServerSettles
CHECK_DEADLOCK FALSE
