SPECIFICATION SceneSpec
CONSTANTS
  u1 = u1
  u2 = u2
  k1 = k1
  k2 = k2
  k3 = k3
  a = a
  User = {u1, u2}
  Pkt = {k1, k2, k3}
  Addr = {a}
  AddrOf <- MCAddrOf
  None = none
  Setups <- MCSetups
  x1 = x1
  x2 = x2
  h1 = h1
  h2 = h2
  n1 = n1
  n2 = n2
  Conn = {x1, x2}
  Host = {h1, h2}
  Client = {n1, n2}
  ClientOf <- MCClientOf
  NoHost = none
  MaxLink = 2
  HttpScenes <- MCHttpScenes
  t1 = t1
  t2 = t2
  t3 = t3
  ca = ca
  cb = cb
  cd = cd
  Tls = {t1, t2, t3}
  Site = {h1, h2}
  Cert = {ca, cb, cd}
  NoCert = none
  CertScenes <- MCCertScenes
INVARIANTS
  LinksSound
  HostsSound
PROPERTIES
  ProxySettles
CHECK_DEADLOCK FALSE
