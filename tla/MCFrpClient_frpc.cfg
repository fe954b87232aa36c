SPECIFICATION SceneSpec
CONSTANTS
  np = np
  nq = nq
  Ctl = {1, 2, 3}
  Name = {np, nq}
  Monitored = {nq}
  MaxFailed = 2
  None = none
  Setups <- MCSetups
  Visits = {"u1", "u2"}
  Keeper = "keeper"
  Tries = {1, 2, 3}
  Peer = {"p1"}
  Cap = 1
  Wires = {1, 2, 3}
  Call = {"a1", "a2", "a3"}
  Absent = absent
INVARIANTS
  ProxyConfSound
  ControlSound
  TunnelsSound
  ConfSound
PROPERTIES
  ClientSettles
CHECK_DEADLOCK FALSE
