SPECIFICATION FairSpec
CONSTANTS
  p1 = p1
  p2 = p2
  c = c
  Plain = {p1, p2}
  Config = {c}
  Stored = st
  Pinger = ping
  Console = web
  None = none
  RetryLimit = 2
  Setups <- MCSetups
PROPERTIES
  BridgeSettles
CHECK_DEADLOCK FALSE
