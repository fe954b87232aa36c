SPECIFICATION PlaySpec
CONSTANTS
  UserName = {"root", "ann", "bob"}
  NodeID = {"local", "edge"}
  TunnelID = {"t1", "t2", "t3"}
  DefaultNodeID = "local"
  AdminName = "root"
  AdminPassword = "p0"
  Password = {"p0", "p1"}
  Domain <- Sites
  UserInput <- BothUsers
  NodeInput <- BothNodes
  TunnelInput <- TunnelEdits
  SaveOutcome = {"ok", "fail", "short"}
  Retention = 1
  MaxTime = 3
  None = None
  Plays = {"tunnels", "faults"}
INVARIANTS
  TypeOK
  Consistency
  AckedIsDurable
PROPERTIES
  QuotaBoundsGrowth
CHECK_DEADLOCK FALSE
