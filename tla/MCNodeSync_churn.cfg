SPECIFICATION PlaySpec
CONSTANTS
  UserName = {"root", "ann"}
  NodeID = {"local", "edge"}
  TunnelID = {1, 2}
  DefaultNodeID = "local"
  AdminName = "root"
  AdminPassword = "p0"
  Password = {"p0"}
  Domain <- Sites
  UserInput <- OneAccount
  NodeInput <- Edge
  TunnelInput <- AnyTunnel
  SaveOutcome = {"ok"}
  Retention = 1
  MaxTime = 1
  None = None
  Here = "edge"
  PushSlot = {"push"}
  MaxEdits = 5
  Plays = {"churn", "kinds"}
  MaxFaults = 1
INVARIANTS
  NodeSound
PROPERTIES
  SuccessMeansApplied
  EventuallyApplied
CHECK_DEADLOCK FALSE
