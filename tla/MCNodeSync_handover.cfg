SPECIFICATION PlaySpec
CONSTANTS
  UserName = {"root", "ann"}
  NodeID = {"local", "edge"}
  TunnelID = {1, 2}
  DefaultNodeID = "local"
  AdminName = "root"
  AdminPassword = "p0"
  Password = {"p0"}
  Domain <- Sites
  UserInput <- Steady
  NodeInput <- Edge
  TunnelInput <- Handover
  SaveOutcome = {"ok"}
  Retention = 1
  MaxTime = 1
  None = None
  Here = "edge"
  PushSlot = {}
  MaxEdits = 5
  Plays = {"handover"}
  MaxFaults = 0
PROPERTIES
  EventuallyApplied
CHECK_DEADLOCK FALSE
