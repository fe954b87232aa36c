SPECIFICATION FairPlaySpec
CONSTANTS
  UserName = {"root", "ann"}
  NodeID = {"local"}
  TunnelID = {"t1"}
  DefaultNodeID = "local"
  AdminName = "root"
  AdminPassword = "p0"
  Password = {"p0", "p1"}
  Domain <- Sites
  UserInput <- UserEdits
  NodeInput <- NoNodeInput
  TunnelInput <- LifeTunnels
  SaveOutcome = {"ok"}
  Retention = 2
  MaxTime = 6
  None = None
  Plays = {"users"}
INVARIANTS
  ExpiredDisabled
PROPERTIES
  SweepKeepsGrace
  LastAdminKept
  ExpiredIsRemoved
