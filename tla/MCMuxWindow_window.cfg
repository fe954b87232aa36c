SPECIFICATION SceneSpec
CONSTANTS
  MSS = 1
  Setups <- MCSetups
  Pusher = {"a", "b"}
  Word = 4
  MaxStarving = 1
INVARIANTS
  WindowSound
  QueueSound
PROPERTIES
  IsByteStream
  MuxSettles
CHECK_DEADLOCK FALSE
