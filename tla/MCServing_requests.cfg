SPECIFICATION SceneSpec
CONSTANTS
  root = root
  bob = bob
  eve = eve
  r1 = r1
  r2 = r2
  r3 = r3
  r4 = r4
  r5 = r5
  r6 = r6
  t1 = t1
  t2 = t2
  Req = {r1, r2, r3, r4, r5, r6}
  Name = {root, bob, eve}
  Tid = {t1, t2}
  Push = {1, 2}
  Admin = root
  None = none
  Setups <- MCSetups
  Slot = {1, 2}
  Key = {"k4", "k5"}
  Port = {1, 2, 3}
  Cap = 4
  NoPost = nopost
  Browser = {"b1", "b2"}
  MaxFails = 2
  Period = 2
  Wire = {"w1", "w2"}
  Supported = {"aes", "xchacha"}
INVARIANTS
  ApiSound
  ConsoleSound
  WireSound
PROPERTIES
  ApiGuards
  ApiSettles
  ConsoleAnswers
  WireSettles
CHECK_DEADLOCK FALSE
