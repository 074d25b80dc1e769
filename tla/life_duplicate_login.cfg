\* A duplicate login.
SPECIFICATION LifeSpec
CONSTANTS
  Conns = {c1, c2}
  Ids = {p1}
  Servers = {m1}
  None = None
  HelloZones = {m1}
  ConfirmCodes = {1}
  LoginChannels = {"zone"}
  MaxHello = 1
  MaxEpoch = 1
  MaxChange = 0
  QueueDepth = 2
  CharacterLoads = {TRUE}
INVARIANTS
  LiveSessionHasMapSession
CHECK_DEADLOCK FALSE
